--------------------------- MODULE CheckoutProofs ---------------------------
(***************************************************************************)
(* Theorems about Checkout for any number of orders, trades and workers:   *)
(* the type invariant, and that money comes before goods, a trade with a   *)
(* result has a decided order, an order has one trade, and an acknowledged *)
(* callback has a decided order.                                           *)
(***************************************************************************)
EXTENDS Checkout, TLAPS

-----------------------------------------------------------------------------
(* The order's state machine.                                              *)

\* Which states admit each action, as bind_action looks them up.
LEMMA CanApplyFacts ==
  ASSUME NEW s
  PROVE  /\ CanApply(s, "initiate_charge") <=> s = "DRAFT"
         /\ CanApply(s, "charge_success") <=> s = "PENDING_PAYMENT"
         /\ CanApply(s, "charge_fail") <=> s = "PENDING_PAYMENT"
BY DEF CanApply, Arrows, OrderStates

\* Where each applicable action leads.
LEMMA BindFacts ==
  /\ Bind("DRAFT", "initiate_charge") = "PENDING_PAYMENT"
  /\ Bind("PENDING_PAYMENT", "charge_success") = "EFFECTIVE"
  /\ Bind("PENDING_PAYMENT", "charge_fail") = "PAYMENT_FAILED"
<1>1. ASSUME NEW s, NEW a, NEW n \in OrderStates, <<s, a, n>> \in Arrows,
             \A m \in OrderStates : <<s, a, m>> \in Arrows => m = n
      PROVE  Bind(s, a) = n
  BY <1>1 DEF Bind, CanApply
<1>2. Bind("DRAFT", "initiate_charge") = "PENDING_PAYMENT"
  BY <1>1 DEF Arrows, OrderStates
<1>3. Bind("PENDING_PAYMENT", "charge_success") = "EFFECTIVE"
  BY <1>1 DEF Arrows, OrderStates
<1>4. Bind("PENDING_PAYMENT", "charge_fail") = "PAYMENT_FAILED"
  BY <1>1 DEF Arrows, OrderStates
<1> QED BY <1>2, <1>3, <1>4

-----------------------------------------------------------------------------
(* Type correctness.                                                       *)

LEMMA IdleType == Idle \in Transactions
BY DEF Idle, Session, Transactions, OrderStates, Statuses

LEMMA InitType == Init => TypeOK
BY IdleType, ConstantsAssumption DEF Init, TypeOK

USE ConstantsAssumption

LEMMA OrderStepType ==
  ASSUME TypeOK, NEW o \in Orders, OrderStep(o)
  PROVE  TypeOK'
<1>1. ASSUME NEW u \in Users, NEW r \in Plans, CreateOrder(o, u, r)
      PROVE  TypeOK'
  BY <1>1 DEF TypeOK, CreateOrder, InitialState, OrderStates, orderVars, tradeVars,
              externalVars, queueVars
<1>2. CASE ChargeFree(o)
  <2>1. Bind(Bind(state[o], "initiate_charge"), "charge_success") = "EFFECTIVE"
    BY <1>2, CanApplyFacts, BindFacts DEF ChargeFree
  <2> QED
    BY <1>2, <2>1 DEF TypeOK, ChargeFree, Bill, Stamps, OrderStates, orderVars, tradeVars,
                      externalVars, queueVars
<1>3. ASSUME NEW t \in Trades, ChargePriced(o, t)
      PROVE  TypeOK'
  <2>1. Bind(state[o], "initiate_charge") = "PENDING_PAYMENT"
    BY <1>3, CanApplyFacts, BindFacts DEF ChargePriced
  <2> QED
    BY <1>3, <2>1 DEF TypeOK, ChargePriced, Stamps, OrderStates, orderVars, tradeVars,
                      externalVars, queueVars
<1> QED BY <1>1, <1>2, <1>3 DEF OrderStep

LEMMA GatewayStepType ==
  ASSUME TypeOK, NEW t \in Trades, GatewayStep(t)
  PROVE  TypeOK'
<1>1. CASE SubmitForm(t)
  BY <1>1 DEF TypeOK, SubmitForm, Statuses, orderVars, tradeVars, queueVars
<1>2. ASSUME NEW s \in {"paid", "declined"}, Finish(t, s)
      PROVE  TypeOK'
  BY <1>2 DEF TypeOK, Finish, Statuses, orderVars, tradeVars, queueVars
<1>3. CASE ReceiveCallback(t)
  <2>1. txn' \in [Processes -> Transactions]
    BY <1>3 DEF TypeOK, ReceiveCallback, Session, Transactions, OrderStates, Statuses
  <2> QED
    BY <1>3, <2>1 DEF TypeOK, ReceiveCallback, orderVars, tradeVars, queueVars
<1> QED BY <1>1, <1>2, <1>3 DEF GatewayStep

\* Applying a result writes values of the right type.
LEMMA ApplyResultType ==
  ASSUME TypeOK, NEW p \in Processes, txn[p].trade \in Trades,
         tradeOrder[txn[p].trade] \in Orders, txn[p].code \in Statuses, ApplyResult(p)
  PROVE  /\ state' \in [Orders -> OrderStates \cup {"NONE"}]
         /\ stamps' \in [Orders -> SUBSET Stamps]
         /\ payments' \in [Orders -> Nat]
         /\ subscriptions' \in [Orders -> Nat]
         /\ rtnCode' \in [Trades -> Statuses \cup {"null"}]
         /\ rtnMsg' \in [Trades -> {"null", "callback", "sync"}]
         /\ acked' \in [Trades -> BOOLEAN]
         /\ UNCHANGED <<buyer, plan, tradeOrder, gateway, deliveries>>
<1>1. Accepted(p) => Bind(txn[p].seenState, ActionOf(p)) \in OrderStates
  BY CanApplyFacts, BindFacts DEF Accepted, ActionOf, OrderStates
<1>2. state' \in [Orders -> OrderStates \cup {"NONE"}]
  BY <1>1 DEF TypeOK, ApplyResult
<1>3. stamps' \in [Orders -> SUBSET Stamps]
  BY DEF TypeOK, ApplyResult, Stamps
<1>4. payments' \in [Orders -> Nat] /\ subscriptions' \in [Orders -> Nat]
  BY DEF TypeOK, ApplyResult, Bill
<1>5. rtnCode' \in [Trades -> Statuses \cup {"null"}]
  BY DEF TypeOK, ApplyResult
<1>6. rtnMsg' \in [Trades -> {"null", "callback", "sync"}]
  BY DEF TypeOK, ApplyResult, MessageOf
<1>7. acked' \in [Trades -> BOOLEAN]
  BY Zenon DEF TypeOK, ApplyResult, Reply, Accepted
<1> QED BY <1>2, <1>3, <1>4, <1>5, <1>6, <1>7 DEF ApplyResult

\* Handling a result keeps the types, given that its trade belongs to an order.
LEMMA ProcessStepType ==
  ASSUME TypeOK, ResultUnderWayIsSound, NEW p \in Processes, ProcessStep(p)
  PROVE  TypeOK'
<1>1. CASE Verify(p)
  <2>1. /\ txn[p] \in Transactions
        /\ txn[p].trade \in Trades
        /\ tradeOrder[txn[p].trade] \in Orders
    BY <1>1 DEF TypeOK, SoundResult, ResultUnderWayIsSound, Verify, Idle, Session
  <2>2. Session("verified", txn[p].trade, txn[p].code,
                IF p = Web THEN rtnCode[txn[p].trade] ELSE txn[p].seenCode,
                IF p = Web THEN rtnMsg[txn[p].trade] ELSE txn[p].seenMsg,
                state[tradeOrder[txn[p].trade]]) \in Transactions
    BY <2>1 DEF TypeOK, Session, Transactions
  <2>3. txn' \in [Processes -> Transactions]
    BY <1>1, <2>2 DEF TypeOK, Verify
  <2> QED
    BY <1>1, <2>3 DEF TypeOK, Verify, orderVars, tradeVars, externalVars, queueVars
<1>2. CASE Flush(p)
  <2>1. [txn[p] EXCEPT !.pc = "flushed"] \in Transactions
    <3>1. txn[p] \in Transactions
      BY DEF TypeOK
    <3>2. ASSUME NEW r \in Transactions
          PROVE  [r EXCEPT !.pc = "flushed"] \in Transactions
      BY DEF Transactions
    <3> QED BY <3>1, <3>2
  <2>2. txn' \in [Processes -> Transactions]
    BY <1>2, <2>1 DEF TypeOK, Flush
  <2> QED
    BY <1>2, <2>2 DEF TypeOK, Flush, orderVars, tradeVars, externalVars, queueVars
<1>3. CASE Settle(p)
  <2>1. /\ txn[p].trade \in Trades
        /\ tradeOrder[txn[p].trade] \in Orders
        /\ txn[p].code \in Statuses
    BY <1>3 DEF TypeOK, SoundResult, ResultUnderWayIsSound, Settle, Idle, Session
  <2>2. txn' \in [Processes -> Transactions]
    BY <1>3, IdleType DEF TypeOK, Settle
  <2> QED
    BY <1>3, <2>1, <2>2, ApplyResultType DEF TypeOK, Settle, queueVars
<1>4. CASE Crash(p)
  <2>1. txn' \in [Processes -> Transactions]
    BY <1>4, IdleType DEF TypeOK, Crash
  <2>2. txn[p].trade \in Trades
    BY <1>4 DEF SoundResult, ResultUnderWayIsSound, Crash
  <2>3. jobs' \in [Trades -> Nat] /\ failures' \in Nat
    BY <1>4, <2>2 DEF TypeOK, Crash
  <2> QED
    BY <1>4, <2>1, <2>3 DEF TypeOK, Crash, orderVars, tradeVars, externalVars
<1> QED BY <1>1, <1>2, <1>3, <1>4 DEF ProcessStep


LEMMA WorkerStepType ==
  ASSUME TypeOK, ResultUnderWayIsSound, NEW w \in Workers, WorkerStep(w)
  PROVE  TypeOK'
<1> w \in Processes
  BY DEF Processes
<1>1. CASE SyncPayment(w)
  BY <1>1 DEF TypeOK, SyncPayment, Publish, orderVars, tradeVars, externalVars
<1>2. ASSUME NEW S \in SUBSET Trades, NEW requeued \in BOOLEAN,
             SyncPaymentFails(w, S, requeued)
      PROVE  TypeOK'
  BY <1>2 DEF TypeOK, SyncPaymentFails, Publish, orderVars, tradeVars, externalVars
<1>3. ASSUME NEW t \in Trades, TakeJob(w, t)
      PROVE  TypeOK'
  <2>1. Session("loaded", t, "null", rtnCode[t], rtnMsg[t], "NONE") \in Transactions
    BY DEF TypeOK, Session, Transactions, Statuses, OrderStates
  <2>2. txn' \in [Processes -> Transactions] /\ jobs' \in [Trades -> Nat]
    BY <1>3, <2>1 DEF TypeOK, TakeJob
  <2> QED
    BY <1>3, <2>2 DEF TypeOK, TakeJob, orderVars, tradeVars, externalVars
<1>4. CASE QueryGateway(w)
  <2>1. txn[w].trade \in Trades
    BY <1>4 DEF SoundResult, ResultUnderWayIsSound, QueryGateway, Idle, Session
  <2>2. gateway[txn[w].trade] # "unknown" =>
          Session("result", txn[w].trade, gateway[txn[w].trade],
                  txn[w].seenCode, txn[w].seenMsg, "NONE") \in Transactions
    BY <2>1 DEF TypeOK, Session, Transactions, Statuses, OrderStates
  <2>3. txn' \in [Processes -> Transactions]
    BY <1>4, <2>1, <2>2, IdleType DEF TypeOK, QueryGateway
  <2> QED
    BY <1>4, <2>3 DEF TypeOK, QueryGateway, orderVars, tradeVars, externalVars, queueVars
<1>5. CASE QueryFails(w)
  <2>1. txn' \in [Processes -> Transactions]
    BY <1>5, IdleType DEF TypeOK, QueryFails
  <2> QED
    BY <1>5, <2>1 DEF TypeOK, QueryFails, orderVars, tradeVars, externalVars
<1>6. CASE SettleThenCrash(w)
  <2>1. /\ txn[w].trade \in Trades
        /\ tradeOrder[txn[w].trade] \in Orders
        /\ txn[w].code \in Statuses
    BY <1>6 DEF TypeOK, SoundResult, ResultUnderWayIsSound, SettleThenCrash, Idle, Session
  <2>2. txn' \in [Processes -> Transactions]
    BY <1>6, IdleType DEF TypeOK, SettleThenCrash
  <2>3. jobs' \in [Trades -> Nat] /\ failures' \in Nat
    BY <1>6, <2>1 DEF TypeOK, SettleThenCrash
  <2> QED
    BY <1>6, <2>1, <2>2, <2>3, ApplyResultType DEF TypeOK, SettleThenCrash
<1> QED BY <1>1, <1>2, <1>3, <1>4, <1>5, <1>6 DEF WorkerStep

LEMMA NextType == TypeOK /\ ResultUnderWayIsSound /\ [Next]_vars => TypeOK'
<1> SUFFICES ASSUME TypeOK, ResultUnderWayIsSound, [Next]_vars
             PROVE  TypeOK'
  OBVIOUS
<1>1. CASE CronSyncPayment
  BY <1>1 DEF TypeOK, CronSyncPayment, orderVars, tradeVars, externalVars
<1>2. CASE UNCHANGED vars
  BY <1>2 DEF TypeOK, vars, orderVars, tradeVars, externalVars, queueVars
<1> QED
  BY <1>1, <1>2, OrderStepType, GatewayStepType, ProcessStepType, WorkerStepType DEF Next


-----------------------------------------------------------------------------
(* Safety.                                                                 *)

LEMMA InitSafe == Init => IInv
<1> SUFFICES ASSUME Init PROVE IInv
  OBVIOUS
<1>1. TypeOK
  BY InitType
<1>2. OneTradePerOrder
  BY DEF Init, OneTradePerOrder
<1>3. UnopenedIsEmpty
  BY DEF Init, UnopenedIsEmpty
<1>4. ResultUnderWayIsSound
  BY DEF Init, ResultUnderWayIsSound, SoundResult
<1>5. SettledTradeIsDecided /\ AckedIsDecided
  BY DEF Init, SettledTradeIsDecided, AckedIsDecided
<1>6. MoneyBeforeGoods
  BY DEF Init, MoneyBeforeGoods
<1> QED BY <1>1, <1>2, <1>3, <1>4, <1>5, <1>6 DEF IInv

\* What no step takes back: a trade keeps its order, the gateway its final word,
\* and a decided order stays decided.
Kept ==
  /\ \A t \in Trades : tradeOrder[t] # NoOrder => tradeOrder'[t] = tradeOrder[t]
  /\ \A t \in Trades : gateway[t] \in {"paid", "declined"} => gateway'[t] = gateway[t]
  /\ \A o \in Orders : state[o] \in Decided => state'[o] \in Decided

\* A process that does not move keeps what it relies on.
LEMMA StaysSound ==
  ASSUME TypeOK, Kept, NEW p \in Processes, SoundResult(p), txn'[p] = txn[p]
  PROVE  SoundResult(p)'
<1>1. CASE txn[p] = Idle
  BY <1>1 DEF SoundResult, Idle, Session
<1>2. CASE txn[p] # Idle
  <2>1. /\ txn[p].trade \in Trades
        /\ tradeOrder[txn[p].trade] \in Orders
    BY <1>2 DEF SoundResult, TypeOK
  <2> QED
    BY <1>2, <2>1 DEF SoundResult, Kept
<1> QED BY <1>1, <1>2

\* A step of the web server on an order.
LEMMA OrderStepSafe ==
  ASSUME IInv, NEW o \in Orders, OrderStep(o)
  PROVE  IInv'
<1> USE DEF IInv
<1>1. TypeOK'
  BY OrderStepType
<1>2. ASSUME NEW u \in Users, NEW r \in Plans, CreateOrder(o, u, r)
      PROVE  IInv'
  <2>1. state[o] = "NONE" /\ state' = [state EXCEPT ![o] = "DRAFT"]
    BY <1>2 DEF CreateOrder, InitialState
  <2>2. UNCHANGED <<tradeOrder, rtnCode, gateway, acked, jobs, txn, payments, subscriptions>>
    BY <1>2 DEF CreateOrder, tradeVars, externalVars, queueVars
  <2>3. plan' = [plan EXCEPT ![o] = r]
    BY <1>2 DEF CreateOrder
  <2>4. \A t \in Trades : tradeOrder[t] # o
    BY <2>1 DEF TypeOK, OneTradePerOrder
  <2>5. Kept
    BY <2>1, <2>2 DEF TypeOK, Kept, Decided
  <2>6. OneTradePerOrder'
    BY <2>1, <2>2, <2>3, <2>4 DEF TypeOK, OneTradePerOrder
  <2>7. UnopenedIsEmpty'
    BY <2>1, <2>2, <2>3 DEF TypeOK, UnopenedIsEmpty
  <2>8. ResultUnderWayIsSound'
    BY <2>2, <2>5, StaysSound DEF ResultUnderWayIsSound
  <2>9. SettledTradeIsDecided' /\ AckedIsDecided'
    BY <2>1, <2>2, <2>4
    DEF TypeOK, SettledTradeIsDecided, AckedIsDecided, UnopenedIsEmpty
  <2>10. MoneyBeforeGoods'
    <3>1. payments[o] = 0 /\ subscriptions[o] = 0
      BY <2>1, <2>4 DEF TypeOK, MoneyBeforeGoods, Paid, UnopenedIsEmpty
    <3> QED
      BY <2>1, <2>2, <2>3, <2>4, <3>1 DEF TypeOK, MoneyBeforeGoods, Paid
  <2> QED BY <1>1, <2>6, <2>7, <2>8, <2>9, <2>10
<1>3. CASE ChargeFree(o)
  <2>1. state[o] = "DRAFT" /\ state' = [state EXCEPT ![o] = "EFFECTIVE"]
    BY <1>3, CanApplyFacts, BindFacts DEF ChargeFree
  <2>2. UNCHANGED <<plan, tradeOrder, rtnCode, gateway, acked, jobs, txn>>
    BY <1>3 DEF ChargeFree, tradeVars, externalVars, queueVars
  <2>3. plan[o] \in FreePlans
    BY <1>3 DEF ChargeFree
  <2>4. \A x \in Orders \ {o} :
          payments'[x] = payments[x] /\ subscriptions'[x] = subscriptions[x]
    BY <1>3 DEF TypeOK, ChargeFree, Bill
  <2>5. Kept
    BY <2>1, <2>2 DEF TypeOK, Kept, Decided
  <2>6. OneTradePerOrder'
    BY <2>1, <2>2, <2>3 DEF TypeOK, OneTradePerOrder
  <2>7. UnopenedIsEmpty'
    BY <2>1, <2>2 DEF TypeOK, UnopenedIsEmpty
  <2>8. ResultUnderWayIsSound'
    BY <2>2, <2>5, StaysSound DEF ResultUnderWayIsSound
  <2>9. SettledTradeIsDecided' /\ AckedIsDecided'
    BY <2>1, <2>2 DEF TypeOK, SettledTradeIsDecided, AckedIsDecided, UnopenedIsEmpty, Decided
  <2>10. MoneyBeforeGoods'
    BY <2>1, <2>2, <2>3, <2>4 DEF TypeOK, MoneyBeforeGoods, Paid
  <2> QED BY <1>1, <2>6, <2>7, <2>8, <2>9, <2>10
<1>4. ASSUME NEW t \in Trades, ChargePriced(o, t)
      PROVE  IInv'
  <2>1. state[o] = "DRAFT" /\ state' = [state EXCEPT ![o] = "PENDING_PAYMENT"]
    BY <1>4, CanApplyFacts, BindFacts DEF ChargePriced
  <2>2. UNCHANGED <<plan, payments, subscriptions, rtnCode, gateway, acked, jobs, txn>>
    BY <1>4 DEF ChargePriced, externalVars, queueVars
  <2>3. /\ plan[o] \notin FreePlans
        /\ tradeOrder[t] = NoOrder
        /\ tradeOrder' = [tradeOrder EXCEPT ![t] = o]
    BY <1>4 DEF ChargePriced
  <2>4. Kept
    BY <2>1, <2>2, <2>3 DEF TypeOK, Kept, Decided
  <2>5. OneTradePerOrder'
    BY <2>1, <2>2, <2>3 DEF TypeOK, OneTradePerOrder
  <2>6. UnopenedIsEmpty'
    BY <2>1, <2>2, <2>3 DEF TypeOK, UnopenedIsEmpty
  <2>7. ResultUnderWayIsSound'
    BY <2>2, <2>4, StaysSound DEF ResultUnderWayIsSound
  <2>8. SettledTradeIsDecided' /\ AckedIsDecided'
    BY <2>1, <2>2, <2>3, <2>4
    DEF TypeOK, SettledTradeIsDecided, AckedIsDecided, UnopenedIsEmpty, OneTradePerOrder, Kept
  <2>9. MoneyBeforeGoods'
    BY <2>1, <2>2, <2>3 DEF TypeOK, MoneyBeforeGoods, Paid
  <2> QED BY <1>1, <2>5, <2>6, <2>7, <2>8, <2>9
<1> QED BY <1>2, <1>3, <1>4 DEF OrderStep

\* Steps that write neither orders nor trades nor billing rows: what they leave
\* to show is that jobs and sessions name trades that exist.
LEMMA QuietStepSafe ==
  ASSUME IInv, TypeOK',
         UNCHANGED <<state, plan, payments, subscriptions, tradeOrder, rtnCode, acked>>,
         \A t \in Trades : gateway[t] \in {"paid", "declined"} => gateway'[t] = gateway[t],
         \A t \in Trades : tradeOrder[t] = NoOrder => gateway'[t] = "unknown" /\ jobs'[t] = 0,
         \A p \in Processes : txn'[p] = txn[p] \/ SoundResult(p)'
  PROVE  IInv'
<1> USE DEF IInv
<1>1. Kept
  BY DEF TypeOK, Kept
<1>2. OneTradePerOrder'
  BY DEF OneTradePerOrder
<1>3. UnopenedIsEmpty'
  BY DEF UnopenedIsEmpty
<1>4. ResultUnderWayIsSound'
  BY <1>1, StaysSound DEF ResultUnderWayIsSound
<1>5. SettledTradeIsDecided' /\ AckedIsDecided'
  BY DEF SettledTradeIsDecided, AckedIsDecided
<1>6. MoneyBeforeGoods'
  BY DEF MoneyBeforeGoods, Paid
<1> QED BY <1>2, <1>3, <1>4, <1>5, <1>6

LEMMA GatewayStepSafe ==
  ASSUME IInv, NEW t \in Trades, GatewayStep(t)
  PROVE  IInv'
<1> USE DEF IInv
<1>1. TypeOK'
  BY GatewayStepType
<1>2. CASE SubmitForm(t)
  BY <1>1, <1>2, QuietStepSafe
  DEF TypeOK, SubmitForm, UnopenedIsEmpty, orderVars, tradeVars, queueVars
<1>3. ASSUME NEW s \in {"paid", "declined"}, Finish(t, s)
      PROVE  IInv'
  BY <1>1, <1>3, QuietStepSafe
  DEF TypeOK, Finish, UnopenedIsEmpty, orderVars, tradeVars, queueVars
<1>4. CASE ReceiveCallback(t)
  <2>1. Web \in Processes
    BY DEF Processes
  <2>2. tradeOrder[t] # NoOrder /\ gateway[t] \in Statuses
    BY <1>4 DEF ReceiveCallback, UnopenedIsEmpty, Statuses
  <2>3. UNCHANGED <<state, plan, payments, subscriptions, tradeOrder, rtnCode, acked,
                    gateway, jobs>>
    BY <1>4 DEF ReceiveCallback, orderVars, tradeVars, queueVars
  <2>4. SoundResult(Web)'
    BY <1>4, <2>1, <2>2, <2>3 DEF TypeOK, ReceiveCallback, SoundResult, Session
  <2>5. \A p \in Processes : txn'[p] = txn[p] \/ SoundResult(p)'
    BY <1>4, <2>4 DEF TypeOK, ReceiveCallback
  <2> QED BY <1>1, <2>3, <2>5, QuietStepSafe DEF UnopenedIsEmpty
<1> QED BY <1>2, <1>3, <1>4 DEF GatewayStep

\* The commit of a result.  Seen pending, the order is decided now; seen decided,
\* it is decided still, whatever else was committed in between.
LEMMA ApplyResultSafe ==
  ASSUME IInv, TypeOK', NEW p \in Processes, txn[p].pc = "flushed", ApplyResult(p),
         txn' = [txn EXCEPT ![p] = Idle],
         \A t \in Trades : tradeOrder[t] = NoOrder => jobs'[t] = 0
  PROVE  IInv'
<1> USE DEF IInv
<1> DEFINE t == txn[p].trade
           o == tradeOrder[t]
<1>1. /\ t \in Trades /\ o \in Orders
      /\ txn[p].code \in Statuses
      /\ txn[p].code = "paid" => gateway[t] = "paid"
      /\ txn[p].seenState \in Decided \cup {"PENDING_PAYMENT"}
      /\ txn[p].seenState \in Decided => state[o] \in Decided
  BY DEF TypeOK, ResultUnderWayIsSound, SoundResult, Idle, Session
<1> HIDE DEF t, o
<1>2. UNCHANGED <<buyer, plan, tradeOrder, gateway>>
  BY DEF ApplyResult
<1>3. /\ \A x \in Orders \ {o} : state'[x] = state[x]
      /\ state'[o] \in Decided
  <2>1. CASE Accepted(p)
    <3>1. Bind(txn[p].seenState, ActionOf(p)) \in Decided
      BY <2>1, CanApplyFacts, BindFacts DEF Accepted, ActionOf, Decided
    <3> QED
      BY <2>1, <3>1, <1>1 DEF TypeOK, ApplyResult, t, o
  <2>2. CASE ~Accepted(p)
    <3>1. txn[p].seenState # "PENDING_PAYMENT"
      BY <2>2, CanApplyFacts DEF Accepted, ActionOf
    <3> QED
      BY <2>2, <3>1, <1>1 DEF ApplyResult
  <2> QED BY <2>1, <2>2
<1>4. \A x \in Orders :
        payments'[x] # payments[x] \/ subscriptions'[x] # subscriptions[x]
          => x = o /\ gateway[t] = "paid"
  BY <1>1 DEF TypeOK, ApplyResult, Bill, IsSuccess, t, o
<1>5. \A x \in Trades \ {t} : rtnCode'[x] = rtnCode[x] /\ acked'[x] = acked[x]
  <2>1. \A x \in Trades \ {t} : rtnCode'[x] = rtnCode[x]
    BY <1>1 DEF TypeOK, ApplyResult, t
  <2>2. CASE p = Web
    BY <2>1, <2>2, <1>1, Zenon DEF TypeOK, ApplyResult, Reply, t
  <2>3. CASE p # Web
    BY <2>1, <2>3 DEF ApplyResult, Reply
  <2> QED BY <2>2, <2>3
<1>6. Kept
  BY <1>1, <1>2, <1>3 DEF TypeOK, Kept
<1>7. OneTradePerOrder'
  BY <1>1, <1>2, <1>3 DEF TypeOK, OneTradePerOrder, Decided
<1>8. UnopenedIsEmpty'
  BY <1>1, <1>2, <1>3, <1>5 DEF TypeOK, UnopenedIsEmpty, Decided, t, o
<1>9. ResultUnderWayIsSound'
  <2> SUFFICES ASSUME NEW q \in Processes
               PROVE  SoundResult(q)'
    BY DEF ResultUnderWayIsSound
  <2>1. CASE q = p
    BY <2>1 DEF TypeOK, SoundResult, Idle, Session
  <2>2. CASE q # p
    BY <2>2, <1>6, StaysSound DEF TypeOK, ResultUnderWayIsSound
  <2> QED BY <2>1, <2>2
<1>10. SettledTradeIsDecided' /\ AckedIsDecided'
  <2> SUFFICES ASSUME NEW x \in Trades, rtnCode'[x] # "null" \/ acked'[x]
               PROVE  state'[tradeOrder[x]] \in Decided
    BY <1>2 DEF SettledTradeIsDecided, AckedIsDecided
  <2>1. CASE x = t
    BY <2>1, <1>3 DEF o
  <2>2. CASE x # t
    <3>1. rtnCode[x] # "null" \/ acked[x]
      BY <2>2, <1>5
    <3>2. tradeOrder[x] \in Orders
      BY <3>1 DEF TypeOK, UnopenedIsEmpty
    <3> QED
      BY <3>1, <3>2, <1>6 DEF SettledTradeIsDecided, AckedIsDecided, Kept
  <2> QED BY <2>1, <2>2
<1>11. MoneyBeforeGoods'
  <2> SUFFICES ASSUME NEW x \in Orders,
                      state'[x] = "EFFECTIVE" \/ payments'[x] > 0 \/ subscriptions'[x] > 0,
                      plan[x] \notin FreePlans
               PROVE  \E y \in Trades : tradeOrder[y] = x /\ gateway[y] = "paid"
    BY <1>2 DEF MoneyBeforeGoods, Paid
  <2>1. CASE gateway[t] = "paid" /\ x = o
    BY <2>1, <1>1 DEF o
  <2>2. CASE ~(gateway[t] = "paid" /\ x = o)
    <3>1. payments'[x] = payments[x] /\ subscriptions'[x] = subscriptions[x]
      BY <2>2, <1>4
    <3>2. state'[x] = "EFFECTIVE" => state[x] = "EFFECTIVE"
      <4>1. CASE x # o
        BY <4>1, <1>3
      <4>2. CASE x = o
        <5>1. ActionOf(p) = "charge_fail"
          BY <2>2, <4>2, <1>1 DEF ActionOf, IsSuccess
        <5>2. Accepted(p) => Bind(txn[p].seenState, ActionOf(p)) = "PAYMENT_FAILED"
          BY <5>1, CanApplyFacts, BindFacts DEF Accepted
        <5> QED
          BY <4>2, <5>2, <1>1 DEF TypeOK, ApplyResult, t, o
      <4> QED BY <4>1, <4>2
    <3> QED BY <3>1, <3>2 DEF MoneyBeforeGoods, Paid
  <2> QED BY <2>1, <2>2
<1> QED BY <1>7, <1>8, <1>9, <1>10, <1>11

LEMMA ProcessStepSafe ==
  ASSUME IInv, NEW p \in Processes, ProcessStep(p)
  PROVE  IInv'
<1> USE DEF IInv
<1>1. TypeOK'
  BY ProcessStepType
<1>2. CASE Verify(p)
  <2>1. UNCHANGED <<state, plan, payments, subscriptions, tradeOrder, rtnCode, acked,
                    gateway, jobs>>
    BY <1>2 DEF Verify, orderVars, tradeVars, externalVars, queueVars
  <2>2. /\ txn[p].trade \in Trades
        /\ tradeOrder[txn[p].trade] \in Orders
        /\ txn[p].code \in Statuses
        /\ txn[p].code \in {"paid", "declined"} => gateway[txn[p].trade] = txn[p].code
        /\ p = Web => txn[p].code # "unpaid"
    BY <1>2 DEF TypeOK, ResultUnderWayIsSound, SoundResult, Verify, Idle, Session
  <2>3. state[tradeOrder[txn[p].trade]] \in Decided \cup {"PENDING_PAYMENT"}
    BY <2>2 DEF TypeOK, OneTradePerOrder, OrderStates, Decided
  <2>4. SoundResult(p)'
    BY <1>2, <2>1, <2>2, <2>3 DEF TypeOK, Verify, SoundResult, Session
  <2>5. \A q \in Processes : txn'[q] = txn[q] \/ SoundResult(q)'
    BY <1>2, <2>4 DEF TypeOK, Verify
  <2> QED BY <1>1, <2>1, <2>5, QuietStepSafe DEF UnopenedIsEmpty
<1>3. CASE Flush(p)
  <2>1. UNCHANGED <<state, plan, payments, subscriptions, tradeOrder, rtnCode, acked,
                    gateway, jobs>>
    BY <1>3 DEF Flush, orderVars, tradeVars, externalVars, queueVars
  <2>2. SoundResult(p)'
    BY <1>3, <2>1
    DEF TypeOK, Transactions, ResultUnderWayIsSound, SoundResult, Flush, Idle, Session
  <2>3. \A q \in Processes : txn'[q] = txn[q] \/ SoundResult(q)'
    BY <1>3, <2>2 DEF TypeOK, Flush
  <2> QED BY <1>1, <2>1, <2>3, QuietStepSafe DEF UnopenedIsEmpty
<1>4. CASE Settle(p)
  BY <1>1, <1>4, ApplyResultSafe DEF Settle, UnopenedIsEmpty, queueVars
<1>5. CASE Crash(p)
  <2>1. UNCHANGED <<state, plan, payments, subscriptions, tradeOrder, rtnCode, acked, gateway>>
    BY <1>5 DEF Crash, orderVars, tradeVars, externalVars
  <2>2. \A t \in Trades : tradeOrder[t] = NoOrder => jobs'[t] = 0
    BY <1>5 DEF TypeOK, Crash, ResultUnderWayIsSound, SoundResult, UnopenedIsEmpty
  <2>3. \A q \in Processes : txn'[q] = txn[q] \/ SoundResult(q)'
    BY <1>5 DEF TypeOK, Crash, SoundResult, Idle, Session
  <2> QED BY <1>1, <2>1, <2>2, <2>3, QuietStepSafe DEF UnopenedIsEmpty
<1> QED BY <1>2, <1>3, <1>4, <1>5 DEF ProcessStep

LEMMA WorkerStepSafe ==
  ASSUME IInv, NEW w \in Workers, WorkerStep(w)
  PROVE  IInv'
<1> USE DEF IInv
<1> w \in Processes
  BY DEF Processes
<1>1. TypeOK'
  BY WorkerStepType
<1>2. CASE SyncPayment(w)
  BY <1>1, <1>2, QuietStepSafe
  DEF SyncPayment, Publish, PendingTrades, UnopenedIsEmpty, orderVars, tradeVars, externalVars
<1>3. ASSUME NEW S \in SUBSET Trades, NEW requeued \in BOOLEAN,
             SyncPaymentFails(w, S, requeued)
      PROVE  IInv'
  BY <1>1, <1>3, QuietStepSafe
  DEF SyncPaymentFails, Publish, PendingTrades, UnopenedIsEmpty, orderVars, tradeVars,
      externalVars
<1>4. ASSUME NEW t \in Trades, TakeJob(w, t)
      PROVE  IInv'
  <2>1. UNCHANGED <<state, plan, payments, subscriptions, tradeOrder, rtnCode, acked, gateway>>
    BY <1>4 DEF TakeJob, orderVars, tradeVars, externalVars
  <2>2. tradeOrder[t] # NoOrder
    BY <1>4 DEF TypeOK, TakeJob, UnopenedIsEmpty
  <2>3. \A x \in Trades : tradeOrder[x] = NoOrder => jobs'[x] = 0
    BY <1>4, <2>2 DEF TypeOK, TakeJob, UnopenedIsEmpty
  <2>4. SoundResult(w)'
    BY <1>4, <2>1, <2>2 DEF TypeOK, TakeJob, SoundResult, Session
  <2>5. \A q \in Processes : txn'[q] = txn[q] \/ SoundResult(q)'
    BY <1>4, <2>4 DEF TypeOK, TakeJob
  <2> QED BY <1>1, <2>1, <2>3, <2>5, QuietStepSafe DEF UnopenedIsEmpty
<1>5. CASE QueryGateway(w)
  <2>1. UNCHANGED <<state, plan, payments, subscriptions, tradeOrder, rtnCode, acked,
                    gateway, jobs>>
    BY <1>5 DEF QueryGateway, orderVars, tradeVars, externalVars, queueVars
  <2>2. txn[w].trade \in Trades /\ tradeOrder[txn[w].trade] # NoOrder
    BY <1>5 DEF QueryGateway, ResultUnderWayIsSound, SoundResult, Idle, Session
  <2>3. SoundResult(w)'
    BY <1>5, <2>1, <2>2 DEF TypeOK, QueryGateway, SoundResult, Session, Idle, Statuses
  <2>4. \A q \in Processes : txn'[q] = txn[q] \/ SoundResult(q)'
    BY <1>5, <2>3 DEF TypeOK, QueryGateway
  <2> QED BY <1>1, <2>1, <2>4, QuietStepSafe DEF UnopenedIsEmpty
<1>6. CASE QueryFails(w)
  <2>1. UNCHANGED <<state, plan, payments, subscriptions, tradeOrder, rtnCode, acked,
                    gateway, jobs>>
    BY <1>6 DEF QueryFails, orderVars, tradeVars, externalVars
  <2>2. \A q \in Processes : txn'[q] = txn[q] \/ SoundResult(q)'
    BY <1>6 DEF TypeOK, QueryFails, SoundResult, Idle, Session
  <2> QED BY <1>1, <2>1, <2>2, QuietStepSafe DEF UnopenedIsEmpty
<1>7. CASE SettleThenCrash(w)
  <2>1. txn[w].trade \in Trades /\ tradeOrder[txn[w].trade] # NoOrder
    BY <1>7 DEF SettleThenCrash, ResultUnderWayIsSound, SoundResult, Idle, Session
  <2>2. \A t \in Trades : tradeOrder[t] = NoOrder => jobs'[t] = 0
    BY <1>7, <2>1 DEF TypeOK, SettleThenCrash, UnopenedIsEmpty
  <2> QED BY <1>1, <1>7, <2>2, ApplyResultSafe DEF SettleThenCrash
<1> QED BY <1>2, <1>3, <1>4, <1>5, <1>6, <1>7 DEF WorkerStep

LEMMA NextSafe == IInv /\ [Next]_vars => IInv'
<1> SUFFICES ASSUME IInv, [Next]_vars
             PROVE  IInv'
  OBVIOUS
<1>1. TypeOK'
  BY NextType DEF IInv
<1>2. CASE CronSyncPayment
  BY <1>1, <1>2, QuietStepSafe
  DEF IInv, CronSyncPayment, UnopenedIsEmpty, orderVars, tradeVars, externalVars
<1>3. CASE UNCHANGED vars
  BY <1>1, <1>3, QuietStepSafe
  DEF IInv, vars, UnopenedIsEmpty, orderVars, tradeVars, externalVars, queueVars
<1> QED
  BY <1>2, <1>3, OrderStepSafe, GatewayStepSafe, ProcessStepSafe, WorkerStepSafe DEF Next

\* The inductive invariant holds throughout: the rest follows from it.
THEOREM Invariance == Spec => []IInv
BY InitSafe, NextSafe, PTL DEF Spec

\* Every column, queue and session holds values of its type.
THEOREM TypeCorrect == Spec => []TypeOK
<1>1. IInv => TypeOK
  BY DEF IInv
<1> QED BY <1>1, Invariance, PTL

\* However callbacks repeat and jobs race them, an order is effective, billed or
\* subscribed only if it is free or the gateway holds its money.
THEOREM MoneyFirst == Spec => []MoneyBeforeGoods
<1>1. IInv => MoneyBeforeGoods
  BY DEF IInv
<1> QED BY <1>1, Invariance, PTL

\* sync_payment never skips a trade whose order still waits for a decision.
THEOREM SettledDecided == Spec => []SettledTradeIsDecided
<1>1. IInv => SettledTradeIsDecided
  BY DEF IInv
<1> QED BY <1>1, Invariance, PTL

\* No order ever gets two trades, so it cannot be paid twice.
THEOREM SingleTrade == Spec => []OneTradePerOrder
<1>1. IInv => OneTradePerOrder
  BY DEF IInv
<1> QED BY <1>1, Invariance, PTL

\* The gateway is never told '1|OK' of an order that is not decided.
THEOREM AckedDecided == Spec => []AckedIsDecided
<1>1. IInv => AckedIsDecided
  BY DEF IInv
<1> QED BY <1>1, Invariance, PTL

\* Only the commit of a result takes an order out of EFFECTIVE.  It applied
\* charge_fail to an order it had seen pending; money is at the gateway, whose word
\* is final, so the code is not a refusal; and it is not the web server's.
LEMMA UndoneByResult ==
  ASSUME IInv, NEW p \in Processes, txn[p].pc = "flushed", ApplyResult(p),
         NEW o \in Orders, state[o] = "EFFECTIVE", state'[o] # "EFFECTIVE"
  PROVE  /\ p \in Workers
         /\ tradeOrder[txn[p].trade] = o
         /\ txn[p].seenState = "PENDING_PAYMENT"
         /\ txn[p].code = "unpaid"
<1> DEFINE t == txn[p].trade
<1>1. /\ t \in Trades /\ tradeOrder[t] \in Orders
      /\ txn[p].code \in Statuses
      /\ txn[p].code \in {"paid", "declined"} => gateway[t] = txn[p].code
      /\ p = Web => txn[p].code # "unpaid"
  BY DEF IInv, TypeOK, ResultUnderWayIsSound, SoundResult, Idle, Session
<1>2. /\ Accepted(p) /\ tradeOrder[t] = o
      /\ Bind(txn[p].seenState, ActionOf(p)) # "EFFECTIVE"
  BY <1>1 DEF IInv, TypeOK, ApplyResult
<1>3. txn[p].seenState = "PENDING_PAYMENT"
  BY <1>2, CanApplyFacts DEF Accepted, ActionOf
<1>4. txn[p].code # "paid"
  BY <1>2, <1>3, BindFacts DEF ActionOf, IsSuccess
<1>5. PICK x \in Trades : tradeOrder[x] = o /\ gateway[x] = "paid"
  <2>1. plan[o] \notin FreePlans
    BY <1>1, <1>2 DEF IInv, OneTradePerOrder
  <2> QED BY <2>1 DEF IInv, MoneyBeforeGoods, Paid
<1>6. gateway[t] = "paid"
  BY <1>1, <1>2, <1>5 DEF IInv, OneTradePerOrder
<1>7. txn[p].code = "unpaid"
  BY <1>1, <1>4, <1>6 DEF Statuses
<1> QED BY <1>1, <1>2, <1>3, <1>7 DEF Processes

LEMMA UndoneByNothingElse ==
  ASSUME IInv, [Next]_vars, NEW o \in Orders, state[o] = "EFFECTIVE", state'[o] # "EFFECTIVE"
  PROVE  \E p \in Processes : txn[p].pc = "flushed" /\ ApplyResult(p)
<1>1. ASSUME NEW x \in Orders, OrderStep(x)
      PROVE  FALSE
  <2>1. ASSUME NEW u \in Users, NEW r \in Plans, CreateOrder(x, u, r)
        PROVE  FALSE
    BY <2>1 DEF IInv, TypeOK, CreateOrder
  <2>2. CASE ChargeFree(x)
    BY <2>2, CanApplyFacts DEF IInv, TypeOK, ChargeFree
  <2>3. ASSUME NEW t \in Trades, ChargePriced(x, t)
        PROVE  FALSE
    BY <2>3, CanApplyFacts DEF IInv, TypeOK, ChargePriced
  <2> QED BY <1>1, <2>1, <2>2, <2>3 DEF OrderStep
<1>2. ASSUME NEW t \in Trades, GatewayStep(t)
      PROVE  FALSE
  BY <1>2 DEF GatewayStep, SubmitForm, Finish, ReceiveCallback, orderVars
<1>3. ASSUME NEW p \in Processes, ProcessStep(p)
      PROVE  txn[p].pc = "flushed" /\ ApplyResult(p)
  BY <1>3 DEF ProcessStep, Verify, Flush, Settle, Crash, orderVars
<1>4. ASSUME NEW w \in Workers, WorkerStep(w)
      PROVE  w \in Processes /\ txn[w].pc = "flushed" /\ ApplyResult(w)
  BY <1>4 DEF WorkerStep, SyncPayment, SyncPaymentFails, TakeJob, QueryGateway, QueryFails,
              SettleThenCrash, Processes, orderVars
<1>5. ~CronSyncPayment /\ ~UNCHANGED vars
  BY DEF CronSyncPayment, vars, orderVars
<1> QED BY <1>1, <1>2, <1>3, <1>4, <1>5 DEF Next

\* A paid order is undone only by a sync job with an answer older than the payment;
\* callbacks never undo one, in any order and number.
THEOREM UndoneByStaleSync == Spec => PaidIsUndoneOnlyByStaleSync
<1>1. IInv /\ [Next]_vars =>
        [\A o \in Orders :
           state[o] = "EFFECTIVE" /\ state'[o] # "EFFECTIVE" =>
             \E w \in Workers : /\ txn[w].pc = "flushed" /\ tradeOrder[txn[w].trade] = o
                                /\ txn[w].seenState = "PENDING_PAYMENT"
                                /\ txn[w].code = "unpaid"]_vars
  BY UndoneByResult, UndoneByNothingElse
<1> QED BY <1>1, Invariance, PTL DEF Spec, PaidIsUndoneOnlyByStaleSync

-----------------------------------------------------------------------------
(* The web server alone: without workers the two stories of an order agree, *)
(* and the tables implement OrderLifecycle.                                 *)

LEMMA InitWeb == Init => WebInv
BY DEF Init, WebInv, ResultMatchesOrder, Processes, Idle, Session

\* What a step must keep for WebInv when it writes no result and takes no order out of
\* PENDING_PAYMENT.
LEMMA QuietStepWeb ==
  ASSUME IInv, WebInv, UNCHANGED rtnCode,
         \A t \in Trades : tradeOrder[t] # NoOrder =>
           tradeOrder'[t] = tradeOrder[t] /\ state'[tradeOrder[t]] = state[tradeOrder[t]],
         \A t \in Trades : tradeOrder[t] = NoOrder /\ tradeOrder'[t] # NoOrder =>
           state'[tradeOrder'[t]] = "PENDING_PAYMENT",
         \A t \in Trades : gateway[t] \in {"paid", "declined"} => gateway'[t] = gateway[t],
         \/ txn'[Web] = txn[Web]
         \/ txn'[Web].pc \notin {"verified", "flushed"}
         \/ txn'[Web].seenState = state'[tradeOrder'[txn'[Web].trade]]
            /\ txn'[Web].seenCode = rtnCode[txn'[Web].trade]
  PROVE  WebInv'
<1>1. Web \in Processes
  BY DEF Processes
<1>2. txn'[Web].pc \in {"verified", "flushed"} =>
        /\ txn'[Web].seenState = state'[tradeOrder'[txn'[Web].trade]]
        /\ txn'[Web].seenCode = rtnCode[txn'[Web].trade]
  BY <1>1 DEF WebInv, IInv, ResultUnderWayIsSound, SoundResult, Idle, Session
<1>3. ASSUME NEW t \in Trades, rtnCode[t] # "null"
      PROVE  /\ rtnCode[t] = gateway'[t] /\ rtnCode[t] # "unpaid"
             /\ state'[tradeOrder'[t]] = state[tradeOrder[t]]
  BY <1>3 DEF WebInv, IInv, TypeOK, UnopenedIsEmpty, Statuses
<1>4. ASSUME NEW t \in Trades, tradeOrder'[t] # NoOrder, rtnCode[t] = "null"
      PROVE  state'[tradeOrder'[t]] = "PENDING_PAYMENT"
  BY <1>4 DEF WebInv
<1>5. ResultMatchesOrder'
  BY <1>3 DEF WebInv, ResultMatchesOrder
<1> QED BY <1>2, <1>3, <1>4, <1>5 DEF WebInv

LEMMA OrderStepWeb ==
  ASSUME IInv, WebInv, NEW o \in Orders, OrderStep(o)
  PROVE  WebInv'
<1> USE DEF IInv
<1>1. txn' = txn /\ rtnCode' = rtnCode /\ gateway' = gateway
  BY DEF OrderStep, CreateOrder, ChargeFree, ChargePriced, tradeVars, externalVars
<1>2. state[o] \in {"NONE", "DRAFT"} /\ \A x \in Orders \ {o} : state'[x] = state[x]
  BY CanApplyFacts DEF TypeOK, OrderStep, CreateOrder, ChargeFree, ChargePriced
<1>3. \A t \in Trades : tradeOrder[t] # NoOrder =>
        tradeOrder'[t] = tradeOrder[t] /\ state'[tradeOrder[t]] = state[tradeOrder[t]]
  <2>1. \A t \in Trades : tradeOrder[t] # NoOrder => tradeOrder'[t] = tradeOrder[t]
    BY DEF TypeOK, OrderStep, CreateOrder, ChargeFree, ChargePriced, tradeVars
  <2> QED BY <1>2, <2>1 DEF TypeOK, OneTradePerOrder
<1>4. \A t \in Trades : tradeOrder[t] = NoOrder /\ tradeOrder'[t] # NoOrder =>
        state'[tradeOrder'[t]] = "PENDING_PAYMENT"
  <2>1. CASE UNCHANGED tradeOrder
    BY <2>1
  <2>2. ASSUME NEW t \in Trades, ChargePriced(o, t)
        PROVE  \A y \in Trades : tradeOrder[y] = NoOrder /\ tradeOrder'[y] # NoOrder =>
                 state'[tradeOrder'[y]] = "PENDING_PAYMENT"
    BY <2>2, CanApplyFacts, BindFacts DEF TypeOK, ChargePriced
  <2> QED BY <2>1, <2>2 DEF OrderStep, CreateOrder, ChargeFree, tradeVars
<1> QED BY <1>1, <1>3, <1>4, QuietStepWeb

LEMMA GatewayStepWeb ==
  ASSUME IInv, WebInv, NEW t \in Trades, GatewayStep(t)
  PROVE  WebInv'
<1> USE DEF IInv
<1>1. UNCHANGED <<rtnCode, tradeOrder, state>>
  BY DEF GatewayStep, SubmitForm, Finish, ReceiveCallback, orderVars, tradeVars
<1>2. \A x \in Trades : gateway[x] \in {"paid", "declined"} => gateway'[x] = gateway[x]
  BY DEF TypeOK, GatewayStep, SubmitForm, Finish, ReceiveCallback
<1>3. txn'[Web] = txn[Web] \/ txn'[Web].pc \notin {"verified", "flushed"}
  BY DEF TypeOK, Processes, GatewayStep, SubmitForm, Finish, ReceiveCallback, Session
<1> QED BY <1>1, <1>2, <1>3, QuietStepWeb

\* The server's commit: an order seen pending is pending and gets the gateway's
\* word; one seen decided has a trade with that word already.
LEMMA SettleWeb ==
  ASSUME IInv, WebInv, txn[Web].pc = "flushed", ApplyResult(Web),
         txn' = [txn EXCEPT ![Web] = Idle]
  PROVE  /\ WebInv'
         /\ state' = [state EXCEPT ![tradeOrder[txn[Web].trade]] =
                        IF gateway[txn[Web].trade] = "paid"
                        THEN "EFFECTIVE" ELSE "PAYMENT_FAILED"]
         /\ gateway[txn[Web].trade] \in {"paid", "declined"}
<1> USE DEF IInv
<1> DEFINE t == txn[Web].trade
           o == tradeOrder[t]
           verdict == IF gateway[t] = "paid" THEN "EFFECTIVE" ELSE "PAYMENT_FAILED"
<1> Web \in Processes
  BY DEF Processes
<1>1. /\ t \in Trades /\ o \in Orders
      /\ gateway[t] \in {"paid", "declined"} /\ txn[Web].code = gateway[t]
      /\ txn[Web].seenState = state[o] /\ txn[Web].seenCode = rtnCode[t]
  BY DEF WebInv, TypeOK, ResultUnderWayIsSound, SoundResult, Idle, Session, Statuses
<1> HIDE DEF t, o
<1>2. rtnCode' = [rtnCode EXCEPT ![t] = gateway[t]]
  BY <1>1 DEF TypeOK, ApplyResult, Writes, t
<1>3. state' = [state EXCEPT ![o] = verdict]
  <2>1. CASE state[o] = "PENDING_PAYMENT"
    <3>1. Accepted(Web) /\ Bind(txn[Web].seenState, ActionOf(Web)) = verdict
      BY <2>1, <1>1, CanApplyFacts, BindFacts DEF Accepted, ActionOf, IsSuccess
    <3> QED BY <3>1 DEF ApplyResult, t, o
  <2>2. CASE state[o] # "PENDING_PAYMENT"
    <3>1. rtnCode[t] = gateway[t] /\ state[o] = verdict
      BY <2>2, <1>1 DEF WebInv, ResultMatchesOrder, TypeOK, o
    <3>2. ~Accepted(Web)
      BY <2>2, <1>1, CanApplyFacts DEF Accepted, ActionOf
    <3> QED BY <3>1, <3>2 DEF TypeOK, ApplyResult
  <2> QED BY <2>1, <2>2
<1>4. UNCHANGED <<tradeOrder, gateway>> /\ txn'[Web].pc = "idle"
  BY DEF TypeOK, ApplyResult, Idle, Session
<1>5. \A x \in Trades \ {t} : tradeOrder[x] # NoOrder => state'[tradeOrder[x]] = state[tradeOrder[x]]
  BY <1>1, <1>3 DEF TypeOK, OneTradePerOrder, o
<1>6. state'[o] = verdict
  BY <1>1, <1>3 DEF TypeOK
<1>7. ASSUME NEW x \in Trades
      PROVE  /\ rtnCode'[x] # "null" => rtnCode'[x] = gateway'[x] /\ rtnCode'[x] # "unpaid"
             /\ tradeOrder'[x] # NoOrder /\ rtnCode'[x] = "null" =>
                  state'[tradeOrder'[x]] = "PENDING_PAYMENT"
             /\ rtnCode'[x] # "null" =>
                  state'[tradeOrder'[x]] =
                    IF rtnCode'[x] = "paid" THEN "EFFECTIVE" ELSE "PAYMENT_FAILED"
  <2>1. CASE x = t
    BY <2>1, <1>1, <1>2, <1>4, <1>6 DEF TypeOK, o
  <2>2. CASE x # t
    <3>1. rtnCode'[x] = rtnCode[x]
      BY <2>2, <1>1, <1>2 DEF TypeOK
    <3>2. rtnCode[x] # "null" => tradeOrder[x] # NoOrder
      BY DEF UnopenedIsEmpty
    <3> QED BY <2>2, <3>1, <3>2, <1>4, <1>5 DEF WebInv, ResultMatchesOrder
  <2> QED BY <2>1, <2>2
<1>8. WebInv'
  BY <1>4, <1>7 DEF WebInv, ResultMatchesOrder
<1> QED BY <1>1, <1>3, <1>8 DEF t, o

LEMMA ProcessStepWeb ==
  ASSUME IInv, WebInv, ProcessStep(Web)
  PROVE  WebInv'
<1> USE DEF IInv
<1> Web \in Processes
  BY DEF Processes
<1>1. CASE Settle(Web)
  BY <1>1, SettleWeb DEF Settle
<1>2. CASE Verify(Web) \/ Flush(Web) \/ Crash(Web)
  <2>1. UNCHANGED <<rtnCode, tradeOrder, state, gateway>>
    BY <1>2 DEF Verify, Flush, Crash, orderVars, tradeVars, externalVars
  <2>2. \/ txn'[Web] = txn[Web]
        \/ txn'[Web].pc \notin {"verified", "flushed"}
        \/ txn'[Web].seenState = state[tradeOrder[txn'[Web].trade]]
           /\ txn'[Web].seenCode = rtnCode[txn'[Web].trade]
    <3>1. CASE Verify(Web)
      BY <3>1 DEF TypeOK, Verify, Session
    <3>2. CASE Flush(Web)
      BY <3>2 DEF TypeOK, Transactions, Flush, WebInv
    <3>3. CASE Crash(Web)
      BY <3>3 DEF TypeOK, Crash, Idle, Session
    <3> QED BY <1>2, <3>1, <3>2, <3>3
  <2> QED BY <2>1, <2>2, QuietStepWeb
<1> QED BY <1>1, <1>2 DEF ProcessStep

LEMMA NextWeb ==
  ASSUME Workers = {}, IInv, WebInv, [Next]_vars
  PROVE  WebInv'
<1>1. CASE CronSyncPayment \/ UNCHANGED vars
  BY <1>1, QuietStepWeb
  DEF CronSyncPayment, vars, orderVars, tradeVars, externalVars, queueVars
<1> QED
  BY <1>1, OrderStepWeb, GatewayStepWeb, ProcessStepWeb DEF Next, Processes

\* Without workers, what a trade records of its payment and what its order says of it
\* agree, however often callbacks repeat and wherever the server dies.
THEOREM ResultMatches == ASSUME Workers = {} PROVE Spec => []ResultMatchesOrder
<1>1. IInv /\ WebInv /\ [Next]_vars => WebInv'
  BY NextWeb
<1>2. WebInv => ResultMatchesOrder
  BY DEF WebInv
<1> QED BY <1>1, <1>2, InitWeb, Invariance, PTL DEF Spec

\* The status the refinement gives an order: its one trade's, if that is final.
LEMMA StatusFact ==
  ASSUME OneTradePerOrder, NEW t \in Trades, tradeOrder[t] # NoOrder
  PROVE  StatusOf(tradeOrder[t]) =
           IF gateway[t] \in {"paid", "declined"} THEN gateway[t] ELSE "open"
<1> DEFINE Final(x) == tradeOrder[x] = tradeOrder[t] /\ gateway[x] \in {"paid", "declined"}
<1>1. \A x \in Trades : Final(x) => x = t
  BY DEF OneTradePerOrder
<1>2. CASE gateway[t] \in {"paid", "declined"}
  <2>1. (CHOOSE x \in Trades : Final(x)) = t
    BY <1>1, <1>2
  <2> QED BY <2>1, <1>2 DEF StatusOf
<1>3. CASE gateway[t] \notin {"paid", "declined"}
  BY <1>1, <1>3 DEF StatusOf
<1> QED BY <1>2, <1>3

LEMMA StatusFactNext ==
  ASSUME OneTradePerOrder', NEW t \in Trades, tradeOrder'[t] # NoOrder
  PROVE  StatusOf(tradeOrder[t])' =
           IF gateway'[t] \in {"paid", "declined"} THEN gateway'[t] ELSE "open"
<1> DEFINE Final(x) == tradeOrder'[x] = tradeOrder'[t] /\ gateway'[x] \in {"paid", "declined"}
<1>1. \A x \in Trades : Final(x) => x = t
  BY DEF OneTradePerOrder
<1>2. CASE gateway'[t] \in {"paid", "declined"}
  <2>1. (CHOOSE x \in Trades : Final(x)) = t
    BY <1>1, <1>2
  <2> QED BY <2>1, <1>2 DEF StatusOf
<1>3. CASE gateway'[t] \notin {"paid", "declined"}
  BY <1>1, <1>3 DEF StatusOf
<1> QED BY <1>2, <1>3

\* An order keeps its status when no trade's final word changes that is, or becomes, its own.
LEMMA StatusKept ==
  ASSUME OneTradePerOrder, OneTradePerOrder', NEW o \in Orders,
         \A t \in Trades : tradeOrder[t] = o => tradeOrder'[t] = o,
         \A t \in Trades : tradeOrder'[t] = o =>
           \/ tradeOrder[t] = o /\ gateway'[t] = gateway[t]
           \/ gateway'[t] \notin {"paid", "declined"} /\ gateway[t] \notin {"paid", "declined"}
  PROVE  StatusOf(o)' = StatusOf(o)
<1>1. CASE \E t \in Trades : tradeOrder'[t] = o
  <2> PICK t \in Trades : tradeOrder'[t] = o
    BY <1>1
  <2>1. o # NoOrder
    BY ConstantsAssumption
  <2>2. StatusOf(o)' = IF gateway'[t] \in {"paid", "declined"} THEN gateway'[t] ELSE "open"
    BY <2>1, StatusFactNext
  <2>3. CASE tradeOrder[t] = o
    <3>1. StatusOf(o) = IF gateway[t] \in {"paid", "declined"} THEN gateway[t] ELSE "open"
      BY <2>1, <2>3, StatusFact
    <3> QED BY <2>2, <3>1
  <2>4. CASE tradeOrder[t] # o
    <3>1. \A x \in Trades : tradeOrder[x] # o
      BY <2>1, <2>4 DEF OneTradePerOrder
    <3> QED BY <2>2, <2>4, <3>1 DEF StatusOf
  <2> QED BY <2>3, <2>4
<1>2. CASE ~ \E t \in Trades : tradeOrder'[t] = o
  BY <1>2 DEF StatusOf
<1> QED BY <1>1, <1>2

\* What the refinement shows of a step: the status of each order, and which are free.
StatusOfAll == [o \in Orders |-> StatusOf(o)]
FreeOrders == {o \in Orders : plan[o] \in FreePlans}

\* Drafting an order, and charging it, are the lifecycle's steps.
LEMMA OrderStepImplements ==
  ASSUME IInv, IInv', NEW o \in Orders, OrderStep(o)
  PROVE  Lifecycle!Next
<1> USE DEF IInv
<1>1. StatusOfAll' = StatusOfAll
  <2> SUFFICES ASSUME NEW x \in Orders PROVE StatusOf(x)' = StatusOf(x)
    BY DEF StatusOfAll
  <2>1. gateway' = gateway
    BY DEF OrderStep, CreateOrder, ChargeFree, ChargePriced, externalVars
  <2>2. \A t \in Trades : tradeOrder'[t] # tradeOrder[t] =>
          gateway[t] = "unknown" /\ tradeOrder[t] = NoOrder
    BY DEF TypeOK, UnopenedIsEmpty, OrderStep, CreateOrder, ChargeFree, ChargePriced, tradeVars
  <2> QED BY <2>1, <2>2, StatusKept
<1>2. ASSUME NEW u \in Users, NEW r \in Plans, CreateOrder(o, u, r)
      PROVE  Lifecycle!Draft(o)
  <2>1. FreeOrders' \in {FreeOrders, FreeOrders \cup {o}}
    <3>1. plan[o] \notin FreePlans /\ plan' = [plan EXCEPT ![o] = r]
      BY <1>2 DEF CreateOrder, UnopenedIsEmpty
    <3> QED BY <3>1 DEF TypeOK, FreeOrders
  <2> QED BY <1>1, <1>2, <2>1
          DEF CreateOrder, Lifecycle!Draft, InitialState, Lifecycle!InitialState,
              StatusOfAll, FreeOrders
<1>3. CASE ChargeFree(o)
  <2>1. state[o] = "DRAFT" /\ state' = [state EXCEPT ![o] = "EFFECTIVE"]
    BY <1>3, CanApplyFacts, BindFacts DEF ChargeFree
  <2>2. o \in FreeOrders /\ FreeOrders' = FreeOrders
    BY <1>3 DEF ChargeFree, FreeOrders
  <2>3. Lifecycle!Activate(o)
    BY <1>1, <2>1, <2>2 DEF Lifecycle!Activate, StatusOfAll, FreeOrders
  <2> QED BY <2>3 DEF Lifecycle!Next
<1>4. ASSUME NEW t \in Trades, ChargePriced(o, t)
      PROVE  Lifecycle!Charge(o)
  <2>1. state[o] = "DRAFT" /\ state' = [state EXCEPT ![o] = "PENDING_PAYMENT"]
    BY <1>4, CanApplyFacts, BindFacts DEF ChargePriced
  <2>2. o \notin FreeOrders /\ FreeOrders' = FreeOrders
    BY <1>4 DEF ChargePriced, FreeOrders
  <2> QED BY <1>1, <2>1, <2>2 DEF Lifecycle!Charge, StatusOfAll, FreeOrders
<1> QED BY <1>2, <1>3, <1>4 DEF OrderStep, Lifecycle!Next

\* Of the gateway's steps only its final word shows, and it comes to a pending order.
LEMMA GatewayStepImplements ==
  ASSUME IInv, IInv', WebInv, NEW t \in Trades, GatewayStep(t)
  PROVE  Lifecycle!Next \/ UNCHANGED Lifecycle!vars
<1> USE DEF IInv
<1>1. UNCHANGED <<state, plan, tradeOrder>>
  BY DEF GatewayStep, SubmitForm, Finish, ReceiveCallback, orderVars, tradeVars
<1>2. FreeOrders' = FreeOrders
  BY <1>1 DEF FreeOrders
<1>3. ASSUME NEW s \in {"paid", "declined"}, Finish(t, s)
      PROVE  Lifecycle!Next
  <2> DEFINE o == tradeOrder[t]
  <2>1. gateway[t] = "unpaid" /\ gateway' = [gateway EXCEPT ![t] = s]
    BY <1>3 DEF Finish
  <2>2. o \in Orders /\ state[o] = "PENDING_PAYMENT"
    BY <2>1 DEF TypeOK, UnopenedIsEmpty, WebInv
  <2>3. StatusOf(o) = "open" /\ StatusOf(o)' = s
    BY <1>1, <2>1, <2>2, StatusFact, StatusFactNext DEF TypeOK
  <2>4. \A x \in Orders \ {o} : StatusOf(x)' = StatusOf(x)
    BY <1>1, <2>1, StatusKept DEF TypeOK
  <2>5. StatusOfAll' = [StatusOfAll EXCEPT ![o] = s]
    BY <1>1, <2>2, <2>3, <2>4 DEF StatusOfAll
  <2>6. Lifecycle!Finish(o)
    BY <1>1, <1>2, <2>2, <2>3, <2>5 DEF Lifecycle!Finish, StatusOfAll, FreeOrders
  <2> QED BY <2>2, <2>6 DEF Lifecycle!Next
<1>4. CASE SubmitForm(t) \/ ReceiveCallback(t)
  <2>1. \A x \in Trades : gateway'[x] # gateway[x] =>
          gateway'[x] = "unpaid" /\ gateway[x] = "unknown"
    BY <1>4 DEF TypeOK, SubmitForm, ReceiveCallback
  <2>2. ASSUME NEW x \in Orders
        PROVE  StatusOf(x)' = StatusOf(x)
    <3>1. \A y \in Trades :
            gateway'[y] = gateway[y] \/ {gateway'[y], gateway[y]} \cap {"paid", "declined"} = {}
      BY <2>1
    <3> QED BY <1>1, <3>1, StatusKept
  <2>3. StatusOfAll' = StatusOfAll
    BY <2>2, Zenon DEF StatusOfAll
  <2> QED BY <1>1, <1>2, <2>3 DEF Lifecycle!vars, StatusOfAll, FreeOrders
<1> QED BY <1>3, <1>4 DEF GatewayStep

\* Of the server's steps only the commit of a first result shows, and decides the order.
LEMMA ProcessStepImplements ==
  ASSUME IInv, IInv', WebInv, ProcessStep(Web)
  PROVE  Lifecycle!Next \/ UNCHANGED Lifecycle!vars
<1> USE DEF IInv
<1>1. UNCHANGED <<plan, tradeOrder, gateway>>
  BY DEF ProcessStep, Verify, Flush, Settle, Crash, ApplyResult, orderVars, tradeVars,
         externalVars
<1>2. StatusOfAll' = StatusOfAll /\ FreeOrders' = FreeOrders
  BY <1>1, StatusKept DEF StatusOfAll, FreeOrders
<1>3. CASE Settle(Web)
  <2> DEFINE t == txn[Web].trade
             o == tradeOrder[t]
             verdict == IF gateway[t] = "paid" THEN "EFFECTIVE" ELSE "PAYMENT_FAILED"
  <2>1. state' = [state EXCEPT ![o] = verdict] /\ gateway[t] \in {"paid", "declined"}
    BY <1>3, SettleWeb DEF Settle
  <2>2. t \in Trades /\ o \in Orders
    BY <1>3 DEF TypeOK, Processes, Settle, ResultUnderWayIsSound, SoundResult, Idle, Session
  <2>3. StatusOf(o) = gateway[t]
    BY <2>1, <2>2, StatusFact
  <2>4. CASE state[o] = "PENDING_PAYMENT"
    <3>1. StatusOfAll[o] = gateway[t]
      BY <2>2, <2>3 DEF StatusOfAll
    <3> HIDE DEF IInv, t, o
    <3>2. Lifecycle!Decide(o)
      BY <1>2, <2>1, <2>4, <3>1 DEF Lifecycle!Decide, StatusOfAll, FreeOrders
    <3> QED BY <2>2, <3>2 DEF Lifecycle!Next
  <2>5. CASE state[o] # "PENDING_PAYMENT"
    <3>1. state[o] = verdict
      <4> HIDE DEF IInv, t, o
      <4>1. tradeOrder[t] = o
        BY DEF o
      <4>2. rtnCode[t] # "null" /\ rtnCode[t] = gateway[t]
        BY <2>2, <2>5, <4>1 DEF WebInv
      <4> QED BY <2>2, <4>1, <4>2 DEF WebInv, ResultMatchesOrder
    <3>2. state' = state
      BY <2>1, <3>1 DEF TypeOK
    <3> QED BY <1>2, <3>2 DEF Lifecycle!vars, StatusOfAll, FreeOrders
  <2> QED BY <2>4, <2>5
<1>4. CASE Verify(Web) \/ Flush(Web) \/ Crash(Web)
  BY <1>2, <1>4
  DEF Verify, Flush, Crash, orderVars, Lifecycle!vars, StatusOfAll, FreeOrders
<1> QED BY <1>3, <1>4 DEF ProcessStep

LEMMA NextImplements ==
  ASSUME Workers = {}, IInv, IInv', WebInv, [Next]_vars
  PROVE  [Lifecycle!Next]_(Lifecycle!vars)
<1>1. CASE CronSyncPayment \/ UNCHANGED vars
  BY <1>1
  DEF CronSyncPayment, vars, orderVars, tradeVars, externalVars, queueVars, Lifecycle!vars,
      StatusOf
<1> QED
  BY <1>1, OrderStepImplements, GatewayStepImplements, ProcessStepImplements
  DEF Next, Processes

\* Without workers the tables implement OrderLifecycle: every order is decided once, and
\* as the gateway finally says.
THEOREM CheckoutImplements == ASSUME Workers = {} PROVE Spec => ImplementsLifecycle
<1>1. Init => Lifecycle!Init
  BY ConstantsAssumption DEF Init, Lifecycle!Init, StatusOf
<1>2. IInv /\ WebInv /\ [Next]_vars => WebInv'
  BY NextWeb
<1>3. IInv /\ IInv' /\ WebInv /\ [Next]_vars => [Lifecycle!Next]_(Lifecycle!vars)
  BY NextImplements
<1> QED
  BY <1>1, <1>2, <1>3, InitWeb, Invariance, PTL
  DEF Spec, ImplementsLifecycle, Lifecycle!Spec
=============================================================================
