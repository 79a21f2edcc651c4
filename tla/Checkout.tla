------------------------------ MODULE Checkout ------------------------------
(***************************************************************************)
(* Ordering and paying.  An end user creates an order and charges it; a    *)
(* priced order gets a trade at the payment gateway (ECPay), whose result  *)
(* comes back by two roads: the gateway's callback to the web server, and  *)
(* the background job that asks the gateway about every trade that has no  *)
(* result yet.  Both roads end in handle_payment_result.                   *)
(*                                                                         *)
(* The web server is one event loop, so its handlers exclude each other;   *)
(* job workers are other processes on the same database.  A handler is     *)
(* split where the database orders it against another process: the load of *)
(* the order, the flush that locks the trade row, and the commit.          *)
(*                                                                         *)
(* One variable per table column that some decision reads or some property *)
(* is about; counters stand for the rows of payment and subscription.      *)
(***************************************************************************)
EXTENDS Naturals, FiniteSets, OrderMachine

CONSTANTS
  Orders,         \* identities of orders
  Trades,         \* identities of gateway trades
  Users,          \* end users
  Plans,          \* plans
  FreePlans,      \* plans whose price is 0, billed in no currency
  GrantingPlans,  \* plans for which the application's hook subscribes
  Quota,          \* plan -> limits set on it and on its product
  Web,            \* the web server process
  Workers,        \* the job worker processes
  NoOrder, NoTrade, NoUser, NoPlan,
  MaxDeliveries,  \* callbacks the gateway sends per trade
  MaxJobs,        \* jobs queued per target at any one time
  MaxFailures     \* worker crashes and failed publications altogether

ASSUME ConstantsAssumption ==
  /\ FreePlans \subseteq Plans
  /\ GrantingPlans \subseteq Plans
  /\ Quota \in [Plans -> SUBSET Nat]
  /\ Web \notin Workers
  /\ NoOrder \notin Orders /\ NoTrade \notin Trades
  /\ NoUser \notin Users /\ NoPlan \notin Plans
  /\ MaxDeliveries \in Nat /\ MaxJobs \in Nat /\ MaxFailures \in Nat

Processes == {Web} \cup Workers

VARIABLES
  state,          \* order.state ("NONE": the row does not exist yet)
  buyer, plan,    \* order.end_user_id, the plan of its only order_plan
  stamps,         \* which of the order's three charge times are set
  payments,       \* payment rows made for the order
  subscriptions,  \* subscription rows made for the order by the hook
  tradeOrder,     \* payment_gateway_trade.order_id
  rtnCode, rtnMsg,\* ecpay_payment_gateway_trade result; reference is set with it
  gateway,        \* what ECPay knows of the trade (external)
  deliveries,     \* callbacks sent for the trade (external)
  acked,          \* ECPay has been answered '1|OK'
  gatewayJobs,    \* queued jobs ECPayPaymentGateway.sync_payment
  jobs,           \* queued jobs ECPayPaymentGatewayTrade.sync
  txn,            \* process -> the handle_payment_result under way
  failures        \* crashes and failed publications so far

orderVars == <<state, buyer, plan, stamps, payments, subscriptions>>
tradeVars == <<tradeOrder, rtnCode, rtnMsg>>
externalVars == <<gateway, deliveries, acked>>
queueVars == <<gatewayJobs, jobs, failures>>
vars == <<orderVars, tradeVars, externalVars, queueVars, txn>>

Statuses == {"unpaid", "paid", "declined"}
Stamps == {"initiate_charge_time", "charge_success_time", "charge_fail_time"}

\* "loaded": the job has loaded its trade; "result": the gateway's result is at
\* hand; "verified": the order has been loaded; "flushed": the trade is written.
Session(pc, t, code, seenCode, seenMsg, seenState) ==
  [pc |-> pc, trade |-> t, code |-> code,
   seenCode |-> seenCode, seenMsg |-> seenMsg, seenState |-> seenState]

Idle == Session("idle", NoTrade, "null", "null", "null", "NONE")

Init ==
  /\ state = [o \in Orders |-> "NONE"]
  /\ buyer = [o \in Orders |-> NoUser]
  /\ plan = [o \in Orders |-> NoPlan]
  /\ stamps = [o \in Orders |-> {}]
  /\ payments = [o \in Orders |-> 0]
  /\ subscriptions = [o \in Orders |-> 0]
  /\ tradeOrder = [t \in Trades |-> NoOrder]
  /\ rtnCode = [t \in Trades |-> "null"]
  /\ rtnMsg = [t \in Trades |-> "null"]
  /\ gateway = [t \in Trades |-> "unknown"]
  /\ deliveries = [t \in Trades |-> 0]
  /\ acked = [t \in Trades |-> FALSE]
  /\ gatewayJobs = 0
  /\ jobs = [t \in Trades |-> 0]
  /\ txn = [p \in Processes |-> Idle]
  /\ failures = 0

-----------------------------------------------------------------------------
(* Web handlers that run in one piece.                                     *)

WebIdle == txn[Web] = Idle

EffectiveOrders(u, p) ==
  {o \in Orders : state[o] = "EFFECTIVE" /\ buyer[o] = u /\ plan[o] = p}

WithinQuota(u, p) == \A q \in Quota[p] : Cardinality(EffectiveOrders(u, p)) < q

CreateOrder(o, u, p) ==
  /\ WebIdle
  /\ state[o] = "NONE"
  /\ WithinQuota(u, p)
  /\ state' = [state EXCEPT ![o] = InitialState]
  /\ buyer' = [buyer EXCEPT ![o] = u]
  /\ plan' = [plan EXCEPT ![o] = p]
  /\ UNCHANGED <<stamps, payments, subscriptions, tradeVars, externalVars,
                 queueVars, txn>>

\* The rows charge_success adds, whatever bind_action says afterwards.
Bill(o) ==
  /\ payments' = [payments EXCEPT ![o] = @ + 1]
  /\ subscriptions' =
       [subscriptions EXCEPT ![o] = IF plan[o] \in GrantingPlans THEN @ + 1 ELSE @]

\* Mutant: the price is not looked at.
ChargeFreeWhateverPrice(o) ==
  /\ WebIdle
  /\ CanApply(state[o], "initiate_charge")
  /\ state' = [state EXCEPT ![o] = "EFFECTIVE"]
  /\ stamps' = [stamps EXCEPT ![o] = @ \cup {"initiate_charge_time", "charge_success_time"}]
  /\ Bill(o)
  /\ UNCHANGED <<buyer, plan, tradeVars, externalVars, queueVars, txn>>

\* charge_order on a plan without a price; an order that is not a draft raises
\* in initiate_charge and the request is rolled back.
ChargeFree(o) ==
  /\ WebIdle
  /\ CanApply(state[o], "initiate_charge")
  /\ plan[o] \in FreePlans
  /\ state' = [state EXCEPT ![o] = Bind(Bind(@, "initiate_charge"), "charge_success")]
  /\ stamps' = [stamps EXCEPT ![o] = @ \cup {"initiate_charge_time", "charge_success_time"}]
  /\ Bill(o)
  /\ UNCHANGED <<buyer, plan, tradeVars, externalVars, queueVars, txn>>

\* charge_order on a priced plan: the page to pay on is returned.
ChargePriced(o, t) ==
  /\ WebIdle
  /\ CanApply(state[o], "initiate_charge")
  /\ plan[o] \notin FreePlans
  /\ tradeOrder[t] = NoOrder
  /\ state' = [state EXCEPT ![o] = Bind(@, "initiate_charge")]
  /\ stamps' = [stamps EXCEPT ![o] = @ \cup {"initiate_charge_time"}]
  /\ tradeOrder' = [tradeOrder EXCEPT ![t] = o]
  /\ UNCHANGED <<buyer, plan, payments, subscriptions, rtnCode, rtnMsg,
                 externalVars, queueVars, txn>>

-----------------------------------------------------------------------------
(* The gateway.                                                            *)

\* The user's browser posts the form: from now on ECPay knows the trade.
SubmitForm(t) ==
  /\ tradeOrder[t] # NoOrder
  /\ gateway[t] = "unknown"
  /\ gateway' = [gateway EXCEPT ![t] = "unpaid"]
  /\ UNCHANGED <<orderVars, tradeVars, deliveries, acked, queueVars, txn>>

\* The card is charged, or refused for good.
Finish(t, status) ==
  /\ gateway[t] = "unpaid"
  /\ gateway' = [gateway EXCEPT ![t] = status]
  /\ UNCHANGED <<orderVars, tradeVars, deliveries, acked, queueVars, txn>>

-----------------------------------------------------------------------------
(* The queue of background jobs.                                           *)

\* The cron job sync_payment enqueues one job for the gateway.
CronSyncPayment ==
  /\ gatewayJobs < MaxJobs
  /\ gatewayJobs' = gatewayJobs + 1
  /\ UNCHANGED <<orderVars, tradeVars, externalVars, jobs, failures, txn>>

\* Mutant: the test on reference is inverted.
TradesWithReference == {t \in Trades : tradeOrder[t] # NoOrder /\ rtnCode[t] # "null"}

\* reference == None
PendingTrades == {t \in Trades : tradeOrder[t] # NoOrder /\ rtnCode[t] = "null"}

Publish(S) ==
  /\ \A t \in S : jobs[t] < MaxJobs
  /\ jobs' = [t \in Trades |-> IF t \in S THEN jobs[t] + 1 ELSE jobs[t]]

\* ECPayPaymentGateway.sync_payment: one job per pending trade.
SyncPayment(w) ==
  /\ txn[w] = Idle
  /\ gatewayJobs > 0
  /\ Publish(PendingTrades)
  /\ gatewayJobs' = gatewayJobs - 1
  /\ UNCHANGED <<orderVars, tradeVars, externalVars, failures, txn>>

\* sync_payment stops half way: the broker refuses a publication and the
\* worker acknowledges the failed job, or the worker dies and the broker
\* hands the job out again.
SyncPaymentFails(w, S, requeued) ==
  /\ txn[w] = Idle
  /\ gatewayJobs > 0
  /\ S \subseteq PendingTrades
  /\ failures < MaxFailures
  /\ failures' = failures + 1
  /\ Publish(S)
  /\ gatewayJobs' = IF requeued THEN gatewayJobs ELSE gatewayJobs - 1
  /\ UNCHANGED <<orderVars, tradeVars, externalVars, txn>>

-----------------------------------------------------------------------------
(* handle_payment_result, reached by callback and by job.                  *)

\* The gateway posts the result; it repeats a post it has no answer to, and
\* an answer can be lost, so a post may follow a '1|OK'.
ReceiveCallback(t) ==
  /\ WebIdle
  /\ gateway[t] \in {"paid", "declined"}
  /\ deliveries[t] < MaxDeliveries
  /\ deliveries' = [deliveries EXCEPT ![t] = @ + 1]
  /\ txn' = [txn EXCEPT ![Web] =
               Session("result", t, gateway[t], "null", "null", "NONE")]
  /\ UNCHANGED <<orderVars, tradeVars, gateway, acked, queueVars>>

\* on_receive_job: the worker takes a job and loads the trade.
TakeJob(w, t) ==
  /\ txn[w] = Idle
  /\ jobs[t] > 0
  /\ jobs' = [jobs EXCEPT ![t] = @ - 1]
  /\ txn' = [txn EXCEPT ![w] =
               Session("loaded", t, "null", rtnCode[t], rtnMsg[t], "NONE")]
  /\ UNCHANGED <<orderVars, tradeVars, externalVars, gatewayJobs, failures>>

\* Mutant: a trade the gateway does not know is taken for an open one.
QueryGatewayUnknownIsUnpaid(w) ==
  /\ txn[w].pc = "loaded"
  /\ LET status == gateway[txn[w].trade]
     IN  txn' = [txn EXCEPT ![w] =
                  Session("result", txn[w].trade, status,
                          txn[w].seenCode, txn[w].seenMsg, "NONE")]
  /\ UNCHANGED <<orderVars, tradeVars, externalVars, queueVars>>

\* sync asks the gateway.  Of a trade the gateway does not know it gets no
\* custom fields: the result does not verify and the job ends with no effect.
QueryGateway(w) ==
  /\ txn[w].pc = "loaded"
  /\ LET status == gateway[txn[w].trade]
     IN  txn' = IF status = "unknown"
                THEN [txn EXCEPT ![w] = Idle]
                ELSE [txn EXCEPT ![w] =
                       Session("result", txn[w].trade, status,
                               txn[w].seenCode, txn[w].seenMsg, "NONE")]
  /\ UNCHANGED <<orderVars, tradeVars, externalVars, queueVars>>

\* The request to the gateway fails: the exception leaves sync, and the worker
\* rolls back and acknowledges the job.
QueryFails(w) ==
  /\ txn[w].pc = "loaded"
  /\ failures < MaxFailures
  /\ failures' = failures + 1
  /\ txn' = [txn EXCEPT ![w] = Idle]
  /\ UNCHANGED <<orderVars, tradeVars, externalVars, gatewayJobs, jobs>>

\* verify_payment_result loads the trade, unless the session has it already (a
\* job's has, from before the gateway was asked), and the order of the trade.
Verify(p) ==
  LET t == txn[p].trade
  IN  /\ txn[p].pc = "result"
      /\ txn' = [txn EXCEPT ![p] =
                   Session("verified", t, txn[p].code,
                           IF p = Web THEN rtnCode[t] ELSE txn[p].seenCode,
                           IF p = Web THEN rtnMsg[t] ELSE txn[p].seenMsg,
                           state[tradeOrder[t]])]
      /\ UNCHANGED <<orderVars, tradeVars, externalVars, queueVars>>

MessageOf(p) == IF p = Web THEN "callback" ELSE "sync"

\* The flush writes the trade only if some column differs from what was loaded.
\* The gateway's answer to a job is text, which differs from every number; a
\* callback's fields are numbers, and a repeated one finds nothing to write.
Writes(p) ==
  \/ p \in Workers
  \/ txn[p].code # txn[p].seenCode
  \/ MessageOf(p) # txn[p].seenMsg

Locked(t) == \E p \in Processes : txn[p].pc = "flushed" /\ txn[p].trade = t /\ Writes(p)

\* The session is flushed: a changed trade row is locked until the commit.
Flush(p) ==
  /\ txn[p].pc = "verified"
  /\ Writes(p) => ~Locked(txn[p].trade)
  /\ txn' = [txn EXCEPT ![p].pc = "flushed"]
  /\ UNCHANGED <<orderVars, tradeVars, externalVars, queueVars>>

\* Mutant: every code that is not a refusal is a success.
IsNotRefused(code) == code # "declined"

IsSuccess(code) == code = "paid"

\* Mutant: the result code is not looked at.
AlwaysSuccess(p) == "charge_success"

\* The action bind_action is asked to apply, to the state it has loaded.
ActionOf(p) == IF IsSuccess(txn[p].code) THEN "charge_success" ELSE "charge_fail"

Accepted(p) == CanApply(txn[p].seenState, ActionOf(p))

Reply(p) ==
  acked' = IF p = Web THEN [acked EXCEPT ![txn[p].trade] = @ \/ Accepted(p)] ELSE acked

\* charge_success or charge_fail, then the commit.  An invalid transition
\* raises after the body has run; callback and job both catch the exception
\* and the session is committed all the same.  The state is written only when
\* bind_action assigns it, over whatever the row holds by then.
ApplyResult(p) ==
  LET t == txn[p].trade
      o == tradeOrder[t]
  IN  /\ rtnCode' = IF Writes(p) THEN [rtnCode EXCEPT ![t] = txn[p].code] ELSE rtnCode
      /\ rtnMsg' = IF Writes(p) THEN [rtnMsg EXCEPT ![t] = MessageOf(p)] ELSE rtnMsg
      /\ state' = IF Accepted(p)
                  THEN [state EXCEPT ![o] = Bind(txn[p].seenState, ActionOf(p))]
                  ELSE state
      /\ IF IsSuccess(txn[p].code)
         THEN /\ stamps' = [stamps EXCEPT ![o] = @ \cup {"charge_success_time"}]
              /\ Bill(o)
         ELSE /\ stamps' = [stamps EXCEPT ![o] = @ \cup {"charge_fail_time"}]
              /\ UNCHANGED <<payments, subscriptions>>
      /\ Reply(p)
      /\ UNCHANGED <<buyer, plan, tradeOrder, gateway, deliveries>>

\* The request is answered, or the job acknowledged.
Settle(p) ==
  /\ txn[p].pc = "flushed"
  /\ ApplyResult(p)
  /\ txn' = [txn EXCEPT ![p] = Idle]
  /\ UNCHANGED queueVars

\* The worker commits and dies before it acknowledges: the job comes back.
SettleThenCrash(w) ==
  /\ txn[w].pc = "flushed"
  /\ failures < MaxFailures
  /\ failures' = failures + 1
  /\ ApplyResult(w)
  /\ txn' = [txn EXCEPT ![w] = Idle]
  /\ jobs' = [jobs EXCEPT ![txn[w].trade] = @ + 1]
  /\ UNCHANGED gatewayJobs

\* A process dies with its transaction open: nothing of it is kept, and the
\* broker hands a worker's job out again.
Crash(p) ==
  /\ txn[p] # Idle
  /\ failures < MaxFailures
  /\ failures' = failures + 1
  /\ txn' = [txn EXCEPT ![p] = Idle]
  /\ jobs' = IF p = Web THEN jobs ELSE [jobs EXCEPT ![txn[p].trade] = @ + 1]
  /\ UNCHANGED <<orderVars, tradeVars, externalVars, gatewayJobs>>

-----------------------------------------------------------------------------
OrderStep(o) ==
  \/ \E u \in Users, p \in Plans : CreateOrder(o, u, p)
  \/ ChargeFree(o)
  \/ \E t \in Trades : ChargePriced(o, t)

GatewayStep(t) ==
  \/ SubmitForm(t)
  \/ \E status \in {"paid", "declined"} : Finish(t, status)
  \/ ReceiveCallback(t)

ProcessStep(p) == Verify(p) \/ Flush(p) \/ Settle(p) \/ Crash(p)

WorkerStep(w) ==
  \/ SyncPayment(w)
  \/ \E S \in SUBSET Trades, requeued \in BOOLEAN : SyncPaymentFails(w, S, requeued)
  \/ \E t \in Trades : TakeJob(w, t)
  \/ QueryGateway(w)
  \/ QueryFails(w)
  \/ SettleThenCrash(w)

Next ==
  \/ \E o \in Orders : OrderStep(o)
  \/ \E t \in Trades : GatewayStep(t)
  \/ \E p \in Processes : ProcessStep(p)
  \/ \E w \in Workers : WorkerStep(w)
  \/ CronSyncPayment

Spec == Init /\ [][Next]_vars

\* Processes go on, and one that has died is started again, as a deployment does;
\* the broker's queue is first in first out, so no
\* queued job is overtaken for ever, and PostgreSQL grants row locks in order.
\* Nothing is assumed of the user, of the gateway's callbacks or of the cron job,
\* which is installed switched off.
Fairness ==
  /\ \A p \in Processes :
       WF_vars(Verify(p)) /\ SF_vars(Flush(p)) /\ WF_vars(Settle(p))
  /\ \A w \in Workers :
       /\ SF_vars(SyncPayment(w))
       /\ WF_vars(QueryGateway(w))
       /\ \A t \in Trades : SF_vars(TakeJob(w, t))

FairSpec == Spec /\ Fairness

-----------------------------------------------------------------------------
(* Properties.                                                             *)

Transactions ==
  [pc : {"idle", "loaded", "result", "verified", "flushed"},
   trade : Trades \cup {NoTrade},
   code : Statuses \cup {"null"},
   seenCode : Statuses \cup {"null"},
   seenMsg : {"null", "callback", "sync"},
   seenState : OrderStates \cup {"NONE"}]

\* The type invariant: what every column, queue and session may hold.
TypeOK ==
  /\ state \in [Orders -> OrderStates \cup {"NONE"}]
  /\ buyer \in [Orders -> Users \cup {NoUser}]
  /\ plan \in [Orders -> Plans \cup {NoPlan}]
  /\ stamps \in [Orders -> SUBSET Stamps]
  /\ payments \in [Orders -> Nat]
  /\ subscriptions \in [Orders -> Nat]
  /\ tradeOrder \in [Trades -> Orders \cup {NoOrder}]
  /\ rtnCode \in [Trades -> Statuses \cup {"null"}]
  /\ rtnMsg \in [Trades -> {"null", "callback", "sync"}]
  /\ gateway \in [Trades -> Statuses \cup {"unknown"}]
  /\ deliveries \in [Trades -> Nat]
  /\ acked \in [Trades -> BOOLEAN]
  /\ gatewayJobs \in Nat
  /\ jobs \in [Trades -> Nat]
  /\ txn \in [Processes -> Transactions]
  /\ failures \in Nat

\* The gateway holds money for the order.
Paid(o) == \E t \in Trades : tradeOrder[t] = o /\ gateway[t] = "paid"

\* Nothing is handed out without money: an order that became effective, or that
\* has a payment or a subscription, is free or has been paid at the gateway,
\* whichever of callback and job brought the news, however often.
MoneyBeforeGoods ==
  \A o \in Orders :
    state[o] = "EFFECTIVE" \/ payments[o] > 0 \/ subscriptions[o] > 0
      => plan[o] \in FreePlans \/ Paid(o)

\* A trade with a reference is never looked at again by sync_payment, so its
\* order must have left PENDING_PAYMENT by then.
SettledTradeIsDecided ==
  \A t \in Trades : rtnCode[t] # "null" => state[tradeOrder[t]] \in Decided

\* charge opens one trade for an order, and none for one that is not priced
\* or not yet charged; an order waiting for payment can be paid.
OneTradePerOrder ==
  /\ \A t1, t2 \in Trades :
       tradeOrder[t1] = tradeOrder[t2] /\ tradeOrder[t1] # NoOrder => t1 = t2
  /\ \A t \in Trades :
       tradeOrder[t] # NoOrder =>
         /\ state[tradeOrder[t]] \notin {"NONE", "DRAFT"}
         /\ plan[tradeOrder[t]] \notin FreePlans
  /\ \A o \in Orders :
       state[o] = "PENDING_PAYMENT" => \E t \in Trades : tradeOrder[t] = o

\* The gateway stops posting after '1|OK': it must not be told so before the
\* order is decided, or an undecided order would only have the job left.
AckedIsDecided ==
  \A t \in Trades : acked[t] => state[tradeOrder[t]] \in Decided

\* An order that is not created has no plan, and a trade that no order has opened
\* is unknown everywhere.
UnopenedIsEmpty ==
  /\ \A o \in Orders : state[o] = "NONE" => plan[o] = NoPlan
  /\ \A t \in Trades :
       tradeOrder[t] = NoOrder =>
         gateway[t] = "unknown" /\ rtnCode[t] = "null" /\ ~acked[t] /\ jobs[t] = 0

\* What a process that is handling a result knows stays true while it does:
\* its trade belongs to an order, a result that is final is the gateway's, as every
\* callback's is, and an order seen as decided is decided still.
SoundResult(p) ==
  \/ txn[p] = Idle
  \/ /\ txn[p].pc # "idle"
     /\ txn[p].trade \in Trades
     /\ tradeOrder[txn[p].trade] # NoOrder
     /\ txn[p].pc # "loaded" => txn[p].code \in Statuses
     /\ txn[p].code \in {"paid", "declined"} => gateway[txn[p].trade] = txn[p].code
     /\ p = Web => txn[p].code # "unpaid"
     /\ txn[p].pc \in {"verified", "flushed"} =>
          /\ txn[p].seenState \in Decided \cup {"PENDING_PAYMENT"}
          /\ txn[p].seenState \in Decided => state[tradeOrder[txn[p].trade]] \in Decided

ResultUnderWayIsSound == \A p \in Processes : SoundResult(p)

\* The inductive invariant: the safety properties of Checkout and the two facts
\* that carry them from one step to the next.
IInv ==
  /\ TypeOK
  /\ OneTradePerOrder
  /\ UnopenedIsEmpty
  /\ ResultUnderWayIsSound
  /\ SettledTradeIsDecided
  /\ AckedIsDecided
  /\ MoneyBeforeGoods

\* With the web server alone, however often a callback is repeated, the result
\* kept with the trade and the state of its order tell the same story.
ResultMatchesOrder ==
  \A t \in Trades :
    rtnCode[t] # "null" =>
      state[tradeOrder[t]] = IF rtnCode[t] = "paid" THEN "EFFECTIVE" ELSE "PAYMENT_FAILED"

\* What carries it from step to step: the server's session knows the order as it
\* is and the trade's result as it is stored, a stored result is the gateway's, and
\* a trade without one has an order that still waits.
WebInv ==
  /\ txn[Web].pc \in {"verified", "flushed"} =>
       /\ txn[Web].seenState = state[tradeOrder[txn[Web].trade]]
       /\ txn[Web].seenCode = rtnCode[txn[Web].trade]
  /\ \A t \in Trades :
       /\ rtnCode[t] # "null" => rtnCode[t] = gateway[t] /\ rtnCode[t] # "unpaid"
       /\ tradeOrder[t] # NoOrder /\ rtnCode[t] = "null" =>
            state[tradeOrder[t]] = "PENDING_PAYMENT"
  /\ ResultMatchesOrder

\* What the gateway has decided has reached its order.  The exception is a payment
\* that an answer of "unpaid" has overtaken: a job that had asked before the money
\* came has failed the order and given the trade a reference, after which
\* sync_payment never looks at it again.
HasReached(t, status) ==
  /\ rtnCode[t] # "null"
  /\ IF status = "declined"
     THEN state[tradeOrder[t]] = "PAYMENT_FAILED"
     ELSE \/ rtnCode[t] = "paid" /\ state[tradeOrder[t]] = "EFFECTIVE"
          \/ "charge_fail_time" \in stamps[tradeOrder[t]]

\* With the cron job switched on, what the gateway decided reaches the order in the
\* end, even if every callback is lost and a worker fails: the job finds the trade
\* and settles both its result and the order's state.
FinishedTradeIsSettled ==
  WF_vars(CronSyncPayment) =>
    \A t \in Trades, status \in {"paid", "declined"} :
      gateway[t] = status ~> HasReached(t, status)

\* With the web server alone, the tables implement the order's lifecycle: the
\* abstract status of an order is what the gateway says of its trade.
StatusOf(o) ==
  IF \E t \in Trades : tradeOrder[t] = o /\ gateway[t] \in {"paid", "declined"}
  THEN gateway[CHOOSE t \in Trades :
                 tradeOrder[t] = o /\ gateway[t] \in {"paid", "declined"}]
  ELSE "open"

Lifecycle == INSTANCE OrderLifecycle WITH
  status <- [o \in Orders |-> StatusOf(o)],
  free <- {o \in Orders : plan[o] \in FreePlans}

\* Every step of web server and gateway is a step of the lifecycle or none: an
\* order is decided once, and only by the gateway's final word.
ImplementsLifecycle == Lifecycle!Spec

\* The state table (product.py:57-79) gives a paid order no arrow to a failed one.
\* It is turned back all the same, but only by a sync job that loaded the order
\* while it waited for payment, with an answer older than the money's: the gateway's
\* own word, whenever and however often it comes, never undoes an order.
PaidIsUndoneOnlyByStaleSync ==
  [][\A o \in Orders :
       state[o] = "EFFECTIVE" /\ state'[o] # "EFFECTIVE" =>
         \E w \in Workers : /\ txn[w].pc = "flushed" /\ tradeOrder[txn[w].trade] = o
                            /\ txn[w].seenState = "PENDING_PAYMENT"
                            /\ txn[w].code = "unpaid"]_vars
=============================================================================
