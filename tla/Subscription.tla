---------------------------- MODULE Subscription ----------------------------
(***************************************************************************)
(* Subscriptions and the time they give.  In coin, charge_success appends  *)
(* a subscription after the end user's latest one.  The query for that one *)
(* is a SELECT ... FOR UPDATE (READ COMMITTED): it takes what it found by  *)
(* descending due time, locks each row with what it joins (order, plan,    *)
(* product), checks it again if it has changed, and stops at the first     *)
(* that still fits.  coin sells one product, so a query that finds a row   *)
(* waits for every transaction whose query found one.  A query that finds  *)
(* nothing locks nothing, and rows committed after it are not looked for.  *)
(*                                                                         *)
(* charge_fail leaves an order's subscriptions without effect.  It comes   *)
(* over a paid order by a sync job that was told "unpaid" before the       *)
(* payment and has read the order before its success (see Checkout).       *)
(*                                                                         *)
(* End users also subscribe and unsubscribe order plans themselves; such   *)
(* rows, and those of stock, have no due time and give no access.          *)
(*                                                                         *)
(* Time is counted in units of a plan's length.                            *)
(***************************************************************************)
EXTENDS Naturals, FiniteSets, Sequences, OrderMachine

CONSTANTS
  Orders, Users,
  Owner,      \* order -> end user
  Duration,   \* order -> length of its plan, 0 when the hook sets no due time
  Web, Workers,
  NoOrder,
  MaxRows,    \* subscription rows altogether
  MaxByHand,  \* rows that end users make or end themselves
  MaxTime     \* the clock stops here

ASSUME SubscriptionAssumption ==
  /\ Owner \in [Orders -> Users]
  /\ Duration \in [Orders -> Nat]
  /\ Web \notin Workers /\ NoOrder \notin Orders
  /\ MaxRows \in Nat /\ MaxByHand \in Nat /\ MaxTime \in Nat \ {0}

Processes == {Web} \cup Workers

VARIABLES
  now,    \* datetime.utcnow()
  state,  \* order.state
  rows,   \* the subscription table
  txn     \* process -> the payment result under way
          \* found: rows of the hook's query, later those it has locked
          \* since: how many rows there were at the query (history)

vars == <<now, state, rows, txn>>

NoDue == 0

Idle == [pc |-> "idle", order |-> NoOrder, found |-> {}, start |-> 0, since |-> 0, seen |-> "NONE"]

Init ==
  /\ now = 1
  /\ state = [o \in Orders |-> "PENDING_PAYMENT"]
  /\ rows = <<>>
  /\ txn = [p \in Processes |-> Idle]

\* Mutant: the filter on the order's end user is left out.
AnyInforceAndFuture(u) ==
  {i \in DOMAIN rows : now < rows[i].due /\ state[rows[i].order] = "EFFECTIVE"}

\* Rows that the hook's query returns without ORDER BY and LIMIT.
InforceAndFuture(u) ==
  {i \in DOMAIN rows : /\ now < rows[i].due
                       /\ Owner[rows[i].order] = u
                       /\ state[rows[i].order] = "EFFECTIVE"}

\* Mutant: the order is ascending.
Earliest(S) == {i \in S : \A j \in S : rows[j].due >= rows[i].due}

\* ORDER BY due_time DESC LIMIT 1
Latest(S) == {i \in S : \A j \in S : rows[j].due <= rows[i].due}

\* The order is read with its trade, before the trade's row is locked.
Load(p, o) ==
  /\ txn[p] = Idle
  /\ txn' = [txn EXCEPT ![p] = [Idle EXCEPT !.pc = "loaded", !.order = o, !.seen = state[o]]]
  /\ UNCHANGED <<now, state, rows>>

\* The trade's row lock keeps two processes off the same order.
HasTrade(p) == \A q \in Processes \ {p} :
                 txn[q].order = txn[p].order => txn[q].pc \notin {"locking", "ready"}

\* The hook runs inside charge_success.
BeginCharge(p) ==
  LET o == txn[p].order
      found == IF Duration[o] = 0 THEN {} ELSE InforceAndFuture(Owner[o])
  IN  /\ txn[p].pc = "loaded" /\ HasTrade(p)
      /\ Len(rows) < MaxRows
      /\ txn' = [txn EXCEPT ![p] = [@ EXCEPT !.pc = IF found = {} THEN "ready" ELSE "locking",
                                             !.found = found, !.start = now,
                                             !.since = Len(rows)]]
      /\ UNCHANGED <<now, state, rows>>

ProductLocked == \E p \in Processes : txn[p].pc = "ready" /\ txn[p].found # {}

LockRow(p) ==
  LET still == {i \in txn[p].found : state[rows[i].order] = "EFFECTIVE"}
  IN  /\ txn[p].pc = "locking"
      /\ ~ProductLocked
      /\ \/ /\ still = {}
            /\ txn' = [txn EXCEPT ![p] = [@ EXCEPT !.pc = "ready", !.start = now]]
         \/ \E i \in Latest(still) :
              txn' = [txn EXCEPT ![p] =
                        [@ EXCEPT !.pc = "ready", !.start = rows[i].due,
                                  !.found = {j \in txn[p].found : rows[i].due <= rows[j].due}]]
      /\ UNCHANGED <<now, state, rows>>

\* Some query has locked the order of one of its rows.
OrderLocked(o, p) == \E q \in Processes \ {p} :
                       txn[q].pc = "ready" /\ \E i \in txn[q].found : rows[i].order = o

NewRow(o, start) ==
  [order |-> o, start |-> start,
   due |-> IF Duration[o] = 0 THEN NoDue ELSE start + Duration[o],
   unsubscribed |-> FALSE]

\* The row and the order's state are committed; a refused transition leaves the
\* row all the same (see Checkout).
CommitCharge(p) ==
  LET o == txn[p].order
  IN  /\ txn[p].pc = "ready"
      /\ ~OrderLocked(o, p)
      /\ Len(rows) < MaxRows
      /\ rows' = Append(rows, NewRow(o, txn[p].start))
      /\ state' = IF CanApply(txn[p].seen, "charge_success")
                  THEN [state EXCEPT ![o] = Bind(txn[p].seen, "charge_success")]
                  ELSE state
      /\ txn' = [txn EXCEPT ![p] = Idle]
      /\ UNCHANGED now

\* A sync job's "unpaid", older than the payment.  Orders whose payment was declined
\* have no subscription of the hook, and are left out.
FailCharge(w) ==
  LET o == txn[w].order
  IN  /\ txn[w].pc = "loaded" /\ HasTrade(w)
      /\ ~OrderLocked(o, w)
      /\ CanApply(txn[w].seen, "charge_fail")
      /\ state' = [state EXCEPT ![o] = Bind(txn[w].seen, "charge_fail")]
      /\ txn' = [txn EXCEPT ![w] = Idle]
      /\ UNCHANGED <<now, rows>>

\* The process dies, the commit fails, or the result changes nothing: the locks are
\* released.
Rollback(p) ==
  /\ txn[p] # Idle
  /\ txn' = [txn EXCEPT ![p] = Idle]
  /\ UNCHANGED <<now, state, rows>>

-----------------------------------------------------------------------------
(* Endpoints of the end user; the web server runs each in one piece.       *)

ActiveRows(o) == {i \in DOMAIN rows : rows[i].order = o /\ ~rows[i].unsubscribed}

BoundByHand ==
  Cardinality({i \in DOMAIN rows : rows[i].due = NoDue \/ rows[i].unsubscribed}) <= MaxByHand

\* create_subscription looks at the order plan's owner and at its active
\* subscription, not at the order's state.
CreateSubscription(o) ==
  /\ txn[Web] = Idle
  /\ Len(rows) < MaxRows
  /\ ActiveRows(o) = {}
  /\ rows' = Append(rows, [order |-> o, start |-> now, due |-> NoDue, unsubscribed |-> FALSE])
  /\ BoundByHand'
  /\ UNCHANGED <<now, state, txn>>

Unsubscribe(i) ==
  /\ txn[Web] = Idle
  /\ i \in DOMAIN rows
  /\ ~rows[i].unsubscribed
  /\ rows' = [rows EXCEPT ![i].unsubscribed = TRUE]
  /\ BoundByHand'
  /\ UNCHANGED <<now, state, txn>>

Tick ==
  /\ now < MaxTime
  /\ now' = now + 1
  /\ UNCHANGED <<state, rows, txn>>

Next ==
  \/ \E p \in Processes, o \in Orders : Load(p, o)
  \/ \E p \in Processes : BeginCharge(p) \/ LockRow(p) \/ CommitCharge(p) \/ Rollback(p)
  \/ \E w \in Workers : FailCharge(w)
  \/ \E o \in Orders : CreateSubscription(o)
  \/ \E i \in 1..MaxRows : Unsubscribe(i)
  \/ Tick

Spec == Init /\ [][Next]_vars

-----------------------------------------------------------------------------
(* Properties.                                                             *)

TypeOK ==
  /\ now \in 1..MaxTime
  /\ state \in [Orders -> OrderStates]
  /\ rows \in Seq([order : Orders, start : Nat, due : Nat, unsubscribed : BOOLEAN])
  /\ txn \in [Processes ->
               [pc : {"idle", "loaded", "locking", "ready"}, order : Orders \cup {NoOrder},
                found : SUBSET (1..MaxRows), start : Nat, since : 0..MaxRows,
                seen : OrderStates \cup {"NONE"}]]

\* is_subscribed_to_any_products at time t.
IsSubscribed(u, t) ==
  \E i \in DOMAIN rows :
    /\ rows[i].start <= t /\ t < rows[i].due
    /\ Owner[rows[i].order] = u
    /\ state[rows[i].order] = "EFFECTIVE"

\* The time at t was bought by u with an order that an old "unpaid" has failed since.
IsFailedTime(u, t) ==
  \E i \in DOMAIN rows :
    /\ rows[i].start <= t /\ t < rows[i].due
    /\ Owner[rows[i].order] = u
    /\ state[rows[i].order] = "PAYMENT_FAILED"

\* From now to the last due time of an end user's rows there is no day without access,
\* even if orders are charged at the same time, but for the days of an order that was
\* failed although it had been paid.
NoInterruption ==
  \A u \in Users : \A i \in DOMAIN rows : Owner[rows[i].order] = u =>
    \A t \in now..(rows[i].due - 1) : IsSubscribed(u, t) \/ IsFailedTime(u, t)

\* A row with a due time gives access or has lost it by charge_fail; no order expires.
RowsGiveAccess ==
  /\ \A o \in Orders : state[o] \in {"PENDING_PAYMENT", "EFFECTIVE", "PAYMENT_FAILED"}
  /\ \A i \in DOMAIN rows : rows[i].due # NoDue =>
       state[rows[i].order] # "PENDING_PAYMENT" /\ Duration[rows[i].order] > 0

\* A row of the charge's owner was committed after the charge's query.
Overtaken(p) ==
  \E i \in DOMAIN rows : /\ i > txn[p].since
                         /\ Owner[rows[i].order] = Owner[txn[p].order]
                         /\ rows[i].due # NoDue

\* A charge past its query has its order for itself.  Up to the start it has chosen its
\* owner has rows without a gap, and none of those there were at its query, and still
\* give access, goes beyond: else it waits for it, or was overtaken.
SoundQuery(p) ==
  LET u == Owner[txn[p].order]
      start == txn[p].start
  IN  /\ \A q \in Processes \ {p} :
           txn[q].order = txn[p].order => txn[q].pc \notin {"locking", "ready"}
      /\ txn[p].since <= Len(rows)
      /\ txn[p].found \subseteq 1..txn[p].since
      /\ \A i \in txn[p].found : Owner[rows[i].order] = u
      /\ txn[p].pc = "locking" =>
           start <= now /\ \A i \in txn[p].found : start < rows[i].due
      /\ \A t \in now..(start - 1) : IsSubscribed(u, t) \/ IsFailedTime(u, t)
      /\ Duration[txn[p].order] > 0 =>
           \/ Overtaken(p)
           \/ \A i \in 1..txn[p].since :
                Owner[rows[i].order] = u /\ state[rows[i].order] = "EFFECTIVE" =>
                  rows[i].due <= start \/ (txn[p].pc = "locking" /\ i \in txn[p].found)

SoundCharge(p) ==
  \/ txn[p] = Idle
  \/ /\ txn[p].order \in Orders /\ txn[p].pc # "idle"
     /\ txn[p].seen \in OrderStates
     /\ txn[p].seen # "PENDING_PAYMENT" => state[txn[p].order] # "PENDING_PAYMENT"
     /\ txn[p].pc = "loaded" \/ SoundQuery(p)

\* The inductive invariant: the access that was paid for, and what keeps it.
IInv ==
  /\ TypeOK /\ NoInterruption /\ RowsGiveAccess
  /\ \A p \in Processes : SoundCharge(p)

\* The lock is there "to prevent race condition" (coin/models/product.py:13).  An
\* order that becomes effective gives its owner access on as many new days as its plan
\* is long, unless another row of the owner was committed after its query: a query
\* that found no row locks none, and one that waited for a row is not made again.
PaidTimeLostOnlyByRace ==
  [][\A o \in Orders :
       state[o] # "EFFECTIVE" /\ state'[o] = "EFFECTIVE" =>
         \/ LET start == rows'[Len(rows')].start
            IN  \A t \in start..(start + Duration[o] - 1) :
                  ~IsSubscribed(Owner[o], t) /\ IsSubscribed(Owner[o], t)'
         \/ \E p \in Processes : txn[p].order = o /\ Overtaken(p)]_vars
=============================================================================
