----------------------------- MODULE CoinProofs -----------------------------
(***************************************************************************)
(* Proofs about coin.  Subscriptions, for any orders, users, processes and *)
(* plan lengths: the access that was paid for is interrupted only where an *)
(* order was failed over its payment, and an order that becomes effective  *)
(* adds its whole length unless it lost a race.  Lending, for any          *)
(* strategies, patches, offers and number of jobs: the inductive           *)
(* invariant; what is to be held is held, rounds are short only for a      *)
(* cause, and, by rules that rise, higher rates are offered for longer.    *)
(***************************************************************************)
EXTENDS Subscription, FundingOffers, TLAPS, WellFoundedInduction, SequenceTheorems

USE SubscriptionAssumption DEF NoDue

Row == [order : Orders, start : Nat, due : Nat, unsubscribed : BOOLEAN]

Charge ==
  [pc : {"idle", "loaded", "locking", "ready"}, order : Orders \cup {NoOrder},
   found : SUBSET (1..MaxRows), start : Nat, since : 0..MaxRows, seen : OrderStates \cup {"NONE"}]

-----------------------------------------------------------------------------
(* Least elements, and induction.                                          *)

LEMMA LeastExists ==
  ASSUME NEW T \in SUBSET Nat, T # {}
  PROVE  \E x \in T : \A y \in T : x <= y
<1> DEFINE R == OpToRel(<, Nat)
<1>1. IsWellFoundedOn(R, Nat)
  BY NatLessThanWellFounded
<1>2. \A x, y \in Nat : <<x, y>> \in R <=> x < y
  BY DEF OpToRel
<1> HIDE DEF R
<1>3. PICK x \in T : \A y \in T : ~ (<<y, x>> \in R)
  BY <1>1, WFMin
<1>4. ASSUME NEW y \in T
      PROVE  x <= y
  <2>1. ~ (<<y, x>> \in R)
    BY <1>3
  <2>2. x \in Nat /\ y \in Nat
    OBVIOUS
  <2>3. ~ (y < x)
    BY <1>2, <2>1, <2>2, Zenon
  <2> QED BY <2>2, <2>3
<1> QED BY <1>4

\* Induction over the naturals, for sets.
LEMMA SetInduction ==
  ASSUME NEW G \in SUBSET Nat, 0 \in G, \A m \in G : m + 1 \in G
  PROVE  G = Nat
<1>1. SUFFICES ASSUME Nat \ G # {} PROVE FALSE
  OBVIOUS
<1>2. PICK n \in Nat \ G : \A m \in Nat \ G : n <= m
  BY <1>1, LeastExists
<1>3. n # 0 /\ n - 1 \in Nat /\ n - 1 \in G
  BY <1>2
<1> QED BY <1>2, <1>3

-----------------------------------------------------------------------------
(* Type correctness.                                                       *)

LEMMA IdleType == Idle \in Charge
BY DEF Idle, Charge

LEMMA RowsFacts ==
  ASSUME TypeOK
  PROVE  /\ rows \in Seq(Row) /\ Len(rows) \in Nat /\ DOMAIN rows = 1..Len(rows)
         /\ \A i \in 1..Len(rows) : rows[i] \in Row
<1>1. rows \in Seq(Row)
  BY DEF TypeOK, Row
<1> QED BY <1>1, LenProperties, ElementOfSeq

\* bind_action takes an order out of PENDING_PAYMENT, and nowhere else.
LEMMA BindFacts ==
  /\ CanApply("PENDING_PAYMENT", "charge_success")
  /\ Bind("PENDING_PAYMENT", "charge_success") = "EFFECTIVE"
  /\ Bind("PENDING_PAYMENT", "charge_fail") = "PAYMENT_FAILED"
  /\ \A s \in OrderStates \ {"PENDING_PAYMENT"} :
       ~CanApply(s, "charge_success") /\ ~CanApply(s, "charge_fail")
<1>1. /\ CanApply("PENDING_PAYMENT", "charge_success")
      /\ \A s \in OrderStates \ {"PENDING_PAYMENT"} :
           ~CanApply(s, "charge_success") /\ ~CanApply(s, "charge_fail")
  BY DEF CanApply, Arrows, OrderStates
<1>2. \A x \in OrderStates :
        /\ <<"PENDING_PAYMENT", "charge_success", x>> \in Arrows <=> x = "EFFECTIVE"
        /\ <<"PENDING_PAYMENT", "charge_fail", x>> \in Arrows <=> x = "PAYMENT_FAILED"
  BY DEF Arrows, OrderStates
<1>3. "EFFECTIVE" \in OrderStates /\ "PAYMENT_FAILED" \in OrderStates
  BY DEF OrderStates
<1>4. Bind("PENDING_PAYMENT", "charge_success") = "EFFECTIVE"
  BY <1>1, <1>2, <1>3 DEF Bind
<1>5. Bind("PENDING_PAYMENT", "charge_fail") = "PAYMENT_FAILED"
  <2>1. CanApply("PENDING_PAYMENT", "charge_fail")
    BY <1>2, <1>3 DEF CanApply
  <2> QED BY <1>2, <1>3, <2>1 DEF Bind
<1> QED BY <1>1, <1>4, <1>5

Holds(p) == txn[p].pc \in {"locking", "ready"}

LEMMA TxnFacts ==
  ASSUME TypeOK, NEW p \in Processes
  PROVE  /\ txn[p] \in Charge /\ txn[p].start \in Nat /\ txn[p].since \in Nat
         /\ txn[p].found \subseteq 1..MaxRows
         /\ now \in Nat /\ MaxRows \in Nat
BY DEF TypeOK, Charge

\* What the query finds are rows of the table.
LEMMA QueryFacts ==
  ASSUME TypeOK, NEW u
  PROVE  /\ InforceAndFuture(u) \subseteq 1..Len(rows)
         /\ \A i \in InforceAndFuture(u) : rows[i].due \in Nat /\ now < rows[i].due
                                           /\ Owner[rows[i].order] = u
BY RowsFacts DEF InforceAndFuture, Row

LEMMA BeginFacts ==
  ASSUME TypeOK, NEW p \in Processes, BeginCharge(p)
  PROVE  LET o == txn[p].order
             found == IF Duration[o] = 0 THEN {} ELSE InforceAndFuture(Owner[o])
         IN  /\ UNCHANGED <<now, state, rows>> /\ HasTrade(p) /\ txn[p] # Idle
             /\ txn[p].pc = "loaded"
             /\ \A q \in Processes \ {p} : txn'[q] = txn[q]
             /\ txn'[p].pc = (IF found = {} THEN "ready" ELSE "locking")
             /\ txn'[p].order = o /\ txn'[p].seen = txn[p].seen
             /\ txn'[p].found = found /\ txn'[p].start = now /\ txn'[p].since = Len(rows)
             /\ txn' \in [Processes -> Charge]
<1> DEFINE o == txn[p].order
           found == IF Duration[o] = 0 THEN {} ELSE InforceAndFuture(Owner[o])
<1>1. /\ txn \in [Processes -> Charge] /\ txn[p].pc = "loaded"
      /\ txn' = [txn EXCEPT ![p] = [txn[p] EXCEPT !.pc = IF found = {} THEN "ready" ELSE "locking",
                                             !.found = found, !.start = now,
                                             !.since = Len(rows)]]
      /\ UNCHANGED <<now, state, rows>> /\ HasTrade(p) /\ Len(rows) < MaxRows
  BY DEF BeginCharge, TypeOK, Charge
<1>2. found \subseteq 1..MaxRows /\ Len(rows) \in 0..MaxRows /\ now \in Nat
  BY <1>1, RowsFacts, QueryFacts, TxnFacts
<1> HIDE DEF found
<1>3. txn'[p] = [txn[p] EXCEPT !.pc = IF found = {} THEN "ready" ELSE "locking",
                               !.found = found, !.start = now, !.since = Len(rows)]
  BY <1>1
<1>4. txn[p] \in Charge
  BY <1>1
<1>5. txn'[p] \in Charge
  BY <1>2, <1>3, <1>4 DEF Charge
<1>6. txn' \in [Processes -> Charge]
  BY <1>1, <1>5
<1>7. /\ txn'[p].pc = (IF found = {} THEN "ready" ELSE "locking")
      /\ txn'[p].order = o /\ txn'[p].seen = txn[p].seen
      /\ txn'[p].found = found /\ txn'[p].start = now /\ txn'[p].since = Len(rows)
  BY <1>3, <1>4 DEF Charge
<1> QED BY <1>1, <1>6, <1>7 DEF Idle, found

\* The query that waited goes on from the latest of its rows that still gives access.
LEMMA LockFacts ==
  ASSUME TypeOK, NEW p \in Processes, txn[p].found \subseteq DOMAIN rows, LockRow(p)
  PROVE  LET still == {i \in txn[p].found : state[rows[i].order] = "EFFECTIVE"}
         IN  /\ UNCHANGED <<now, state, rows>> /\ txn[p].pc = "locking"
             /\ \A q \in Processes \ {p} : txn'[q] = txn[q]
             /\ txn'[p].pc = "ready" /\ txn'[p].order = txn[p].order
             /\ txn'[p].seen = txn[p].seen /\ txn'[p].since = txn[p].since
             /\ txn'[p].found \subseteq txn[p].found
             /\ \/ still = {} /\ txn'[p].start = now
                \/ \E i \in still : /\ txn'[p].start = rows[i].due
                                    /\ \A j \in still : rows[j].due <= rows[i].due
             /\ txn' \in [Processes -> Charge]
<1> DEFINE still == {i \in txn[p].found : state[rows[i].order] = "EFFECTIVE"}
<1>0. txn \in [Processes -> Charge] /\ txn[p] \in Charge
  BY DEF TypeOK, Charge
<1>1. ASSUME NEW S \in SUBSET txn[p].found, NEW b \in Nat,
             txn' = [txn EXCEPT ![p] = [txn[p] EXCEPT !.pc = "ready", !.start = b, !.found = S]]
      PROVE  /\ \A q \in Processes \ {p} : txn'[q] = txn[q]
             /\ txn'[p].pc = "ready" /\ txn'[p].order = txn[p].order
             /\ txn'[p].seen = txn[p].seen /\ txn'[p].since = txn[p].since
             /\ txn'[p].found \subseteq txn[p].found /\ txn'[p].start = b
             /\ txn' \in [Processes -> Charge]
  <2>1. [txn[p] EXCEPT !.pc = "ready", !.start = b, !.found = S] \in Charge
    BY <1>0 DEF Charge
  <2> QED BY <1>0, <1>1, <2>1 DEF Charge
<1>2. ASSUME still = {},
             txn' = [txn EXCEPT ![p] = [txn[p] EXCEPT !.pc = "ready", !.start = now]]
      PROVE  /\ txn'[p].start = now
             /\ \A q \in Processes \ {p} : txn'[q] = txn[q]
             /\ txn'[p].pc = "ready" /\ txn'[p].order = txn[p].order
             /\ txn'[p].seen = txn[p].seen /\ txn'[p].since = txn[p].since
             /\ txn'[p].found \subseteq txn[p].found
             /\ txn' \in [Processes -> Charge]
  <2>1. [txn[p] EXCEPT !.pc = "ready", !.start = now]
          = [txn[p] EXCEPT !.pc = "ready", !.start = now, !.found = txn[p].found]
    BY <1>0 DEF Charge
  <2>2. now \in Nat
    BY TxnFacts
  <2>3. txn' = [txn EXCEPT ![p] =
                  [txn[p] EXCEPT !.pc = "ready", !.start = now, !.found = txn[p].found]]
    BY <1>2, <2>1
  <2> QED BY <1>1, <1>2, <2>2, <2>3
<1>3. ASSUME NEW i \in Latest(still),
             txn' = [txn EXCEPT ![p] = [txn[p] EXCEPT !.pc = "ready", !.start = rows[i].due,
                             !.found = {j \in txn[p].found : rows[i].due <= rows[j].due}]]
      PROVE  /\ txn'[p].start = rows[i].due /\ i \in still
             /\ \A j \in still : rows[j].due <= rows[i].due
             /\ \A q \in Processes \ {p} : txn'[q] = txn[q]
             /\ txn'[p].pc = "ready" /\ txn'[p].order = txn[p].order
             /\ txn'[p].seen = txn[p].seen /\ txn'[p].since = txn[p].since
             /\ txn'[p].found \subseteq txn[p].found
             /\ txn' \in [Processes -> Charge]
  <2>1. i \in still /\ \A j \in still : rows[j].due <= rows[i].due
    BY <1>3 DEF Latest
  <2>2. rows[i].due \in Nat
    BY <2>1, RowsFacts DEF Row
  <2> DEFINE S == {j \in txn[p].found : rows[i].due <= rows[j].due}
  <2>3. S \in SUBSET txn[p].found
    OBVIOUS
  <2>4. txn' = [txn EXCEPT ![p] = [txn[p] EXCEPT !.pc = "ready", !.start = rows[i].due, !.found = S]]
    BY <1>3
  <2> HIDE DEF S, still
  <2> QED BY <1>1, <2>1, <2>2, <2>3, <2>4
<1>4. /\ UNCHANGED <<now, state, rows>> /\ txn[p].pc = "locking"
      /\ \/ /\ still = {}
            /\ txn' = [txn EXCEPT ![p] = [txn[p] EXCEPT !.pc = "ready", !.start = now]]
         \/ \E i \in Latest(still) :
              txn' = [txn EXCEPT ![p] = [txn[p] EXCEPT !.pc = "ready", !.start = rows[i].due,
                             !.found = {j \in txn[p].found : rows[i].due <= rows[j].due}]]
  BY <1>0 DEF LockRow
<1> QED BY <1>2, <1>3, <1>4

\* A charge past its query.
LEMMA HoldsFacts ==
  ASSUME IInv, NEW p \in Processes, Holds(p)
  PROVE  /\ txn[p] # Idle /\ txn[p].order \in Orders /\ txn[p].seen \in OrderStates
         /\ txn[p].seen # "PENDING_PAYMENT" => state[txn[p].order] # "PENDING_PAYMENT"
         /\ SoundQuery(p)
BY DEF IInv, SoundCharge, Holds, Idle

LEMMA FoundInTable ==
  ASSUME IInv, NEW p \in Processes, SoundQuery(p)
  PROVE  /\ txn[p].since <= Len(rows) /\ txn[p].found \subseteq 1..txn[p].since
         /\ txn[p].found \subseteq 1..Len(rows) /\ 1..txn[p].since \subseteq 1..Len(rows)
<1>1. txn[p].since \in Nat /\ Len(rows) \in Nat
  BY TxnFacts, RowsFacts DEF IInv
<1>2. txn[p].since <= Len(rows) /\ txn[p].found \subseteq 1..txn[p].since
  BY DEF SoundQuery
<1>3. 1..txn[p].since \subseteq 1..Len(rows)
  BY <1>1, <1>2
<1> QED BY <1>2, <1>3

LEMMA CommitFacts ==
  ASSUME IInv, NEW p \in Processes, CommitCharge(p)
  PROVE  LET o == txn[p].order
         IN  /\ o \in Orders /\ txn[p] # Idle /\ txn[p].pc = "ready" /\ SoundQuery(p)
             /\ NewRow(o, txn[p].start) \in Row
             /\ rows' = Append(rows, NewRow(o, txn[p].start))
             /\ txn' = [txn EXCEPT ![p] = Idle] /\ now' = now
             /\ \/ state' = [state EXCEPT ![o] = "EFFECTIVE"]
                \/ state' = state /\ state[o] # "PENDING_PAYMENT"
<1> DEFINE o == txn[p].order
<1>1. /\ o \in Orders /\ txn[p] # Idle /\ txn[p].pc = "ready" /\ SoundQuery(p)
      /\ txn[p].seen \in OrderStates
      /\ txn[p].seen # "PENDING_PAYMENT" => state[o] # "PENDING_PAYMENT"
  BY DEF IInv, SoundCharge, CommitCharge, Idle
<1>2. NewRow(o, txn[p].start) \in Row
  BY <1>1, TxnFacts DEF IInv, NewRow, Row
<1>3. \/ state' = [state EXCEPT ![o] = "EFFECTIVE"]
      \/ state' = state /\ state[o] # "PENDING_PAYMENT"
  BY <1>1, BindFacts DEF CommitCharge
<1> QED BY <1>1, <1>2, <1>3 DEF CommitCharge

LEMMA FailFacts ==
  ASSUME IInv, NEW w \in Workers, FailCharge(w)
  PROVE  /\ txn[w].order \in Orders /\ w \in Processes
         /\ state' = [state EXCEPT ![txn[w].order] = "PAYMENT_FAILED"]
         /\ txn' = [txn EXCEPT ![w] = Idle] /\ UNCHANGED <<now, rows>>
<1>1. w \in Processes /\ txn[w].pc = "loaded"
  BY DEF Processes, FailCharge
<1>2. txn[w].order \in Orders /\ txn[w].seen \in OrderStates
  BY <1>1 DEF IInv, SoundCharge, Idle
<1> QED BY <1>1, <1>2, BindFacts DEF FailCharge

LEMMA LoadFacts ==
  ASSUME TypeOK, NEW p \in Processes, NEW o \in Orders, Load(p, o)
  PROVE  /\ UNCHANGED <<now, state, rows>> /\ txn[p] = Idle
         /\ \A q \in Processes \ {p} : txn'[q] = txn[q]
         /\ txn'[p].pc = "loaded" /\ txn'[p].order = o /\ txn'[p].seen = state[o]
         /\ txn' \in [Processes -> Charge]
<1>1. state[o] \in OrderStates
  BY DEF TypeOK
<1>2. [Idle EXCEPT !.pc = "loaded", !.order = o, !.seen = state[o]] \in Charge
  BY <1>1, IdleType DEF Charge
<1> QED BY <1>1, <1>2, IdleType DEF Load, TypeOK, Charge

LEMMA NextType == IInv /\ [Next]_vars => TypeOK'
<1> SUFFICES ASSUME IInv, TypeOK, [Next]_vars
             PROVE  TypeOK'
  BY DEF IInv
<1>1. ASSUME NEW p \in Processes, LockRow(p)
      PROVE  TypeOK'
  <2>1. SoundQuery(p)
    BY <1>1, HoldsFacts DEF LockRow, Holds
  <2>2. txn[p].found \subseteq DOMAIN rows
    BY <2>1, RowsFacts, FoundInTable
  <2> QED BY <1>1, <2>2, LockFacts DEF TypeOK, Charge
<1>2. ASSUME NEW p \in Processes, CommitCharge(p)
      PROVE  TypeOK'
  <2>1. txn' \in [Processes -> Charge]
    BY <1>2, CommitFacts, IdleType DEF TypeOK, Charge
  <2>2. state' \in [Orders -> OrderStates]
    BY <1>2, CommitFacts DEF TypeOK, OrderStates
  <2>3. rows' \in Seq(Row)
    BY <1>2, CommitFacts, RowsFacts, AppendProperties
  <2> QED BY <1>2, <2>1, <2>2, <2>3, CommitFacts DEF TypeOK, Row, Charge
<1>3. ASSUME NEW p \in Processes, Rollback(p)
      PROVE  TypeOK'
  BY <1>3, IdleType DEF TypeOK, Rollback, Charge
<1>4. ASSUME NEW o \in Orders, CreateSubscription(o)
      PROVE  TypeOK'
  <2>1. [order |-> o, start |-> now, due |-> NoDue, unsubscribed |-> FALSE] \in Row
    BY DEF TypeOK, Row
  <2>2. rows' \in Seq(Row)
    BY <1>4, <2>1, RowsFacts, AppendProperties DEF CreateSubscription
  <2> QED BY <1>4, <2>2 DEF TypeOK, CreateSubscription, Row
<1>5. ASSUME NEW i \in 1..MaxRows, Unsubscribe(i)
      PROVE  TypeOK'
  <2>1. [rows[i] EXCEPT !.unsubscribed = TRUE] \in Row
    BY <1>5, RowsFacts DEF Unsubscribe, Row
  <2>2. rows' \in Seq(Row)
    BY <1>5, <2>1, RowsFacts, ExceptSeq DEF Unsubscribe
  <2> QED BY <1>5, <2>2 DEF TypeOK, Unsubscribe, Row
<1>6. CASE Tick
  BY <1>6 DEF TypeOK, Tick
<1>7. CASE UNCHANGED vars
  BY <1>7 DEF TypeOK, vars
<1>8. ASSUME NEW p \in Processes, NEW o \in Orders, Load(p, o)
      PROVE  TypeOK'
  BY <1>8, LoadFacts DEF TypeOK, Charge
<1>9. ASSUME NEW p \in Processes, BeginCharge(p)
      PROVE  TypeOK'
  BY <1>9, BeginFacts DEF TypeOK, Charge
<1>10. ASSUME NEW w \in Workers, FailCharge(w)
       PROVE  TypeOK'
  <2>1. txn' \in [Processes -> Charge]
    BY <1>10, FailFacts, IdleType DEF TypeOK, Charge
  <2>2. state' \in [Orders -> OrderStates]
    BY <1>10, FailFacts DEF TypeOK, OrderStates
  <2> QED BY <1>10, <2>1, <2>2, FailFacts DEF TypeOK, Charge
<1> QED
  BY <1>1, <1>2, <1>3, <1>4, <1>5, <1>6, <1>7, <1>8, <1>9, <1>10 DEF Next

-----------------------------------------------------------------------------
(* What every step keeps, and the access that follows.                     *)

RowsFactsNext ==
  /\ rows' \in Seq(Row) /\ Len(rows') \in Nat /\ DOMAIN rows' = 1..Len(rows')
  /\ \A i \in 1..Len(rows') : rows'[i] \in Row

\* Time goes on, no order goes back to PENDING_PAYMENT, and a row keeps its place and
\* its times.
Grows ==
  /\ RowsFactsNext
  /\ now' \in Nat /\ now <= now'
  /\ \A o \in Orders : state[o] # "PENDING_PAYMENT" => state'[o] # "PENDING_PAYMENT"
  /\ Len(rows) <= Len(rows')
  /\ \A i \in 1..Len(rows) :
       /\ rows'[i].order = rows[i].order
       /\ rows'[i].start = rows[i].start /\ rows'[i].due = rows[i].due

LEMMA RowsNext == ASSUME TypeOK' PROVE RowsFactsNext
<1>1. rows' \in Seq(Row)
  BY DEF TypeOK, Row
<1> QED BY <1>1, LenProperties, ElementOfSeq DEF RowsFactsNext

LEMMA AppendGrows ==
  ASSUME TypeOK, TypeOK', NEW row \in Row, rows' = Append(rows, row), now' = now,
         \A o \in Orders : state[o] # "PENDING_PAYMENT" => state'[o] # "PENDING_PAYMENT"
  PROVE  /\ Grows
         /\ Len(rows') = Len(rows) + 1 /\ rows'[Len(rows')] = row
<1>1. /\ Len(rows') = Len(rows) + 1 /\ rows'[Len(rows) + 1] = row
      /\ \A i \in 1..Len(rows) : rows'[i] = rows[i]
  BY RowsFacts, AppendProperties
<1>2. now \in Nat
  BY DEF TypeOK
<1> QED BY <1>1, <1>2, RowsFacts, RowsNext DEF Grows

LEMMA CommitGrows ==
  ASSUME IInv, TypeOK', NEW p \in Processes, CommitCharge(p)
  PROVE  /\ Grows
         /\ Len(rows') = Len(rows) + 1
         /\ rows'[Len(rows')] = NewRow(txn[p].order, txn[p].start)
<1>1. \A o \in Orders : state[o] # "PENDING_PAYMENT" => state'[o] # "PENDING_PAYMENT"
  BY CommitFacts DEF IInv, TypeOK
<1> QED BY <1>1, CommitFacts, AppendGrows DEF IInv

LEMMA StepGrows == IInv /\ [Next]_vars => Grows
<1> SUFFICES ASSUME IInv, TypeOK, TypeOK', [Next]_vars
             PROVE  Grows
  BY NextType DEF IInv
<1>0. now \in Nat
  BY DEF TypeOK
<1>1. ASSUME NEW p \in Processes, CommitCharge(p)
      PROVE  Grows
  BY <1>1, CommitGrows
<1>2. ASSUME NEW o \in Orders, CreateSubscription(o)
      PROVE  Grows
  <2>1. [order |-> o, start |-> now, due |-> NoDue, unsubscribed |-> FALSE] \in Row
    BY <1>0 DEF Row
  <2> QED BY <1>2, <2>1, AppendGrows DEF CreateSubscription
<1>3. ASSUME NEW i \in 1..MaxRows, Unsubscribe(i)
      PROVE  Grows
  <2>1. i \in 1..Len(rows) /\ rows[i] \in Row
    BY <1>3, RowsFacts DEF Unsubscribe
  <2>2. [rows[i] EXCEPT !.unsubscribed = TRUE] \in Row
    BY <2>1 DEF Row
  <2>3. /\ Len(rows') = Len(rows)
        /\ \A j \in 1..Len(rows) :
             rows'[j] = IF j = i THEN [rows[i] EXCEPT !.unsubscribed = TRUE] ELSE rows[j]
    BY <1>3, <2>1, <2>2, RowsFacts, ExceptSeq DEF Unsubscribe
  <2>4. \A j \in 1..Len(rows) : rows[j] \in Row /\ Len(rows) \in Nat
    BY RowsFacts
  <2> QED BY <1>0, <1>3, <2>3, <2>4, RowsNext DEF Unsubscribe, Grows, Row
<1>4. CASE UNCHANGED <<rows, state>> /\ now' \in {now, now + 1}
  BY <1>0, <1>4, RowsFacts, RowsNext DEF Grows
<1>5. ASSUME NEW w \in Workers, FailCharge(w)
      PROVE  Grows
  <2>1. \A o \in Orders : state[o] # "PENDING_PAYMENT" => state'[o] # "PENDING_PAYMENT"
    BY <1>5, FailFacts DEF TypeOK
  <2> QED BY <1>0, <1>5, <2>1, FailFacts, RowsFacts, RowsNext DEF Grows
<1> QED
  BY <1>1, <1>2, <1>3, <1>4, <1>5
  DEF Next, vars, Load, BeginCharge, LockRow, Rollback, Tick

\* Some row of u covers the time t, whatever became of its order.
Covered(u, t) ==
  \E i \in DOMAIN rows :
    rows[i].start <= t /\ t < rows[i].due /\ Owner[rows[i].order] = u

Gapless ==
  \A u \in Users : \A i \in DOMAIN rows : Owner[rows[i].order] = u =>
    \A t \in now..(rows[i].due - 1) : Covered(u, t)

LEMMA CoveredTime ==
  ASSUME TypeOK, RowsGiveAccess, NEW u, NEW t \in Nat
  PROVE  Covered(u, t) <=> IsSubscribed(u, t) \/ IsFailedTime(u, t)
<1>1. ASSUME NEW i \in DOMAIN rows, t < rows[i].due
      PROVE  state[rows[i].order] \in {"EFFECTIVE", "PAYMENT_FAILED"}
  <2>1. rows[i] \in Row
    BY RowsFacts
  <2> QED BY <1>1, <2>1 DEF RowsGiveAccess, Row
<1> QED BY <1>1 DEF Covered, IsSubscribed, IsFailedTime

LEMMA GaplessIff ==
  ASSUME TypeOK, RowsGiveAccess
  PROVE  Gapless <=> NoInterruption
<1>1. now \in Nat /\ \A i \in DOMAIN rows : rows[i].due \in Nat
  BY RowsFacts DEF TypeOK, Row
<1>2. ASSUME NEW i \in DOMAIN rows, NEW t \in now..(rows[i].due - 1)
      PROVE  t \in Nat
  BY <1>1
<1> QED BY <1>2, CoveredTime DEF Gapless, NoInterruption

LEMMA GaplessNext ==
  ASSUME TypeOK', RowsGiveAccess', Gapless'
  PROVE  NoInterruption'
BY GaplessIff, PTL

LEMMA CoveredTimeNext ==
  ASSUME TypeOK', RowsGiveAccess', NEW u \in Users, NEW t \in Nat, Covered(u, t)'
  PROVE  IsSubscribed(u, t)' \/ IsFailedTime(u, t)'
BY CoveredTime, PTL

LEMMA CoveredStays ==
  ASSUME TypeOK, Grows, NEW u, NEW t, Covered(u, t)
  PROVE  Covered(u, t)'
<1>1. PICK i \in DOMAIN rows :
        rows[i].start <= t /\ t < rows[i].due /\ Owner[rows[i].order] = u
  BY DEF Covered
<1>2. i \in 1..Len(rows) /\ i \in DOMAIN rows'
  BY RowsFacts DEF Grows, RowsFactsNext
<1> QED BY <1>1, <1>2 DEF Grows, Covered

\* The rows of before leave no gap.
LEMMA OldRowsCovered ==
  ASSUME IInv, Grows, NEW u \in Users, NEW i \in 1..Len(rows), Owner[rows'[i].order] = u,
         NEW t \in now'..(rows'[i].due - 1)
  PROVE  Covered(u, t)'
<1>1. /\ rows[i] \in Row /\ i \in DOMAIN rows /\ now \in Nat /\ now' \in Nat /\ now <= now'
      /\ rows'[i].order = rows[i].order /\ rows'[i].due = rows[i].due
  BY RowsFacts DEF IInv, TypeOK, Grows
<1>2. t \in now..(rows[i].due - 1)
  BY <1>1 DEF Row
<1>3. Covered(u, t)
  BY <1>1, <1>2, GaplessIff DEF IInv, Gapless
<1> QED BY <1>3, CoveredStays DEF IInv

\* Steps that add no row with a due time.
LEMMA QuietAccess ==
  ASSUME IInv, TypeOK', Grows,
         \A o \in Orders : state'[o] \in {"PENDING_PAYMENT", "EFFECTIVE", "PAYMENT_FAILED"},
         \A i \in 1..Len(rows') : rows'[i].due # NoDue => i \in 1..Len(rows)
  PROVE  NoInterruption' /\ RowsGiveAccess'
<1>1. RowsGiveAccess'
  BY RowsFacts DEF IInv, RowsGiveAccess, Grows, RowsFactsNext, Row
<1>2. Gapless'
  <2> SUFFICES ASSUME NEW u \in Users, NEW i \in DOMAIN rows', Owner[rows'[i].order] = u,
                      NEW t \in now'..(rows'[i].due - 1)
               PROVE  Covered(u, t)'
    BY DEF Gapless
  <2>1. i \in 1..Len(rows') /\ rows'[i].due # NoDue
    BY DEF Grows, RowsFactsNext, Row
  <2> QED BY <2>1, OldRowsCovered
<1> QED BY <1>1, <1>2, GaplessNext

\* A query with a row that became effective again was overtaken.
LEMMA QueryStays ==
  ASSUME IInv, TypeOK', Grows, RowsGiveAccess', NEW p \in Processes, txn'[p] = txn[p],
         txn[p].order \in Orders, SoundQuery(p),
         \A q \in Processes \ {p} : Holds(q)' /\ txn'[q].order = txn[p].order =>
           Holds(q) /\ txn[q].order = txn[p].order,
         \A o \in Orders : state[o] # "EFFECTIVE" /\ state'[o] = "EFFECTIVE" /\ Duration[o] > 0 =>
           \E k \in DOMAIN rows' : k > Len(rows) /\ rows'[k].order = o /\ rows'[k].due # NoDue
  PROVE  SoundQuery(p)'
<1> DEFINE o == txn[p].order
           u == Owner[o]
           start == txn[p].start
           since == txn[p].since
<1>1. /\ start \in Nat /\ since \in Nat /\ now \in Nat /\ now' \in Nat /\ now <= now'
      /\ Len(rows) \in Nat /\ Len(rows') \in Nat /\ Len(rows) <= Len(rows')
      /\ \A i \in 1..Len(rows) : rows[i] \in Row
  BY TxnFacts, RowsFacts DEF IInv, Grows, RowsFactsNext
<1>2. since <= Len(rows) /\ txn[p].found \subseteq 1..since /\ since <= Len(rows')
  BY <1>1 DEF SoundQuery
<1>3. \A q \in Processes \ {p} : txn'[q].order = o => txn'[q].pc \notin {"locking", "ready"}
  BY DEF SoundQuery, Holds
<1>4. /\ \A i \in txn[p].found : Owner[rows'[i].order] = u
      /\ txn[p].pc = "locking" =>
           start <= now' /\ \A i \in txn[p].found : start < rows'[i].due
  <2>1. \A i \in txn[p].found : /\ rows'[i].order = rows[i].order
                                /\ rows'[i].due = rows[i].due
    BY FoundInTable DEF Grows
  <2>2. /\ \A i \in txn[p].found : Owner[rows[i].order] = u
        /\ txn[p].pc = "locking" =>
             start <= now /\ \A i \in txn[p].found : start < rows[i].due
    BY DEF SoundQuery
  <2> QED BY <1>1, <2>1, <2>2
<1>5. ASSUME NEW t \in now'..(start - 1)
      PROVE  IsSubscribed(u, t)' \/ IsFailedTime(u, t)'
  <2>1. t \in now..(start - 1) /\ t \in Nat
    BY <1>1
  <2>2. Covered(u, t)
    BY <2>1, CoveredTime DEF SoundQuery, IInv
  <2>3. Covered(u, t)'
    BY <2>2, CoveredStays DEF IInv
  <2> QED BY <2>1, <2>3, CoveredTimeNext
<1>6. ASSUME Overtaken(p)
      PROVE  Overtaken(p)'
  <2>1. PICK i \in DOMAIN rows : i > since /\ Owner[rows[i].order] = u /\ rows[i].due # NoDue
    BY <1>6 DEF Overtaken
  <2>2. i \in 1..Len(rows) /\ i \in DOMAIN rows'
    BY <1>1, RowsFacts DEF IInv, Grows, RowsFactsNext
  <2>3. rows'[i].order = rows[i].order /\ rows'[i].due = rows[i].due
    BY <2>2 DEF Grows
  <2> QED BY <2>1, <2>2, <2>3 DEF Overtaken
<1>7. ASSUME Duration[o] > 0, ~Overtaken(p)', NEW i \in 1..since, Owner[rows'[i].order] = u,
             state'[rows'[i].order] = "EFFECTIVE"
      PROVE  rows'[i].due <= start \/ (txn[p].pc = "locking" /\ i \in txn[p].found)
  <2>1. /\ i \in 1..Len(rows) /\ rows'[i].order = rows[i].order /\ rows'[i].due = rows[i].due
        /\ rows[i].order \in Orders /\ rows[i].due \in Nat
    BY <1>1, <1>2 DEF Grows, Row
  <2>2. CASE state[rows[i].order] = "EFFECTIVE"
    BY <1>6, <1>7, <2>1, <2>2 DEF SoundQuery
  <2>3. CASE state[rows[i].order] # "EFFECTIVE" /\ Duration[rows[i].order] > 0
    <3>1. PICK k \in DOMAIN rows' :
            k > Len(rows) /\ rows'[k].order = rows[i].order /\ rows'[k].due # NoDue
      BY <1>7, <2>1, <2>3
    <3>2. k \in Nat /\ k > since
      BY <1>1, <1>2, <3>1 DEF Grows, RowsFactsNext
    <3>3. Overtaken(p)'
      BY <1>7, <2>1, <3>1, <3>2 DEF Overtaken
    <3> QED BY <1>7, <3>3
  <2>4. CASE Duration[rows[i].order] = 0
    <3>1. rows[i].due = NoDue
      BY <2>1, <2>4, RowsFacts DEF IInv, RowsGiveAccess
    <3> QED BY <1>1, <2>1, <3>1
  <2> QED BY <2>1, <2>2, <2>3, <2>4
<1> QED BY <1>2, <1>3, <1>4, <1>5, <1>7 DEF SoundQuery

\* A charge that does not move stays sound.
LEMMA ChargeStays ==
  ASSUME IInv, TypeOK', Grows, RowsGiveAccess', NEW p \in Processes, txn'[p] = txn[p],
         Holds(p) => \A q \in Processes \ {p} : Holds(q)' /\ txn'[q].order = txn[p].order =>
           Holds(q) /\ txn[q].order = txn[p].order,
         \A o \in Orders : state[o] # "EFFECTIVE" /\ state'[o] = "EFFECTIVE" /\ Duration[o] > 0 =>
           \E k \in DOMAIN rows' : k > Len(rows) /\ rows'[k].order = o /\ rows'[k].due # NoDue
  PROVE  SoundCharge(p)'
<1>1. CASE txn[p] = Idle
  BY <1>1 DEF SoundCharge
<1>2. CASE txn[p] # Idle
  <2>1. /\ txn[p].order \in Orders /\ txn[p].pc # "idle" /\ txn[p].seen \in OrderStates
        /\ txn[p].seen # "PENDING_PAYMENT" => state[txn[p].order] # "PENDING_PAYMENT"
        /\ txn[p].pc = "loaded" \/ SoundQuery(p)
    BY <1>2 DEF IInv, SoundCharge
  <2>2. txn[p].seen # "PENDING_PAYMENT" => state'[txn[p].order] # "PENDING_PAYMENT"
    BY <2>1 DEF Grows
  <2>3. txn[p].pc = "loaded" \/ Holds(p)
    BY <2>1, TxnFacts DEF IInv, Charge, Holds
  <2>4. txn[p].pc = "loaded" \/ SoundQuery(p)'
    BY <2>1, <2>3, QueryStays
  <2> QED BY <2>1, <2>2, <2>4 DEF SoundCharge
<1> QED BY <1>1, <1>2

\* Steps that make no order effective and add no row with a due time.
LEMMA QuietStep ==
  ASSUME IInv, TypeOK', Grows,
         \A o \in Orders : state'[o] \in {state[o], "PAYMENT_FAILED"},
         \A i \in 1..Len(rows') : rows'[i].due # NoDue => i \in 1..Len(rows),
         \A p \in Processes : txn'[p] = txn[p] \/ txn'[p] = Idle
  PROVE  IInv'
<1>1. NoInterruption' /\ RowsGiveAccess'
  BY QuietAccess DEF IInv, RowsGiveAccess
<1>2. ASSUME NEW p \in Processes
      PROVE  SoundCharge(p)'
  <2>1. CASE txn'[p] = txn[p]
    <3>1. \A q \in Processes \ {p} : Holds(q)' /\ txn'[q].order = txn[p].order =>
            Holds(q) /\ txn[q].order = txn[p].order
      BY DEF Holds, Idle
    <3> QED BY <1>1, <2>1, <3>1, ChargeStays
  <2>2. CASE txn'[p] = Idle
    BY <2>2 DEF SoundCharge
  <2> QED BY <2>1, <2>2
<1> QED BY <1>1, <1>2 DEF IInv

\* Steps of one process that leave the table and the orders alone.
LEMMA ProcessStep ==
  ASSUME IInv, TypeOK', Grows, UNCHANGED <<now, state, rows>>, NEW p \in Processes,
         \A q \in Processes \ {p} : txn'[q] = txn[q],
         SoundCharge(p)',
         Holds(p)' => txn'[p].order = txn[p].order /\ (Holds(p) \/ HasTrade(p))
  PROVE  IInv'
<1>1. NoInterruption' /\ RowsGiveAccess'
  BY DEF IInv, NoInterruption, RowsGiveAccess, IsSubscribed, IsFailedTime
<1>2. ASSUME NEW q \in Processes, q # p
      PROVE  SoundCharge(q)'
  <2>1. Holds(q) => \A r \in Processes \ {q} : Holds(r)' /\ txn'[r].order = txn[q].order =>
          Holds(r) /\ txn[r].order = txn[q].order
    BY <1>2 DEF Holds, HasTrade
  <2> QED BY <1>1, <1>2, <2>1, ChargeStays
<1> QED BY <1>1, <1>2 DEF IInv

LEMMA LoadSafe ==
  ASSUME IInv, TypeOK', Grows, NEW p \in Processes, NEW o \in Orders, Load(p, o)
  PROVE  IInv'
<1>1. SoundCharge(p)'
  BY LoadFacts DEF IInv, SoundCharge, TypeOK
<1>2. ~Holds(p)'
  BY LoadFacts DEF IInv, Holds
<1> QED BY <1>1, <1>2, LoadFacts, ProcessStep DEF IInv

\* At its query a charge waits for the rows of its owner that give access beyond now.
LEMMA BeginSafe ==
  ASSUME IInv, TypeOK', Grows, NEW p \in Processes, BeginCharge(p)
  PROVE  IInv'
<1> DEFINE o == txn[p].order
           found == IF Duration[o] = 0 THEN {} ELSE InforceAndFuture(Owner[o])
           c == txn'[p]
<1>1. /\ UNCHANGED <<now, state, rows>> /\ HasTrade(p) /\ txn[p] # Idle
      /\ \A q \in Processes \ {p} : txn'[q] = txn[q]
      /\ c.pc = (IF found = {} THEN "ready" ELSE "locking")
      /\ c.order = o /\ c.seen = txn[p].seen
      /\ c.found = found /\ c.start = now /\ c.since = Len(rows)
  BY BeginFacts DEF IInv
<1>2. /\ o \in Orders /\ txn[p].seen \in OrderStates
      /\ txn[p].seen # "PENDING_PAYMENT" => state[o] # "PENDING_PAYMENT"
  BY <1>1 DEF IInv, SoundCharge
<1>3. /\ now \in Nat /\ Len(rows) \in Nat /\ found \subseteq 1..Len(rows)
      /\ \A i \in found : now < rows[i].due /\ Owner[rows[i].order] = Owner[o]
  BY TxnFacts, RowsFacts, QueryFacts DEF IInv
<1>4. ASSUME Duration[o] > 0, NEW i \in 1..Len(rows), Owner[rows[i].order] = Owner[o],
             state[rows[i].order] = "EFFECTIVE"
      PROVE  rows[i].due <= now \/ (c.pc = "locking" /\ i \in found)
  <2>1. rows[i].due \in Nat /\ i \in DOMAIN rows
    BY RowsFacts DEF IInv, Row
  <2>2. now < rows[i].due => i \in found
    BY <1>4, <2>1 DEF InforceAndFuture
  <2> QED BY <1>1, <1>3, <2>1, <2>2
<1> HIDE DEF found
<1>5. SoundQuery(p)'
  <2>1. \A q \in Processes \ {p} : txn'[q].order = o => txn'[q].pc \notin {"locking", "ready"}
    BY <1>1 DEF HasTrade
  <2>2. now <= now /\ Len(rows) <= Len(rows) /\ now..(now - 1) = {}
    BY <1>3
  <2> QED BY <1>1, <1>3, <1>4, <2>1, <2>2 DEF SoundQuery
<1>6. SoundCharge(p)'
  BY <1>1, <1>2, <1>5 DEF SoundCharge
<1> QED BY <1>1, <1>6, ProcessStep

\* After the wait it starts where the last of them ends that gives access still.
LEMMA LockSafe ==
  ASSUME IInv, TypeOK', Grows, NEW p \in Processes, LockRow(p)
  PROVE  IInv'
<1> DEFINE o == txn[p].order
           u == Owner[o]
           start == txn[p].start
           still == {i \in txn[p].found : state[rows[i].order] = "EFFECTIVE"}
           c == txn'[p]
<1>1. /\ txn[p].pc = "locking" /\ o \in Orders /\ txn[p].seen \in OrderStates
      /\ txn[p].seen # "PENDING_PAYMENT" => state[o] # "PENDING_PAYMENT"
      /\ SoundQuery(p)
  <2>1. txn[p].pc = "locking"
    BY DEF LockRow
  <2> QED BY <2>1, HoldsFacts DEF Holds
<1>2. /\ start \in Nat /\ now \in Nat /\ txn[p].since \in Nat /\ Len(rows) \in Nat
      /\ txn[p].since <= Len(rows) /\ DOMAIN rows = 1..Len(rows)
      /\ txn[p].found \subseteq 1..txn[p].since
      /\ txn[p].found \subseteq 1..Len(rows) /\ 1..txn[p].since \subseteq 1..Len(rows)
      /\ \A i \in 1..Len(rows) : rows[i].due \in Nat
  BY <1>1, TxnFacts, RowsFacts, FoundInTable DEF IInv, Row
<1>3. /\ UNCHANGED <<now, state, rows>>
      /\ \A q \in Processes \ {p} : txn'[q] = txn[q]
      /\ c.pc = "ready" /\ c.order = o /\ c.seen = txn[p].seen /\ c.since = txn[p].since
      /\ c.found \subseteq txn[p].found
      /\ \/ still = {} /\ c.start = now
         \/ \E i \in still : /\ c.start = rows[i].due
                             /\ \A j \in still : rows[j].due <= rows[i].due
  BY <1>2, LockFacts DEF IInv
<1>4. start <= c.start /\ \A j \in still : rows[j].due <= c.start
  BY <1>1, <1>2, <1>3 DEF SoundQuery
<1>5. ASSUME NEW t \in now..(c.start - 1)
      PROVE  IsSubscribed(u, t)' \/ IsFailedTime(u, t)'
  <2>1. CASE c.start = now
    BY <1>2, <2>1
  <2>2. ASSUME NEW i \in still, c.start = rows[i].due
        PROVE  IsSubscribed(u, t) \/ IsFailedTime(u, t)
    <3>1. i \in DOMAIN rows /\ Owner[rows[i].order] = u /\ u \in Users
      BY <1>1, <1>2, <2>2 DEF SoundQuery
    <3> QED BY <2>2, <3>1 DEF IInv, NoInterruption
  <2> QED BY <1>3, <2>1, <2>2 DEF IsSubscribed, IsFailedTime
<1>6. ASSUME Duration[o] > 0, ~Overtaken(p), NEW i \in 1..txn[p].since,
             Owner[rows[i].order] = u, state[rows[i].order] = "EFFECTIVE"
      PROVE  rows[i].due <= c.start
  <2>1. rows[i].due <= start \/ i \in still
    BY <1>1, <1>6 DEF SoundQuery
  <2>2. c.start \in Nat /\ rows[i].due \in Nat
    BY <1>2, <1>3
  <2> QED BY <1>2, <1>4, <2>1, <2>2
<1> HIDE DEF still
<1>7. Overtaken(p)' <=> Overtaken(p)
  BY <1>3 DEF Overtaken
<1>8. SoundQuery(p)'
  <2>1. \A q \in Processes \ {p} : txn'[q].order = o => txn'[q].pc \notin {"locking", "ready"}
    BY <1>1, <1>3 DEF SoundQuery
  <2>2. \A i \in c.found : Owner[rows[i].order] = u
    BY <1>1, <1>3 DEF SoundQuery
  <2>3. c.found \subseteq 1..c.since
    BY <1>2, <1>3
  <2> QED BY <1>2, <1>3, <1>5, <1>6, <1>7, <2>1, <2>2, <2>3 DEF SoundQuery
<1>9. SoundCharge(p)'
  BY <1>1, <1>3, <1>8 DEF SoundCharge
<1>10. Holds(p)
  BY <1>1 DEF Holds
<1> QED BY <1>3, <1>9, <1>10, ProcessStep

\* The commit: the new row begins where the rows before it end, so there is no gap.
LEMMA CommitSafe ==
  ASSUME IInv, TypeOK', Grows, NEW p \in Processes, CommitCharge(p)
  PROVE  IInv'
<1> DEFINE o == txn[p].order
           start == txn[p].start
           n == Len(rows) + 1
<1>1. /\ o \in Orders /\ txn[p] # Idle /\ start \in Nat /\ Duration[o] \in Nat /\ now \in Nat
      /\ txn' = [txn EXCEPT ![p] = Idle] /\ now' = now /\ SoundQuery(p)
  BY CommitFacts, TxnFacts DEF IInv
<1>2. /\ Len(rows') = n /\ rows'[n] = NewRow(o, start) /\ Len(rows) \in Nat
      /\ DOMAIN rows' = 1..n /\ DOMAIN rows = 1..Len(rows)
  BY CommitGrows, RowsFacts DEF IInv, Grows, RowsFactsNext
<1>3. /\ state'[o] \in {"EFFECTIVE", "PAYMENT_FAILED"}
      /\ \A x \in Orders \ {o} : state'[x] = state[x]
      /\ state'[o] = "EFFECTIVE" \/ state'[o] = state[o]
  <2>1. \/ state' = [state EXCEPT ![o] = "EFFECTIVE"]
        \/ state' = state /\ state[o] # "PENDING_PAYMENT"
    BY CommitFacts
  <2>2. state[o] \in {"PENDING_PAYMENT", "EFFECTIVE", "PAYMENT_FAILED"}
    BY <1>1 DEF IInv, RowsGiveAccess
  <2>3. state \in [Orders -> OrderStates]
    BY DEF IInv, TypeOK
  <2> HIDE DEF o
  <2> QED BY <1>1, <2>1, <2>2, <2>3
<1>4. RowsGiveAccess'
  <2>1. \A x \in Orders : state'[x] \in {"PENDING_PAYMENT", "EFFECTIVE", "PAYMENT_FAILED"}
    BY <1>3 DEF IInv, RowsGiveAccess
  <2>2. ASSUME NEW i \in DOMAIN rows', rows'[i].due # NoDue
        PROVE  state'[rows'[i].order] # "PENDING_PAYMENT" /\ Duration[rows'[i].order] > 0
    <3>1. CASE i = n
      BY <1>1, <1>2, <1>3, <2>2, <3>1 DEF NewRow
    <3>2. CASE i \in 1..Len(rows)
      BY <1>2, <2>2, <3>2, RowsFacts DEF IInv, RowsGiveAccess, Grows, Row
    <3> QED BY <1>2, <3>1, <3>2
  <2> QED BY <2>1, <2>2 DEF RowsGiveAccess
<1>5. Gapless'
  <2> SUFFICES ASSUME NEW u \in Users, NEW i \in DOMAIN rows', Owner[rows'[i].order] = u,
                      NEW t \in now'..(rows'[i].due - 1)
               PROVE  Covered(u, t)'
    BY DEF Gapless
  <2>1. CASE i \in 1..Len(rows)
    BY <2>1, OldRowsCovered
  <2>2. CASE i = n
    <3>1. rows'[n].order = o /\ rows'[n].start = start /\ Owner[o] = u
      BY <1>2, <2>2 DEF NewRow
    <3>2. Duration[o] > 0 /\ rows'[n].due = start + Duration[o] /\ t \in Nat
      BY <1>1, <1>2, <2>2 DEF NewRow
    <3>3. CASE t < start
      <4>1. IsSubscribed(u, t) \/ IsFailedTime(u, t)
        BY <1>1, <3>1, <3>2, <3>3 DEF SoundQuery
      <4>2. Covered(u, t)
        BY <3>2, <4>1, CoveredTime DEF IInv
      <4> QED BY <4>2, CoveredStays DEF IInv
    <3>4. CASE start <= t
      <4>1. t < rows'[n].due
        BY <1>1, <2>2, <3>2
      <4> QED BY <1>2, <3>1, <3>4, <4>1 DEF Covered
    <3> QED BY <1>1, <3>2, <3>3, <3>4
  <2> QED BY <1>2, <2>1, <2>2
<1>6. ASSUME NEW x \in Orders, state[x] # "EFFECTIVE", state'[x] = "EFFECTIVE", Duration[x] > 0
      PROVE  \E k \in DOMAIN rows' : k > Len(rows) /\ rows'[k].order = x /\ rows'[k].due # NoDue
  <2>1. x = o /\ n \in DOMAIN rows' /\ n > Len(rows)
    BY <1>2, <1>3, <1>6
  <2>2. rows'[n].order = o /\ rows'[n].due # NoDue
    BY <1>1, <1>2, <1>6, <2>1 DEF NewRow
  <2> QED BY <2>1, <2>2
<1>7. ASSUME NEW q \in Processes
      PROVE  SoundCharge(q)'
  <2>1. CASE q = p
    BY <1>1, <2>1 DEF IInv, TypeOK, SoundCharge
  <2>2. CASE q # p
    <3>1. txn'[q] = txn[q]
      BY <1>1, <2>2 DEF IInv, TypeOK
    <3>2. \A r \in Processes \ {q} : Holds(r)' /\ txn'[r].order = txn[q].order =>
            Holds(r) /\ txn[r].order = txn[q].order
      BY <1>1 DEF IInv, TypeOK, Holds, Idle
    <3> QED BY <1>4, <1>6, <3>1, <3>2, ChargeStays
  <2> QED BY <2>1, <2>2
<1>8. NoInterruption'
  BY <1>4, <1>5, GaplessNext
<1> QED BY <1>4, <1>7, <1>8 DEF IInv

LEMMA InitIInv == Init => IInv
<1> SUFFICES ASSUME Init PROVE IInv
  OBVIOUS
<1>1. rows = <<>> /\ rows \in Seq(Row) /\ Len(rows) = 0 /\ DOMAIN rows = {}
  BY EmptySeq, LenProperties DEF Init
<1>2. TypeOK
  BY <1>1, IdleType DEF Init, TypeOK, Row, Charge, OrderStates
<1>3. NoInterruption /\ RowsGiveAccess
  BY <1>1 DEF Init, NoInterruption, RowsGiveAccess, InforceAndFuture
<1>4. \A p \in Processes : SoundCharge(p)
  BY DEF Init, SoundCharge
<1> QED BY <1>2, <1>3, <1>4 DEF IInv

LEMMA NextSafe == IInv /\ [Next]_vars => IInv'
<1> SUFFICES ASSUME IInv, [Next]_vars
             PROVE  IInv'
  OBVIOUS
<1>1. TypeOK' /\ Grows
  BY NextType, StepGrows
<1>2. ASSUME NEW w \in Workers, FailCharge(w)
      PROVE  IInv'
  BY <1>1, <1>2, FailFacts, RowsFacts, QuietStep DEF IInv, TypeOK
<1>3. ASSUME NEW p \in Processes, Rollback(p)
      PROVE  IInv'
  BY <1>1, <1>3, RowsFacts, QuietStep DEF Rollback, IInv, TypeOK
<1>4. ASSUME NEW o \in Orders, CreateSubscription(o)
      PROVE  IInv'
  <2>1. [order |-> o, start |-> now, due |-> NoDue, unsubscribed |-> FALSE] \in Row
    BY DEF IInv, TypeOK, Row
  <2>2. \A i \in 1..Len(rows') : rows'[i].due # NoDue => i \in 1..Len(rows)
    BY <1>1, <1>4, <2>1, RowsFacts, AppendGrows DEF CreateSubscription, IInv
  <2> QED BY <1>1, <1>4, <2>2, QuietStep DEF CreateSubscription
<1>5. ASSUME NEW i \in 1..MaxRows, Unsubscribe(i)
      PROVE  IInv'
  <2>1. Len(rows') = Len(rows)
    BY <1>5, RowsFacts DEF Unsubscribe, IInv
  <2> QED BY <1>1, <1>5, <2>1, QuietStep DEF Unsubscribe
<1>6. CASE UNCHANGED <<state, rows, txn>>
  BY <1>1, <1>6, QuietStep
<1> QED
  BY <1>1, <1>2, <1>3, <1>4, <1>5, <1>6, LoadSafe, BeginSafe, LockSafe, CommitSafe
  DEF Next, Tick, vars

\* The rows of an end user who bought time ahead leave no gap, and give access but where
\* an order was failed after its payment, whatever results are handled side by side.
THEOREM AccessInvariant == Spec => []IInv
BY InitIInv, NextSafe, PTL DEF Spec

\* Only a commit makes an order effective.
LEMMA EffectiveByCommit ==
  ASSUME IInv, [Next]_vars, NEW o \in Orders, state[o] # "EFFECTIVE", state'[o] = "EFFECTIVE"
  PROVE  \E p \in Processes : CommitCharge(p) /\ txn[p].order = o
<1>1. ASSUME NEW w \in Workers, FailCharge(w)
      PROVE  FALSE
  BY <1>1, FailFacts DEF IInv, TypeOK
<1>2. PICK p \in Processes : CommitCharge(p)
  BY <1>1
  DEF Next, Load, BeginCharge, LockRow, Rollback, CreateSubscription, Unsubscribe, Tick, vars
<1>3. txn[p].order = o
  BY <1>2, CommitFacts DEF IInv, TypeOK
<1> QED BY <1>2, <1>3

LEMMA WholePlanOrRace ==
  ASSUME IInv, TypeOK', NEW p \in Processes, CommitCharge(p), NEW o \in Orders,
         txn[p].order = o, state'[o] = "EFFECTIVE"
  PROVE  \/ LET start == rows'[Len(rows')].start
            IN  \A t \in start..(start + Duration[o] - 1) :
                  ~IsSubscribed(Owner[o], t) /\ IsSubscribed(Owner[o], t)'
         \/ Overtaken(p)
<1> DEFINE start == txn[p].start
           n == Len(rows')
<1>1. /\ start \in Nat /\ txn[p].since \in Nat /\ Duration[o] \in Nat /\ SoundQuery(p)
      /\ n \in DOMAIN rows' /\ rows'[n] = NewRow(o, start)
  <2>1. rows'[n] = NewRow(o, start) /\ n = Len(rows) + 1 /\ Grows
    BY CommitGrows
  <2>2. n \in DOMAIN rows'
    BY <2>1, RowsFacts DEF IInv, Grows, RowsFactsNext
  <2> QED BY <2>1, <2>2, TxnFacts, CommitFacts DEF IInv
<1> HIDE DEF n
<1>2. ASSUME NEW t \in start..(start + Duration[o] - 1)
      PROVE  IsSubscribed(Owner[o], t)'
  <2>1. /\ rows'[n].order = o /\ rows'[n].start = start /\ Duration[o] # 0
        /\ rows'[n].due = start + Duration[o]
    BY <1>1 DEF NewRow
  <2>2. rows'[n].start <= t /\ t < rows'[n].due
    BY <1>1, <2>1
  <2> QED BY <1>1, <2>1, <2>2 DEF IsSubscribed
<1>3. ASSUME NEW t \in start..(start + Duration[o] - 1), IsSubscribed(Owner[o], t)
      PROVE  Overtaken(p)
  <2>1. PICK i \in DOMAIN rows : /\ t < rows[i].due /\ Owner[rows[i].order] = Owner[o]
                                 /\ state[rows[i].order] = "EFFECTIVE"
    BY <1>3 DEF IsSubscribed
  <2>2. rows[i].due \in Nat /\ i \in 1..Len(rows)
    BY RowsFacts DEF IInv, Row
  <2>3. Duration[o] > 0 /\ ~(rows[i].due <= start) /\ rows[i].due # NoDue
    BY <1>1, <2>1, <2>2
  <2>4. txn[p].pc = "ready"
    BY CommitFacts
  <2>5. i \in 1..txn[p].since => Overtaken(p)
    BY <1>1, <2>1, <2>3, <2>4 DEF SoundQuery
  <2>6. i \notin 1..txn[p].since => i > txn[p].since
    BY <1>1, <2>2
  <2> QED BY <2>1, <2>3, <2>5, <2>6 DEF Overtaken
<1>4. rows'[n].start = start
  BY <1>1 DEF NewRow
<1> QED BY <1>2, <1>3, <1>4 DEF n

\* A plan that is paid for is added in full to what its owner has, or else another row
\* of the owner was committed between the query and the commit.
THEOREM WholePlanOrRaced == Spec => PaidTimeLostOnlyByRace
<1>1. IInv /\ [Next]_vars =>
        [\A o \in Orders :
           state[o] # "EFFECTIVE" /\ state'[o] = "EFFECTIVE" =>
             \/ LET start == rows'[Len(rows')].start
                IN  \A t \in start..(start + Duration[o] - 1) :
                      ~IsSubscribed(Owner[o], t) /\ IsSubscribed(Owner[o], t)'
             \/ \E p \in Processes : txn[p].order = o /\ Overtaken(p)]_vars
  <2> SUFFICES ASSUME IInv, [Next]_vars, NEW o \in Orders,
                      state[o] # "EFFECTIVE", state'[o] = "EFFECTIVE"
               PROVE  \/ LET start == rows'[Len(rows')].start
                         IN  \A t \in start..(start + Duration[o] - 1) :
                               ~IsSubscribed(Owner[o], t) /\ IsSubscribed(Owner[o], t)'
                      \/ \E p \in Processes : txn[p].order = o /\ Overtaken(p)
    OBVIOUS
  <2>1. PICK p \in Processes : CommitCharge(p) /\ txn[p].order = o
    BY EffectiveByCommit
  <2>2. TypeOK'
    BY NextType
  <2> QED BY <2>1, <2>2, WholePlanOrRace
<1> QED BY <1>1, AccessInvariant, PTL DEF Spec, PaidTimeLostOnlyByRace

HIDE SubscriptionAssumption DEF NoDue

-----------------------------------------------------------------------------
(* Recursive functions.                                                    *)

\* f goes from s0 by G.
Follows(f, N, S, s0, G) ==
  f \in [0..N -> S] /\ f[0] = s0 /\ \A n \in 1..N : f[n] = G[<<n, f[n - 1]>>]

\* A function on 0..N whose values follow one from the other exists.
LEMMA RecursionExists ==
  ASSUME NEW N \in Nat, NEW S, NEW s0 \in S, NEW G \in [(1..N) \X S -> S]
  PROVE  \E f : Follows(f, N, S, s0, G)
<1> DEFINE IsUpTo(f, m) == /\ f \in [0..N -> S] /\ f[0] = s0
                           /\ \A n \in 1..N : n <= m => f[n] = G[<<n, f[n - 1]>>]
           Lengths == {m \in Nat : \E f : IsUpTo(f, m)}
<1>0. \A m : m \in Lengths <=> m \in Nat /\ \E f : IsUpTo(f, m)
  <2> HIDE DEF IsUpTo
  <2> QED
    OBVIOUS
<1>1. \E f : IsUpTo(f, 0)
  <2> DEFINE f == [n \in 0..N |-> s0]
  <2>1. f \in [0..N -> S] /\ f[0] = s0
    OBVIOUS
  <2>2. \A n \in 1..N : ~ (n <= 0)
    OBVIOUS
  <2> HIDE DEF f
  <2>3. IsUpTo(f, 0)
    BY <2>1, <2>2
  <2> QED
    BY <2>3
<1> HIDE DEF Lengths
<1>2. ASSUME NEW m \in Lengths PROVE m + 1 \in Lengths
  <2>1. m \in Nat /\ \E f : IsUpTo(f, m)
    BY <1>0, <1>2, Zenon
  <2>2. PICK f : IsUpTo(f, m)
    BY <2>1, Zenon
  <2>3. f \in [0..N -> S] /\ f[0] = s0
    BY <2>2, Zenon
  <2>4. \A n \in 1..N : n <= m => f[n] = G[<<n, f[n - 1]>>]
    BY <2>2, Zenon
  <2>5. \E g : IsUpTo(g, m + 1)
    <3>1. CASE m + 1 > N
      <4>1. \A n \in 1..N : n <= m
        BY <2>1, <3>1
      <4>2. IsUpTo(f, m + 1)
        BY <2>3, <2>4, <4>1
      <4> QED
        BY <4>2
    <3>2. CASE m + 1 <= N
      <4> DEFINE g == [f EXCEPT ![m + 1] = G[<<m + 1, f[m]>>]]
      <4>1. m \in 0..N /\ m + 1 \in 1..N /\ m + 1 \in 0..N /\ f[m] \in S
        BY <2>1, <2>3, <3>2
      <4>2. G[<<m + 1, f[m]>>] \in S
        BY <4>1
      <4>3. g \in [0..N -> S]
        BY <2>3, <4>2
      <4>4. \A n \in 0..N : g[n] = IF n = m + 1 THEN G[<<m + 1, f[m]>>] ELSE f[n]
        BY <2>3
      <4> HIDE DEF g
      <4>5. g[0] = s0
        BY <2>1, <2>3, <4>4
      <4>6. ASSUME NEW n \in 1..N, n <= m + 1 PROVE g[n] = G[<<n, g[n - 1]>>]
        <5>1. n \in 0..N /\ n - 1 \in 0..N /\ n - 1 # m + 1
          BY <2>1, <4>6
        <5>2. g[n - 1] = f[n - 1]
          BY <4>4, <5>1
        <5>3. CASE n = m + 1
          <6>1. n - 1 = m
            BY <2>1, <5>3
          <6>2. g[n] = G[<<m + 1, f[m]>>]
            BY <4>4, <5>1, <5>3
          <6> QED
            BY <5>2, <5>3, <6>1, <6>2
        <5>4. CASE n # m + 1
          <6>1. n <= m
            BY <2>1, <4>6, <5>4
          <6>2. g[n] = f[n]
            BY <4>4, <5>1, <5>4
          <6> QED
            BY <2>4, <5>2, <6>1, <6>2
        <5> QED
          BY <5>3, <5>4
      <4>7. IsUpTo(g, m + 1)
        BY <4>3, <4>5, <4>6
      <4> QED
        BY <4>7
    <3> QED
      BY <2>1, <3>1, <3>2
  <2>6. m + 1 \in Nat
    BY <2>1
  <2> HIDE DEF IsUpTo
  <2> QED
    BY <1>0, <2>5, <2>6
<1>3. Lengths \in SUBSET Nat
  BY DEF Lengths
<1>4. 0 \in Lengths
  <2> HIDE DEF IsUpTo
  <2> QED
    BY <1>0, <1>1
<1>5. N \in Lengths
  BY <1>2, <1>3, <1>4, SetInduction
<1>6. PICK f : IsUpTo(f, N)
  BY <1>0, <1>5, Zenon
<1>7. Follows(f, N, S, s0, G)
  BY <1>6 DEF Follows
<1> QED
  BY <1>7

------------------------------------------------------------------------

LEMMA SumsSteps ==
  ASSUME NEW n \in Nat, NEW f \in [1..n -> Int]
  PROVE  /\ Sums(f, n) \in [0..n -> Int] /\ Sums(f, n)[0] = 0
         /\ \A i \in 1..n : Sums(f, n)[i] = f[i] + Sums(f, n)[i - 1]
<1> DEFINE G == [p \in (1..n) \X Int |-> f[p[1]] + p[2]]
<1>1. G \in [(1..n) \X Int -> Int]
  OBVIOUS
<1>2. \A i \in 1..n, x \in Int : G[<<i, x>>] = f[i] + x
  OBVIOUS
<1> HIDE DEF G
<1>3. PICK g : Follows(g, n, Int, 0, G)
  <2> DEFINE S == Int
  <2>1. 0 \in S /\ G \in [(1..n) \X S -> S]
    BY <1>1
  <2> HIDE DEF S
  <2>2. \E g : Follows(g, n, S, 0, G)
    BY <2>1, RecursionExists
  <2> QED
    BY <2>2 DEF S
<1>4. g \in [0..n -> Int] /\ g[0] = 0 /\ \A i \in 1..n : g[i] = G[<<i, g[i - 1]>>]
  BY <1>3, Zenon DEF Follows
<1>5. \A i \in 1..n : i - 1 \in 0..n /\ i \in 0..n /\ i # 0
  OBVIOUS
<1>6. \A i \in 1..n : g[i] = f[i] + g[i - 1]
  BY <1>2, <1>4, <1>5
<1> DEFINE Value(r) == [i \in 0..n |-> IF i = 0 THEN 0 ELSE f[i] + r[i - 1]]
<1>7. g = Value(g)
  <2>1. \A i \in 0..n : g[i] = Value(g)[i]
    BY <1>4, <1>6
  <2> QED
    BY <1>4, <2>1
<1>8. Sums(f, n) = CHOOSE r : r = Value(r)
  BY DEF Sums
<1> DEFINE r == Sums(f, n)
<1>9. r = Value(r)
  <2> HIDE DEF Value
  <2> QED
    BY <1>7, <1>8
<1> HIDE DEF r
<1>10. \A i \in 0..n : r[i] = IF i = 0 THEN 0 ELSE f[i] + r[i - 1]
  BY <1>9
<1>11. r[0] = 0 /\ \A i \in 1..n : r[i] = f[i] + r[i - 1]
  BY <1>5, <1>10
<1>12. \A i \in 0..n : r[i] = g[i]
  <2> DEFINE Same == {i \in Nat : i \in 0..n => r[i] = g[i]}
  <2>1. 0 \in Same
    BY <1>4, <1>11
  <2>2. ASSUME NEW i \in Same PROVE i + 1 \in Same
    <3> SUFFICES ASSUME i + 1 \in 0..n PROVE r[i + 1] = g[i + 1]
      OBVIOUS
    <3>1. i \in Nat /\ i + 1 \in 1..n /\ (i + 1) - 1 = i /\ i \in 0..n
      OBVIOUS
    <3>2. r[i] = g[i]
      BY <3>1
    <3>3. r[i + 1] = f[i + 1] + r[i] /\ g[i + 1] = f[i + 1] + g[i]
      BY <1>6, <1>11, <3>1
    <3> QED
      BY <3>2, <3>3
  <2>3. Same = Nat
    <3> HIDE DEF Same
    <3>1. Same \in SUBSET Nat
      BY DEF Same
    <3> QED
      BY <2>1, <2>2, <3>1, SetInduction
  <2> QED
    BY <2>3
<1>13. r \in [0..n -> Int]
  <2>1. DOMAIN r = 0..n /\ r = [i \in 0..n |-> r[i]]
    BY <1>9
  <2> QED
    BY <1>4, <1>12, <2>1
<1> QED
  BY <1>11, <1>13 DEF r

\* The sum of amounts.
LEMMA SumsBound ==
  ASSUME NEW n \in Nat, NEW f \in [1..n -> Nat]
  PROVE  /\ Sums(f, n)[n] \in Nat
         /\ (\A i \in 1..n : f[i] = 0) => Sums(f, n)[n] = 0
<1> DEFINE sums == Sums(f, n)
           Bound == {i \in Nat : i \in 0..n =>
                       sums[i] \in Nat /\ ((\A k \in 1..n : f[k] = 0) => sums[i] = 0)}
<1>1. sums[0] = 0 /\ \A i \in 1..n : sums[i] = f[i] + sums[i - 1]
  <2>1. f \in [1..n -> Int]
    OBVIOUS
  <2> QED
    BY <2>1, SumsSteps
<1> HIDE DEF sums
<1>2. 0 \in Bound
  BY <1>1
<1>3. ASSUME NEW i \in Bound PROVE i + 1 \in Bound
  <2> SUFFICES ASSUME i + 1 \in 0..n
               PROVE  sums[i + 1] \in Nat /\ ((\A k \in 1..n : f[k] = 0) => sums[i + 1] = 0)
    OBVIOUS
  <2>1. i \in Nat /\ i + 1 \in 1..n /\ (i + 1) - 1 = i /\ i \in 0..n
    OBVIOUS
  <2>2. sums[i + 1] = f[i + 1] + sums[i] /\ f[i + 1] \in Nat
    BY <1>1, <2>1
  <2> QED
    BY <2>1, <2>2
<1>4. Bound = Nat
  <2> HIDE DEF Bound
  <2>1. Bound \in SUBSET Nat
    BY DEF Bound
  <2> QED
    BY <1>2, <1>3, <2>1, SetInduction
<1>5. n \in 0..n
  OBVIOUS
<1> QED
  BY <1>4, <1>5 DEF sums

\* When one amount changes, the sum changes as it does.
LEMMA SumsChange ==
  ASSUME NEW n \in Nat, NEW f \in [1..n -> Int], NEW k \in 1..n, NEW x \in Int
  PROVE  Sums([f EXCEPT ![k] = x], n)[n] = Sums(f, n)[n] - f[k] + x
<1> DEFINE g == [f EXCEPT ![k] = x]
           old == Sums(f, n)
           new == Sums(g, n)
           Right == {i \in Nat : i \in 0..n =>
                       new[i] = IF i < k THEN old[i] ELSE old[i] - f[k] + x}
<1>1. g \in [1..n -> Int] /\ g[k] = x /\ \A i \in 1..n : i # k => g[i] = f[i]
  OBVIOUS
<1> HIDE DEF g
<1>2. /\ old \in [0..n -> Int] /\ new \in [0..n -> Int]
      /\ old[0] = 0 /\ \A i \in 1..n : old[i] = f[i] + old[i - 1]
      /\ new[0] = 0 /\ \A i \in 1..n : new[i] = g[i] + new[i - 1]
  BY <1>1, SumsSteps
<1> HIDE DEF old, new
<1>3. 0 \in Right
  BY <1>2
<1>4. ASSUME NEW i \in Right PROVE i + 1 \in Right
  <2> SUFFICES ASSUME i + 1 \in 0..n
               PROVE  new[i + 1] = IF i + 1 < k THEN old[i + 1] ELSE old[i + 1] - f[k] + x
    OBVIOUS
  <2>1. i \in Nat /\ i + 1 \in 1..n /\ (i + 1) - 1 = i /\ i \in 0..n
    OBVIOUS
  <2>2. /\ new[i + 1] = g[i + 1] + new[i] /\ old[i + 1] = f[i + 1] + old[i]
        /\ f[i + 1] \in Int /\ f[k] \in Int /\ old[i] \in Int
    BY <1>2, <2>1
  <2>3. new[i] = IF i < k THEN old[i] ELSE old[i] - f[k] + x
    BY <2>1
  <2>4. CASE i + 1 < k
    <3>1. i < k /\ g[i + 1] = f[i + 1]
      BY <1>1, <2>1, <2>4
    <3> QED
      BY <2>2, <2>3, <2>4, <3>1
  <2>5. CASE i + 1 = k
    <3>1. i < k /\ g[i + 1] = x /\ f[i + 1] = f[k]
      BY <1>1, <2>1, <2>5
    <3>2. new[i + 1] = old[i + 1] - f[k] + x
      BY <2>2, <2>3, <3>1
    <3> QED
      BY <2>1, <2>5, <3>2
  <2>6. CASE i + 1 > k
    <3>1. ~ (i < k) /\ g[i + 1] = f[i + 1] /\ ~ (i + 1 < k)
      BY <1>1, <2>1, <2>6
    <3> QED
      BY <2>2, <2>3, <3>1
  <2> QED
    BY <2>1, <2>4, <2>5, <2>6
<1>5. Right = Nat
  <2> HIDE DEF Right
  <2>1. Right \in SUBSET Nat
    BY DEF Right
  <2> QED
    BY <1>3, <1>4, <2>1, SetInduction
<1>6. n \in 0..n /\ ~ (n < k)
  OBVIOUS
<1> QED
  BY <1>5, <1>6 DEF old, new, g

-----------------------------------------------------------------------------
(* What is noted and what is free.                                         *)

LEMMA NotedFacts ==
  ASSUME jobs \in [Jobs -> Round], NEW delta \in Int, NEW j \in Jobs
  PROVE  LET next == Noted(jobs, delta)[j]
         IN  /\ next \in Round
             /\ next.at = jobs[j].at /\ next.strategy = jobs[j].strategy
             /\ next.credentials = jobs[j].credentials /\ next.checked = jobs[j].checked
             /\ next.available = jobs[j].available /\ next.todo = jobs[j].todo
             /\ ~IsUnderWay(jobs[j]) => next = jobs[j]
             /\ ~next.left => ~jobs[j].left /\ (IsUnderWay(jobs[j]) => ~ (delta < 0))
             /\ ~next.came => ~jobs[j].came /\ (IsUnderWay(jobs[j]) => ~ (delta > 0))
<1>1. PICK job : job = jobs[j]
  OBVIOUS
<1>2. PICK came \in BOOLEAN, left \in BOOLEAN :
        (came <=> job.came \/ delta > 0) /\ (left <=> job.left \/ delta < 0)
  <2>1. (job.came \/ delta > 0) \in BOOLEAN /\ (job.left \/ delta < 0) \in BOOLEAN
    OBVIOUS
  <2> QED
    BY <2>1, Zenon
<1>3. job \in Round
  BY <1>1
<1>4. CASE job.at \in {"none", "queued"}
  <2>1. Noted(jobs, delta)[j] = job
    BY <1>1, <1>4 DEF Noted
  <2>2. ~IsUnderWay(job)
    BY <1>4 DEF IsUnderWay
  <2> QED
    BY <1>1, <1>3, <2>1, <2>2
<1>5. CASE job.at \notin {"none", "queued"}
  <2>1. Noted(jobs, delta)[j] = [job EXCEPT !.came = @ \/ delta > 0, !.left = @ \/ delta < 0]
    BY <1>1, <1>5, Zenon DEF Noted
  <2>2. (job.came \/ delta > 0) = came /\ (job.left \/ delta < 0) = left
    BY <1>2, Zenon
  <2>3. Noted(jobs, delta)[j] = [job EXCEPT !.came = came, !.left = left]
    BY <1>3, <2>1, <2>2 DEF Round
  <2>4. IsUnderWay(job)
    BY <1>3, <1>5 DEF IsUnderWay, Round
  <2>5. PICK next : next = [job EXCEPT !.came = came, !.left = left]
    OBVIOUS
  <2>6. /\ next \in Round /\ next.at = job.at /\ next.strategy = job.strategy
        /\ next.credentials = job.credentials /\ next.checked = job.checked
        /\ next.available = job.available /\ next.todo = job.todo
        /\ next.came = came /\ next.left = left
    BY <1>2, <1>3, <2>5 DEF Round
  <2> QED
    BY <1>1, <1>2, <2>3, <2>4, <2>5, <2>6
<1> QED
  BY <1>4, <1>5

\* A job that has noted what came or left still knows what is free.
LEMMA KnowsOfNoted ==
  ASSUME MoneyOK, NEW delta \in Int, free' = free + delta, free' \in 0..Total, NEW j \in Jobs
  PROVE  LET next == Noted(jobs, delta)[j]
         IN  IsUnderWay(next) =>
               /\ next.strategy \in Strategies
               /\ ~next.left => next.available <= free'
               /\ ~next.came => free' <= next.available
<1>1. jobs \in [Jobs -> Round] /\ free \in Int /\ free' \in Int
  BY DEF MoneyOK, FundingTypeOK
<1>2. PICK job, next : job = jobs[j] /\ next = Noted(jobs, delta)[j]
  OBVIOUS
<1>3. /\ next.at = job.at /\ next.strategy = job.strategy /\ next.available = job.available
      /\ ~next.left => ~job.left /\ (IsUnderWay(job) => ~ (delta < 0))
      /\ ~next.came => ~job.came /\ (IsUnderWay(job) => ~ (delta > 0))
      /\ next \in Round
  BY <1>1, <1>2, NotedFacts
<1>4. WalletOK(job)
  BY <1>2 DEF MoneyOK
<1>5. next.available \in Int
  BY <1>3 DEF Round
<1>6. IsUnderWay(next) =>
        /\ next.strategy \in Strategies
        /\ ~next.left => next.available <= free'
        /\ ~next.came => free' <= next.available
  BY <1>1, <1>3, <1>4, <1>5 DEF WalletOK, IsUnderWay
<1> QED
  BY <1>2, <1>6

\* Of the job alone.
LEMMA JobKeepsInv ==
  ASSUME MoneyOK, NEW j \in Jobs, NEW next \in Round, jobs' = [jobs EXCEPT ![j] = next],
         next.at = "none" \/ IsComplete,
         UNCHANGED <<config, account>>, faults' \in 0..MaxFaults,
         WalletOK(next), next.checked => MayWrite(next.credentials)
  PROVE  MoneyOK'
<1>1. jobs \in [Jobs -> Round] /\ free' = free /\ offers' = offers /\ config' = config
  BY DEF MoneyOK, FundingTypeOK, account
<1>2. jobs'[j] = next /\ \A i \in Jobs : i # j => jobs'[i] = jobs[i]
  BY <1>1
<1>3. FundingTypeOK'
  BY <1>1 DEF MoneyOK, FundingTypeOK
<1>4. Outside' >= 0
  BY <1>1 DEF MoneyOK, Outside
<1>5. ASSUME NEW i \in Jobs PROVE WalletOK(jobs[i])'
  <2>1. WalletOK(jobs'[i])
    BY <1>2 DEF MoneyOK
  <2> QED
    BY <1>1, <2>1 DEF WalletOK, IsUnderWay
<1>6. ConfigOK'
  BY <1>1, <1>2 DEF MoneyOK, ConfigOK, MayWrite, IsSigned, IsFree, IsComplete
<1> QED
  BY <1>3, <1>4, <1>5, <1>6 DEF MoneyOK

\* A job that is not under way knows nothing.
LEMMA EmptyRound ==
  ASSUME NEW at \in {"none", "queued"}, MoneyOK
  PROVE  Job(at) \in Round /\ WalletOK(Job(at)) /\ ~Job(at).checked
<1>1. Total \in Nat
  BY FundingAssumption
<1> QED
  BY <1>1 DEF Job, Round, WalletOK, IsUnderWay

\* g is f without its k-th amount.
IsWithout(g, f, n, k) ==
  n \in Nat /\ f \in [1..n -> Nat] /\ k \in 1..n /\ g = [f EXCEPT ![k] = 0]

LEMMA SumWithout ==
  ASSUME NEW n, NEW f, NEW k, NEW g, IsWithout(g, f, n, k)
  PROVE  /\ g \in [1..n -> Nat] /\ f[k] <= Sums(f, n)[n]
         /\ Sums(g, n)[n] = Sums(f, n)[n] - f[k]
<1>1. /\ n \in Nat /\ f \in [1..n -> Nat] /\ f \in [1..n -> Int] /\ k \in 1..n
      /\ g = [f EXCEPT ![k] = 0] /\ f[k] \in Nat /\ g \in [1..n -> Nat] /\ 0 \in Int
  BY DEF IsWithout
<1>2. Sums(g, n)[n] = Sums(f, n)[n] - f[k] + 0
  BY <1>1, SumsChange
<1>3. Sums(f, n)[n] \in Nat /\ Sums(g, n)[n] \in Nat
  BY <1>1, SumsBound
<1> QED
  BY <1>1, <1>2, <1>3

\* What is in the account.
LEMMA AccountFacts ==
  ASSUME MoneyOK
  PROVE  /\ MaxOffers \in Nat /\ Total \in Nat /\ free \in Nat
         /\ offers \in [1..MaxOffers -> Nat]
         /\ Sums(offers, MaxOffers)[MaxOffers] \in Nat
         /\ free + Sums(offers, MaxOffers)[MaxOffers] <= Total
<1>1. MaxOffers \in Nat /\ Total \in Nat
  BY FundingAssumption
<1>2. free \in Nat /\ offers \in [1..MaxOffers -> Nat]
  BY <1>1 DEF MoneyOK, FundingTypeOK
<1>3. Sums(offers, MaxOffers)[MaxOffers] \in Nat
  BY <1>1, <1>2, SumsBound
<1>4. Total - free - Sums(offers, MaxOffers)[MaxOffers] >= 0
  BY DEF MoneyOK, Outside
<1> QED
  BY <1>1, <1>2, <1>3, <1>4

\* Money that moves.
LEMMA MoneyKeepsInv ==
  ASSUME MoneyOK, free' \in Nat, UNCHANGED <<config, faults>>,
         offers' \in [1..MaxOffers -> Nat],
         free' + Sums(offers', MaxOffers)[MaxOffers] <= Total,
         jobs' \in [Jobs -> Round], \A j \in Jobs : WalletOK(jobs[j])',
         \A j \in Jobs : /\ jobs'[j].at = jobs[j].at /\ jobs'[j].checked = jobs[j].checked
                         /\ jobs'[j].credentials = jobs[j].credentials
  PROVE  MoneyOK'
<1>1. MaxOffers \in Nat /\ Total \in Nat
  BY FundingAssumption
<1>2. PICK sum : sum = Sums(offers', MaxOffers)[MaxOffers]
  OBVIOUS
<1>3. sum \in Nat /\ \A o \in 1..MaxOffers : offers'[o] <= sum
  <2>1. sum \in Nat
    BY <1>1, <1>2, SumsBound
  <2>2. ASSUME NEW o \in 1..MaxOffers PROVE offers'[o] <= sum
    <3>1. PICK n, f, g : n = MaxOffers /\ f = offers' /\ g = [offers' EXCEPT ![o] = 0]
      OBVIOUS
    <3>2. IsWithout(g, f, n, o)
      BY <1>1, <3>1 DEF IsWithout
    <3>3. f[o] <= Sums(f, n)[n]
      BY <3>2, SumWithout
    <3> QED
      BY <1>2, <3>1, <3>3
  <2> QED
    BY <2>1, <2>2
<1>4. free' \in 0..Total
  BY <1>1, <1>2, <1>3
<1>5. offers' \in [1..MaxOffers -> 0..Total]
  <2>1. \A o \in 1..MaxOffers : offers'[o] \in 0..Total
    BY <1>1, <1>2, <1>3
  <2> QED
    BY <2>1
<1>6. FundingTypeOK'
  BY <1>4, <1>5 DEF MoneyOK, FundingTypeOK
<1>7. Outside' >= 0
  BY <1>1, <1>2, <1>3, <1>4 DEF Outside
<1>8. ConfigOK'
  BY DEF MoneyOK, ConfigOK, MayWrite, IsSigned, IsFree, IsComplete
<1> QED
  BY <1>6, <1>7, <1>8 DEF MoneyOK

-----------------------------------------------------------------------------
(* The invariant.                                                          *)

LEMMA InitFunding == FundingInit => MoneyOK
<1> SUFFICES ASSUME FundingInit PROVE MoneyOK
  OBVIOUS
<1>1. MaxOffers \in Nat /\ Total \in Nat /\ MaxFaults \in Nat
  BY FundingAssumption
<1>2. Sums(offers, MaxOffers)[MaxOffers] = 0
  <2>1. offers \in [1..MaxOffers -> Nat] /\ \A o \in 1..MaxOffers : offers[o] = 0
    BY DEF FundingInit
  <2> QED
    BY <1>1, <2>1, SumsBound
<1>3. Job("none") \in Round /\ ~Job("none").checked /\ ~IsUnderWay(Job("none"))
  BY <1>1 DEF Job, Round, IsUnderWay
<1>4. FundingTypeOK
  BY <1>1, <1>3 DEF FundingInit, FundingTypeOK, Config, Unconfigured
<1>5. Outside >= 0
  BY <1>1, <1>2 DEF Outside, FundingInit
<1>6. \A j \in Jobs : WalletOK(jobs[j])
  BY <1>3 DEF FundingInit, WalletOK
<1>7. ConfigOK
  <2>1. Job("none").at = "none"
    BY DEF Job
  <2> QED
    BY <1>3, <2>1 DEF FundingInit, ConfigOK, Unconfigured, IsFree
<1> QED
  BY <1>4, <1>5, <1>6, <1>7 DEF MoneyOK

\* An offer goes.
LEMMA OfferGoes ==
  ASSUME MoneyOK, NEW o \in 1..MaxOffers, offers' = [offers EXCEPT ![o] = 0]
  PROVE  /\ offers' \in [1..MaxOffers -> Nat] /\ offers[o] \in Nat
         /\ Sums(offers', MaxOffers)[MaxOffers] = Sums(offers, MaxOffers)[MaxOffers] - offers[o]
<1>1. PICK n, f, g : n = MaxOffers /\ f = offers /\ g = offers'
  OBVIOUS
<1>2. n \in Nat /\ f \in [1..n -> Nat] /\ o \in 1..n /\ g = [f EXCEPT ![o] = 0]
  BY <1>1, AccountFacts
<1>3. g \in [1..n -> Nat] /\ Sums(g, n)[n] = Sums(f, n)[n] - f[o]
  <2>1. IsWithout(g, f, n, o)
    BY <1>2 DEF IsWithout
  <2> QED
    BY <2>1, SumWithout
<1>4. f[o] \in Nat
  BY <1>2
<1> QED
  BY <1>1, <1>3, <1>4

LEMMA TakeKeepsInv ==
  ASSUME MoneyOK, NEW o \in Open, Take(o)
  PROVE  MoneyOK'
<1>1. o \in 1..MaxOffers /\ free' = free /\ jobs' = jobs /\ UNCHANGED <<config, faults>>
  BY DEF Take, Open
<1>2. /\ offers' \in [1..MaxOffers -> Nat]
      /\ Sums(offers', MaxOffers)[MaxOffers] = Sums(offers, MaxOffers)[MaxOffers] - offers[o]
  BY <1>1, OfferGoes DEF Take
<1>3. offers[o] \in Nat
  BY <1>1, AccountFacts
<1>4. free' + Sums(offers', MaxOffers)[MaxOffers] <= Total
  BY <1>1, <1>2, <1>3, AccountFacts
<1>5. \A j \in Jobs : WalletOK(jobs[j])'
  BY <1>1 DEF MoneyOK, WalletOK, IsUnderWay
<1> QED
  BY <1>1, <1>2, <1>4, <1>5, AccountFacts, MoneyKeepsInv DEF MoneyOK, FundingTypeOK

\* Money comes into the wallet or leaves it, and nothing else happens.
LEMMA WalletKeepsInv ==
  ASSUME MoneyOK, NEW delta \in Int, free' = free + delta, free' \in Nat,
         UNCHANGED <<config, faults>>, offers' \in [1..MaxOffers -> Nat],
         free' + Sums(offers', MaxOffers)[MaxOffers] <= Total, jobs' = Noted(jobs, delta)
  PROVE  MoneyOK'
<1>1. jobs \in [Jobs -> Round]
  BY DEF MoneyOK, FundingTypeOK
<1>2. jobs' = [j \in Jobs |-> jobs'[j]]
  BY DEF Noted
<1>3. \A j \in Jobs : /\ jobs'[j] \in Round /\ jobs'[j].at = jobs[j].at
                      /\ jobs'[j].checked = jobs[j].checked
                      /\ jobs'[j].credentials = jobs[j].credentials
  BY <1>1, NotedFacts
<1>4. Sums(offers', MaxOffers)[MaxOffers] \in Nat /\ Total \in Nat
  BY AccountFacts, SumsBound
<1>5. free' \in 0..Total
  BY <1>4
<1>6. \A j \in Jobs : WalletOK(jobs[j])'
  BY <1>5, KnowsOfNoted DEF WalletOK
<1> QED
  BY <1>2, <1>3, <1>6, MoneyKeepsInv

LEMMA ComesInKeepsInv == ASSUME MoneyOK, ComesIn PROVE MoneyOK'
<1>1. PICK delta : delta = Outside
  OBVIOUS
<1>2. /\ delta = Total - free - Sums(offers, MaxOffers)[MaxOffers] /\ free' = free + delta
      /\ offers' = offers /\ jobs' = Noted(jobs, delta) /\ UNCHANGED <<config, faults>>
  BY <1>1 DEF ComesIn, Outside
<1>3. /\ delta \in Int /\ free' \in Nat
      /\ free' + Sums(offers', MaxOffers)[MaxOffers] <= Total
  BY <1>2, AccountFacts
<1> QED
  BY <1>2, <1>3, AccountFacts, WalletKeepsInv

LEMMA WithdrawKeepsInv == ASSUME MoneyOK, Withdraw PROVE MoneyOK'
<1>1. PICK delta : delta = -free
  OBVIOUS
<1>2. /\ offers' = offers /\ jobs' = Noted(jobs, delta) /\ UNCHANGED <<config, faults>>
      /\ free' = 0
  BY <1>1 DEF Withdraw
<1>3. /\ delta \in Int /\ free' = free + delta /\ free' \in Nat
      /\ free' + Sums(offers', MaxOffers)[MaxOffers] <= Total
  BY <1>1, <1>2, AccountFacts
<1> QED
  BY <1>2, <1>3, AccountFacts, WalletKeepsInv

LEMMA CancelFundingOfferKeepsInv ==
  ASSUME MoneyOK, NEW o \in Open, CancelFundingOffer(o)
  PROVE  MoneyOK'
<1>1. PICK delta : delta = offers[o]
  OBVIOUS
<1>2. /\ o \in 1..MaxOffers /\ offers' = [offers EXCEPT ![o] = 0] /\ free' = free + delta
      /\ jobs' = Noted(jobs, delta) /\ UNCHANGED <<config, faults>>
  BY <1>1 DEF CancelFundingOffer, Open
<1>3. /\ offers' \in [1..MaxOffers -> Nat] /\ delta \in Nat
      /\ Sums(offers', MaxOffers)[MaxOffers] = Sums(offers, MaxOffers)[MaxOffers] - delta
  BY <1>1, <1>2, OfferGoes
<1>4. free' \in Nat /\ free' + Sums(offers', MaxOffers)[MaxOffers] <= Total /\ delta \in Int
  BY <1>2, <1>3, AccountFacts
<1> QED
  BY <1>2, <1>3, <1>4, WalletKeepsInv

LEMMA ConfigKeepsInv == ASSUME MoneyOK, UpdateBitfinexConfig PROVE MoneyOK'
<1>1. PICK p \in Patches : Permitted(p) /\ config' = Patched(p)
  BY DEF UpdateBitfinexConfig
<1>2. /\ free' = free /\ offers' = offers /\ jobs' = jobs /\ faults' = faults
  BY DEF UpdateBitfinexConfig, account
<1>3. /\ config \in Config /\ None \notin Keys
      /\ p \in [key : Keys \cup {None}, secret : Keys \cup {None}, strategy : Strategies \cup {None}]
  BY FundingAssumption DEF MoneyOK, FundingTypeOK
<1>4. config' \in Config
  <2>1. PICK checked \in BOOLEAN :
          checked <=> IF p.key = None /\ p.secret = None THEN config.checked
                      ELSE p.key # None /\ p.secret # None
    <3>1. config.checked \in BOOLEAN /\ (p.key # None /\ p.secret # None) \in BOOLEAN
      BY <1>3 DEF Config
    <3> QED
      BY <3>1
  <2> QED
    BY <1>1, <1>3 DEF Patched, Config, Given
<1>5. config'.checked => MayWrite(<<config'.key, config'.secret>>)
  <2>1. CASE p.key = None /\ p.secret = None
    BY <1>1, <2>1 DEF Patched, Given, MoneyOK, ConfigOK
  <2>2. CASE ~ (p.key = None /\ p.secret = None)
    BY <1>1, <2>2 DEF Patched, Given, Permitted
  <2> QED
    BY <2>1, <2>2
<1>6. FundingTypeOK' /\ Outside' >= 0
  BY <1>2, <1>4 DEF MoneyOK, FundingTypeOK, Outside
<1>7. \A j \in Jobs : WalletOK(jobs[j])'
  BY <1>2 DEF MoneyOK, WalletOK, IsUnderWay
<1>8. ConfigOK'
  <2>1. IsComplete => IsComplete'
    BY <1>1 DEF IsComplete, Patched, Given
  <2> QED
    BY <1>2, <1>5, <2>1 DEF MoneyOK, ConfigOK, MayWrite, IsSigned, IsFree
<1> QED
  BY <1>6, <1>7, <1>8 DEF MoneyOK

-----------------------------------------------------------------------------
(* Jobs.                                                                   *)

LEMMA JobEndsKeepsInv ==
  ASSUME MoneyOK, NEW j \in Jobs, NEW at \in {"none", "queued"},
         jobs' = [jobs EXCEPT ![j] = Job(at)], at = "none" \/ ~IsFree(j) \/ IsComplete,
         UNCHANGED <<config, account>>, faults' \in 0..MaxFaults
  PROVE  MoneyOK'
<1>1. Job(at) \in Round /\ WalletOK(Job(at)) /\ ~Job(at).checked /\ Job(at).at = at
  BY EmptyRound DEF Job
<1>2. at = "none" \/ IsComplete
  BY DEF MoneyOK, ConfigOK
<1> QED
  BY <1>1, <1>2, JobKeepsInv

LEMMA BeginKeepsInv == ASSUME MoneyOK, NEW j \in Jobs, Begin(j) PROVE MoneyOK'
<1>1. UNCHANGED <<config, account>> /\ faults' = faults /\ faults' \in 0..MaxFaults
  BY DEF Begin, MoneyOK, FundingTypeOK
<1>2. PICK ends : ends <=> ~config.strategy.enabled \/ ~IsSigned(<<config.key, config.secret>>)
  OBVIOUS
<1>3. CASE ends
  <2>1. jobs' = [jobs EXCEPT ![j] = Job("none")]
    BY <1>2, <1>3 DEF Begin
  <2> QED
    BY <1>1, <2>1, JobEndsKeepsInv
<1>4. CASE ~ends
  <2>1. PICK next :
          next = [jobs[j] EXCEPT !.at = "list", !.strategy = config.strategy,
                    !.credentials = <<config.key, config.secret>>,
                    !.checked = config.checked, !.available = free]
    OBVIOUS
  <2>2. jobs' = [jobs EXCEPT ![j] = next]
    BY <1>2, <1>4, <2>1 DEF Begin
  <2>3. jobs[j] \in Round /\ config \in Config /\ free \in 0..Total /\ IsComplete
    <3>1. ~IsFree(j)
      BY DEF Begin, IsFree
    <3> QED
      BY <3>1 DEF MoneyOK, FundingTypeOK, ConfigOK
  <2>4. /\ next \in Round /\ next.strategy = config.strategy /\ next.available = free
        /\ next.checked = config.checked /\ next.credentials = <<config.key, config.secret>>
    BY <2>1, <2>3 DEF Round, Config
  <2>5. WalletOK(next)
    BY <2>3, <2>4 DEF WalletOK, IsComplete, Config
  <2>6. next.checked => MayWrite(next.credentials)
    BY <2>4 DEF MoneyOK, ConfigOK
  <2> QED
    BY <1>1, <2>2, <2>3, <2>4, <2>5, <2>6, JobKeepsInv
<1> QED
  BY <1>3, <1>4

LEMMA ListOffersKeepsInv == ASSUME MoneyOK, NEW j \in Jobs, ListOffers(j) PROVE MoneyOK'
<1>1. PICK next : next = [jobs[j] EXCEPT !.at = "work", !.todo = Open]
  OBVIOUS
<1>2. /\ jobs' = [jobs EXCEPT ![j] = next] /\ UNCHANGED <<config, account>> /\ faults' \in 0..MaxFaults
      /\ jobs[j].at = "list"
  BY <1>1 DEF ListOffers, MoneyOK, FundingTypeOK, account
<1>3. jobs[j] \in Round /\ WalletOK(jobs[j]) /\ IsComplete
  BY <1>2 DEF MoneyOK, FundingTypeOK, ConfigOK, IsFree
<1>4. /\ next \in Round /\ next.strategy = jobs[j].strategy /\ next.available = jobs[j].available
      /\ next.checked = jobs[j].checked /\ next.credentials = jobs[j].credentials
      /\ next.left = jobs[j].left /\ next.came = jobs[j].came
  BY <1>1, <1>3 DEF Round, Open
<1>5. WalletOK(next)
  BY <1>2, <1>3, <1>4 DEF WalletOK, IsUnderWay
<1>6. next.checked => MayWrite(next.credentials)
  BY <1>4 DEF MoneyOK, ConfigOK
<1> QED
  BY <1>2, <1>3, <1>4, <1>5, <1>6, JobKeepsInv

LEMMA CancelOfferKeepsInv == ASSUME MoneyOK, NEW j \in Jobs, CancelOffer(j) PROVE MoneyOK'
<1>1. PICK o \in jobs[j].todo \cap Open :
        /\ offers' = [offers EXCEPT ![o] = 0]
        /\ free' = free + offers[o]
        /\ jobs' = [Noted(jobs, offers[o]) EXCEPT ![j].todo = @ \ {o}]
  BY DEF CancelOffer
<1>2. PICK delta : delta = offers[o]
  OBVIOUS
<1>3. PICK noted : noted = Noted(jobs, delta)
  OBVIOUS
<1>4. /\ o \in 1..MaxOffers /\ free' = free + delta /\ jobs' = [noted EXCEPT ![j].todo = @ \ {o}]
      /\ UNCHANGED <<config, faults>> /\ jobs \in [Jobs -> Round]
  BY <1>1, <1>2, <1>3 DEF CancelOffer, Open, MoneyOK, FundingTypeOK
<1>5. /\ offers' \in [1..MaxOffers -> Nat] /\ delta \in Nat
      /\ Sums(offers', MaxOffers)[MaxOffers] = Sums(offers, MaxOffers)[MaxOffers] - delta
  BY <1>1, <1>2, <1>4, OfferGoes
<1>6. /\ free' \in Nat /\ free' + Sums(offers', MaxOffers)[MaxOffers] <= Total /\ delta \in Int
      /\ free' \in 0..Total
  <2>1. Sums(offers', MaxOffers)[MaxOffers] \in Nat
    BY <1>5, AccountFacts, SumsBound
  <2> QED
    BY <1>4, <1>5, <2>1, AccountFacts
<1>7. \A i \in Jobs : /\ noted[i] \in Round /\ noted[i].at = jobs[i].at
                      /\ noted[i].checked = jobs[i].checked
                      /\ noted[i].credentials = jobs[i].credentials
  BY <1>3, <1>4, <1>6, NotedFacts
<1>8. noted \in [Jobs -> Round]
  <2>1. noted = [i \in Jobs |-> noted[i]]
    BY <1>3 DEF Noted
  <2> QED
    BY <1>7, <2>1
<1>9. PICK next : next = [noted[j] EXCEPT !.todo = @ \ {o}]
  OBVIOUS
<1>10. /\ next \in Round /\ next.at = noted[j].at /\ next.checked = noted[j].checked
       /\ next.credentials = noted[j].credentials /\ next.strategy = noted[j].strategy
       /\ next.available = noted[j].available /\ next.left = noted[j].left
       /\ next.came = noted[j].came
  BY <1>8, <1>9 DEF Round
<1>11. jobs' = [noted EXCEPT ![j] = next]
  BY <1>4, <1>8, <1>9
<1>12. /\ jobs' \in [Jobs -> Round]
       /\ jobs'[j] = next /\ \A i \in Jobs : i # j => jobs'[i] = noted[i]
  BY <1>8, <1>10, <1>11
<1>13. \A i \in Jobs : /\ jobs'[i].at = jobs[i].at /\ jobs'[i].checked = jobs[i].checked
                       /\ jobs'[i].credentials = jobs[i].credentials
  BY <1>7, <1>10, <1>12
<1>14. ASSUME NEW i \in Jobs PROVE WalletOK(jobs[i])'
  <2>1. jobs[i] \in Round /\ WalletOK(jobs[i]) /\ free \in Int /\ free' \in Int
    BY <1>4, <1>6, AccountFacts DEF MoneyOK
  <2>2. /\ jobs'[i].at = noted[i].at /\ jobs'[i].strategy = noted[i].strategy
        /\ jobs'[i].available = noted[i].available
        /\ jobs'[i].left = noted[i].left /\ jobs'[i].came = noted[i].came
    BY <1>10, <1>12
  <2> QED
    BY <1>3, <1>4, <1>6, <2>1, <2>2, KnowsOfNoted DEF WalletOK, IsUnderWay
<1> QED
  BY <1>4, <1>5, <1>6, <1>12, <1>13, <1>14, MoneyKeepsInv

LEMMA SubmitOfferKeepsInv == ASSUME MoneyOK, NEW j \in Jobs, SubmitOffer(j) PROVE MoneyOK'
<1>1. PICK job, amount : job = jobs[j] /\ amount = OfferAmount(jobs[j])
  OBVIOUS
<1>2. PICK id \in NewIds : offers' = [offers EXCEPT ![id] = amount]
  BY <1>1 DEF SubmitOffer
<1>3. PICK delta : delta = -amount
  OBVIOUS
<1>4. PICK noted : noted = Noted(jobs, delta)
  OBVIOUS
<1>5. PICK next : next = [job EXCEPT !.available = AfterOffer(job)]
  OBVIOUS
<1>6. /\ job.at = "work" /\ HasMore(job) /\ IsAccepted(job)
      /\ free' = free - amount /\ UNCHANGED <<config, faults>>
      /\ jobs' = [i \in Jobs |-> IF i = j THEN next ELSE noted[i]]
  BY <1>1, <1>3, <1>4, <1>5 DEF SubmitOffer
<1>7. /\ job \in Round /\ WalletOK(job) /\ jobs \in [Jobs -> Round]
      /\ id \in 1..MaxOffers /\ offers[id] = 0
  BY <1>1 DEF MoneyOK, FundingTypeOK, NewIds, Open
<1>8. /\ job.strategy \in Strategies /\ job.available \in Nat /\ job.strategy.hold \in Nat
      /\ job.strategy.min \in Nat /\ job.strategy.max \in Nat
      /\ ~job.left => job.available <= free
      /\ ~job.came => free <= job.available
  BY <1>6, <1>7, FundingAssumption DEF WalletOK, IsUnderWay, Round
<1>9. /\ amount \in Nat /\ amount <= free /\ amount <= job.available - job.strategy.hold
      /\ AfterOffer(job) = job.available - amount
  <2>1. amount = OfferAmount(job) /\ ExchangeMin \in Nat \ {0} /\ free \in Nat
    BY <1>1, AccountFacts, FundingAssumption
  <2>2. ExchangeMin <= amount /\ amount <= free
    BY <1>6, <2>1 DEF IsAccepted
  <2>3. amount \in Int /\ amount <= job.available - job.strategy.hold
    BY <1>8, <2>1 DEF OfferAmount, Smaller
  <2> QED
    BY <2>1, <2>2, <2>3 DEF AfterOffer
<1>10. /\ offers' \in [1..MaxOffers -> Nat]
       /\ Sums(offers', MaxOffers)[MaxOffers] = Sums(offers, MaxOffers)[MaxOffers] + amount
  <2>1. PICK n, f : n = MaxOffers /\ f = offers
    OBVIOUS
  <2>2. n \in Nat /\ f \in [1..n -> Nat] /\ f \in [1..n -> Int] /\ id \in 1..n /\ amount \in Int
    BY <1>7, <1>9, <2>1, AccountFacts
  <2>3. Sums([f EXCEPT ![id] = amount], n)[n] = Sums(f, n)[n] - f[id] + amount
    BY <2>2, SumsChange
  <2>4. Sums(f, n)[n] \in Nat
    BY <2>2, SumsBound
  <2>5. offers' \in [1..MaxOffers -> Nat]
    BY <1>2, <1>9, <2>1, <2>2
  <2> QED
    BY <1>2, <1>7, <1>9, <2>1, <2>3, <2>4, <2>5
<1>11. /\ free' \in Nat /\ free' + Sums(offers', MaxOffers)[MaxOffers] <= Total /\ delta \in Int
       /\ free' = free + delta /\ free' \in 0..Total
  <2>1. Sums(offers', MaxOffers)[MaxOffers] \in Nat
    BY <1>10, AccountFacts, SumsBound
  <2> QED
    BY <1>3, <1>6, <1>9, <1>10, <2>1, AccountFacts
<1>12. \A i \in Jobs : /\ noted[i] \in Round /\ noted[i].at = jobs[i].at
                       /\ noted[i].checked = jobs[i].checked
                       /\ noted[i].credentials = jobs[i].credentials
  BY <1>4, <1>7, <1>11, NotedFacts
<1>13. /\ next \in Round /\ next.at = job.at /\ next.checked = job.checked
       /\ next.credentials = job.credentials /\ next.strategy = job.strategy
       /\ next.available = job.available - amount /\ next.left = job.left
       /\ next.came = job.came
  <2>1. job.available - amount \in 0..Total
    BY <1>7, <1>8, <1>9, AccountFacts DEF Round
  <2> QED
    BY <1>5, <1>7, <1>9, <2>1 DEF Round
<1>14. /\ jobs' \in [Jobs -> Round] /\ jobs'[j] = next /\ \A i \in Jobs : i # j => jobs'[i] = noted[i]
  BY <1>6, <1>12, <1>13
<1>15. \A i \in Jobs : /\ jobs'[i].at = jobs[i].at /\ jobs'[i].checked = jobs[i].checked
                       /\ jobs'[i].credentials = jobs[i].credentials
  BY <1>1, <1>12, <1>13, <1>14
<1>16. ASSUME NEW i \in Jobs PROVE WalletOK(jobs[i])'
  <2>1. CASE i = j
    <3>1. /\ ~next.left => next.available <= free'
          /\ ~next.came => free' <= next.available
      BY <1>6, <1>8, <1>9, <1>13, AccountFacts
    <3> QED
      BY <1>8, <1>13, <1>14, <2>1, <3>1 DEF WalletOK
  <2>2. CASE i # j
    BY <1>4, <1>11, <1>14, <2>2, KnowsOfNoted DEF WalletOK
  <2> QED
    BY <2>1, <2>2
<1> QED
  BY <1>6, <1>10, <1>11, <1>14, <1>15, <1>16, MoneyKeepsInv

LEMMA FundingNextKeepsInv == MoneyOK /\ [FundingNext]_fundingVars => MoneyOK'
<1> SUFFICES ASSUME MoneyOK, [FundingNext]_fundingVars PROVE MoneyOK'
  OBVIOUS
<1>1. ASSUME NEW o \in Open, Take(o) PROVE MoneyOK'
  BY <1>1, TakeKeepsInv
<1>2. ASSUME NEW o \in Open, CancelFundingOffer(o) PROVE MoneyOK'
  BY <1>2, CancelFundingOfferKeepsInv
<1>3. CASE ComesIn
  BY <1>3, ComesInKeepsInv
<1>4. CASE Withdraw
  BY <1>4, WithdrawKeepsInv
<1>5. CASE UpdateBitfinexConfig
  BY <1>5, ConfigKeepsInv
<1>6. ASSUME NEW j \in Jobs, Publish(j) PROVE MoneyOK'
  <2>1. /\ jobs' = [jobs EXCEPT ![j] = Job("queued")] /\ UNCHANGED <<config, account>> /\ IsComplete
        /\ faults' \in 0..MaxFaults
    BY <1>6 DEF Publish, MoneyOK, FundingTypeOK
  <2> QED
    BY <2>1, JobEndsKeepsInv
<1>7. ASSUME NEW j \in Jobs, Begin(j) PROVE MoneyOK'
  BY <1>7, BeginKeepsInv
<1>8. ASSUME NEW j \in Jobs, ListOffers(j) PROVE MoneyOK'
  BY <1>8, ListOffersKeepsInv
<1>9. ASSUME NEW j \in Jobs, CancelOffer(j) PROVE MoneyOK'
  BY <1>9, CancelOfferKeepsInv
<1>10. ASSUME NEW j \in Jobs, SubmitOffer(j) PROVE MoneyOK'
  BY <1>10, SubmitOfferKeepsInv
<1>11. ASSUME NEW j \in Jobs, EndRound(j) \/ Refused(j) \/ Fail(j) PROVE MoneyOK'
  <2>1. /\ jobs' = [jobs EXCEPT ![j] = Job("none")] /\ UNCHANGED <<config, account>>
        /\ faults' \in 0..MaxFaults
    BY <1>11, FundingAssumption DEF EndRound, Refused, Fail, MoneyOK, FundingTypeOK
  <2> QED
    BY <2>1, JobEndsKeepsInv
<1>12. ASSUME NEW j \in Jobs, Redeliver(j) PROVE MoneyOK'
  <2>1. /\ jobs' = [jobs EXCEPT ![j] = Job("queued")] /\ UNCHANGED <<config, account>>
        /\ faults' \in 0..MaxFaults /\ ~IsFree(j)
    BY <1>12, FundingAssumption DEF Redeliver, MoneyOK, FundingTypeOK, IsFree
  <2> QED
    BY <2>1, JobEndsKeepsInv
<1>13. CASE UNCHANGED fundingVars
  BY <1>13 DEF fundingVars, MoneyOK, FundingTypeOK, Outside, WalletOK, IsUnderWay, ConfigOK,
               IsFree, IsComplete, MayWrite, IsSigned
<1> QED
  BY <1>1, <1>2, <1>3, <1>4, <1>5, <1>6, <1>7, <1>8, <1>9, <1>10, <1>11, <1>12, <1>13
  DEF FundingNext, JobStep

-----------------------------------------------------------------------------
(* Theorems about lending.                                                 *)

\* Whatever jobs run at once, fail and are delivered again, and however end users and
\* borrowers move money meanwhile: money is offered once, and what a job knows of the
\* wallet and of its keys is so, or has a cause it has noted.
LEMMA MoneyInvariance == FundingSpec => []MoneyOK
BY InitFunding, FundingNextKeepsInv, PTL DEF FundingSpec

\* What is to be held is offered only by a job after money has left the wallet that it
\* read before (apply_bitfinex_funding_strategy).
THEOREM HoldIsKept == FundingSpec => HoldBrokenOnlyIfMoneyLeft
<1> DEFINE Held(j) == jobs[j].at = "work" /\ jobs'[j].at = "work" /\ ~jobs'[j].left =>
                        free' >= jobs[j].strategy.hold
<1>1. MoneyOK /\ [FundingNext]_fundingVars =>
        [free' < free /\ offers' # offers => \A j \in Jobs : Held(j)]_fundingVars
  <2> SUFFICES ASSUME MoneyOK, FundingNext, free' < free, offers' # offers, NEW j \in Jobs,
                      jobs[j].at = "work", jobs'[j].at = "work", ~jobs'[j].left
               PROVE  free' >= jobs[j].strategy.hold
    OBVIOUS
  <2>1. PICK i \in Jobs : SubmitOffer(i)
    <3>1. ASSUME NEW o \in Open, Take(o) \/ CancelFundingOffer(o) PROVE FALSE
      <4>1. offers[o] \in Nat /\ (free' = free \/ free' = free + offers[o]) /\ free \in Nat
        BY <3>1, AccountFacts DEF Take, CancelFundingOffer, Open
      <4> QED
        BY <4>1
    <3>2. ~ComesIn /\ ~Withdraw /\ ~UpdateBitfinexConfig
      BY DEF ComesIn, Withdraw, UpdateBitfinexConfig, account
    <3>3. ASSUME NEW i \in Jobs, CancelOffer(i) PROVE FALSE
      <4>1. PICK o \in jobs[i].todo \cap Open : free' = free + offers[o]
        BY <3>3 DEF CancelOffer
      <4>2. offers[o] \in Nat /\ free \in Nat
        BY AccountFacts DEF Open
      <4> QED
        BY <4>1, <4>2
    <3>4. \A i \in Jobs : ~ (Publish(i) \/ Begin(i) \/ ListOffers(i) \/ EndRound(i) \/ Refused(i)
                              \/ Fail(i) \/ Redeliver(i))
      BY DEF Publish, Begin, ListOffers, EndRound, Refused, Fail, Redeliver, account
    <3> QED
      BY <3>1, <3>2, <3>3, <3>4 DEF FundingNext, JobStep
  <2>2. PICK amount : amount = OfferAmount(jobs[i])
    OBVIOUS
  <2>3. /\ jobs[i] \in Round /\ WalletOK(jobs[i]) /\ jobs \in [Jobs -> Round] /\ free \in Nat
        /\ jobs[i].at = "work" /\ IsAccepted(jobs[i]) /\ free' = free - amount
        /\ i # j => jobs'[j] = Noted(jobs, -amount)[j]
        /\ i = j => jobs'[j] = [jobs[j] EXCEPT !.available = AfterOffer(jobs[j])]
    BY <2>1, <2>2, AccountFacts DEF SubmitOffer, MoneyOK, FundingTypeOK
  <2>4. /\ jobs[i].strategy \in Strategies /\ jobs[i].available \in Nat
        /\ jobs[i].strategy.hold \in Nat /\ jobs[i].strategy.max \in Nat
        /\ ~jobs[i].left => jobs[i].available <= free
    BY <2>3, FundingAssumption DEF WalletOK, IsUnderWay, Round
  <2>5. amount \in Nat /\ 0 < amount /\ amount <= jobs[i].available - jobs[i].strategy.hold
    BY <2>2, <2>3, <2>4, FundingAssumption DEF IsAccepted, OfferAmount, Smaller
  <2>6. i = j
    <3> SUFFICES ASSUME i # j PROVE FALSE
      OBVIOUS
    <3>1. PICK delta : delta = -amount
      OBVIOUS
    <3>2. delta \in Int /\ delta < 0
      BY <2>5, <3>1
    <3>3. jobs'[j] = Noted(jobs, delta)[j] /\ IsUnderWay(jobs[j])
      BY <2>3, <3>1 DEF IsUnderWay
    <3> QED
      BY <2>3, <3>2, <3>3, NotedFacts
  <2>7. ~jobs[j].left
    BY <2>3, <2>6 DEF Round
  <2> QED
    BY <2>3, <2>4, <2>5, <2>6, <2>7
<1> QED
  BY <1>1, MoneyInvariance, PTL DEF FundingSpec, HoldBrokenOnlyIfMoneyLeft

\* A round leaves money over that it could have offered only if money came in after the
\* wallet was read, and it is refused only for one of four causes.
THEOREM ShortForCause == FundingSpec => ShortOnlyForCause
<1> DEFINE Idles(j) == jobs[j].at = "work" /\ jobs[j].todo = {} /\ ~HasMore(jobs[j]) /\ jobs'[j].at = "none" =>
             free - jobs[j].strategy.hold < jobs[j].strategy.min \/ jobs[j].came
           Causes(j) == Refused(j) =>
             \/ ~jobs[j].checked \/ jobs[j].left
             \/ \E o \in jobs[j].todo : o \notin Open
             \/ Smaller(jobs[j].strategy.min, jobs[j].strategy.max) < ExchangeMin
<1>1. ASSUME MoneyOK, NEW j \in Jobs PROVE Idles(j) /\ Causes(j)
  <2>1. PICK job : job = jobs[j]
    OBVIOUS
  <2>2. job \in Round /\ WalletOK(job) /\ (job.checked => MayWrite(job.credentials))
    BY <1>1, <2>1 DEF MoneyOK, FundingTypeOK, ConfigOK
  <2>3. job.at = "work" =>
          /\ job.strategy \in Strategies /\ job.available \in Nat /\ job.strategy.hold \in Nat
          /\ job.strategy.min \in Nat /\ job.strategy.max \in Nat
          /\ ~job.left => job.available <= free
          /\ ~job.came => free <= job.available
    BY <2>2, FundingAssumption DEF WalletOK, IsUnderWay, Round
  <2>4. free \in Nat /\ ExchangeMin \in Nat
    BY <1>1, AccountFacts, FundingAssumption
  <2>5. Idles(j)
    BY <2>1, <2>3, <2>4 DEF HasMore
  <2>6. Causes(j)
    <3> SUFFICES ASSUME Refused(j), job.checked, ~job.left, \A o \in job.todo : o \in Open
                 PROVE  Smaller(job.strategy.min, job.strategy.max) < ExchangeMin
      BY <2>1
    <3>1. job.at = "work" /\ HasMore(job) /\ ~IsAccepted(job)
      BY <2>1, <2>2 DEF Refused
    <3>2. /\ ~ (ExchangeMin <= OfferAmount(job) /\ OfferAmount(job) <= free)
          /\ job.available - job.strategy.hold >= job.strategy.min
      BY <2>2, <3>1 DEF IsAccepted, HasMore
    <3> QED
      BY <2>3, <2>4, <3>1, <3>2 DEF OfferAmount, Smaller
  <2> QED
    BY <2>5, <2>6
<1>2. MoneyOK /\ [FundingNext]_fundingVars =>
        [\A j \in Jobs :
           LET job == jobs[j]
           IN  /\ job.at = "work" /\ job.todo = {} /\ ~HasMore(job) /\ jobs'[j].at = "none" =>
                    free - job.strategy.hold < job.strategy.min \/ job.came
               /\ Refused(j) =>
                    \/ ~job.checked \/ job.left
                    \/ \E o \in job.todo : o \notin Open
                    \/ Smaller(job.strategy.min, job.strategy.max) < ExchangeMin]_fundingVars
  BY <1>1
<1> QED
  BY <1>2, MoneyInvariance, PTL DEF FundingSpec, ShortOnlyForCause

-----------------------------------------------------------------------------
(* Rates and periods.                                                      *)

\* The rules an end user starts from are such.
LEMMA DefaultRulesRise ==
  ASSUME Rules = DefaultRules, \A s \in Strategies : s.maxRate <= 2555
  PROVE  RulesRise
BY DEF RulesRise, DefaultRules

\* The first of the largest is found.
LEMMA LargestExists ==
  ASSUME NEW n \in Nat, n # 0, NEW f \in [1..n -> Int]
  PROVE  \E i \in 1..n : \A k \in 1..n : f[k] < f[i] \/ (f[k] = f[i] /\ i <= k)
<1> DEFINE First(i, m) == i \in 1..n /\ i <= m /\
                            \A k \in 1..n : k <= m => f[k] < f[i] \/ (f[k] = f[i] /\ i <= k)
           Found == {m \in Nat : m + 1 <= n => \E i \in Nat : First(i, m + 1)}
<1>1. 0 \in Found
  <2>1. First(1, 1)
    OBVIOUS
  <2> QED
    BY <2>1
<1>2. ASSUME NEW m \in Found PROVE m + 1 \in Found
  <2>1. m \in Nat
    OBVIOUS
  <2> SUFFICES ASSUME (m + 1) + 1 <= n PROVE \E i \in Nat : First(i, (m + 1) + 1)
    BY <2>1
  <2>2. PICK i \in Nat : First(i, m + 1)
    BY <2>1
  <2>3. PICK last : last = (m + 1) + 1
    OBVIOUS
  <2>4. last \in 1..n /\ last \in Nat /\ \A k \in 1..n : k <= last => k <= m + 1 \/ k = last
    BY <2>1, <2>3
  <2>5. f[i] \in Int /\ f[last] \in Int
    BY <2>2, <2>4
  <2>6. CASE f[last] > f[i]
    <3>1. \A k \in 1..n : k <= last => f[k] < f[last] \/ (f[k] = f[last] /\ last <= k)
      BY <2>2, <2>4, <2>5, <2>6
    <3>2. First(last, last)
      BY <2>4, <3>1
    <3> QED
      BY <2>3, <2>4, <3>2
  <2>7. CASE ~ (f[last] > f[i])
    <3>1. i <= last
      BY <2>1, <2>2, <2>3
    <3>2. \A k \in 1..n : k <= last => f[k] < f[i] \/ (f[k] = f[i] /\ i <= k)
      BY <2>2, <2>4, <2>5, <2>7, <3>1
    <3>3. First(i, last)
      BY <2>2, <3>1, <3>2
    <3> QED
      BY <2>2, <2>3, <3>3
  <2> QED
    BY <2>6, <2>7
<1>3. Found = Nat
  <2> HIDE DEF Found
  <2>1. Found \in SUBSET Nat
    BY DEF Found
  <2> QED
    BY <1>1, <1>2, <2>1, SetInduction
<1>4. PICK m \in Nat : m + 1 = n
  <2>1. n - 1 \in Nat /\ (n - 1) + 1 = n
    OBVIOUS
  <2> QED
    BY <2>1
<1>5. m \in Found
  <2> HIDE DEF Found
  <2> QED
    BY <1>3
<1>6. PICK i \in Nat : First(i, m + 1)
  BY <1>4, <1>5
<1>7. \A k \in 1..n : k <= m + 1
  BY <1>4
<1> QED
  BY <1>6, <1>7

LEMMA BeforeLargestFacts ==
  ASSUME NEW book \in Seq(Entry), book # <<>>
  PROVE  BeforeLargest(book) \in DOMAIN book
<1>1. DOMAIN book = 1..Len(book) /\ Len(book) \in Nat /\ Len(book) # 0
  OBVIOUS
<1>2. \A k \in 1..Len(book) : book[k].amount \in Int
  <2>1. \A k \in 1..Len(book) : book[k] \in Entry
    BY <1>1
  <2> QED
    BY <2>1 DEF Entry
<1>3. PICK f : f = [k \in 1..Len(book) |-> book[k].amount]
  OBVIOUS
<1>4. f \in [1..Len(book) -> Int]
  BY <1>2, <1>3
<1>5. \E i \in 1..Len(book) : \A k \in 1..Len(book) : f[k] < f[i] \/ (f[k] = f[i] /\ i <= k)
  BY <1>1, <1>4, LargestExists
<1>6. \E i \in DOMAIN book :
        \A k \in DOMAIN book : book[k].amount < book[i].amount
                               \/ (book[k].amount = book[i].amount /\ i <= k)
  BY <1>1, <1>3, <1>5
<1>7. ArgMaxAskAmount(book) \in DOMAIN book
  BY <1>6 DEF ArgMaxAskAmount
<1> QED
  BY <1>1, <1>7 DEF BeforeLargest, Larger

\* What the window is.
IsWindow(w) == w \in Seq(Int) /\ Len(w) = WindowSize

LEMMA WindowStays ==
  ASSUME NEW w, IsWindow(w), NEW b \in Books
  PROVE  IsWindow(CalculateRecommendedFundingRate(w, b))
<1>1. PICK r0, p1 : r0 = AskSide(b.r0) /\ p1 = AskSide(b.p1)
  OBVIOUS
<1>2. b.r0 \in Seq(Entry) /\ b.p1 \in Seq(Entry) /\ BookLength + 1 \in Nat \ {0}
  BY RatesAssumption
<1>3. r0 \in Seq(Entry) /\ p1 \in Seq(Entry)
  BY <1>1, <1>2, SubSeqProperties DEF AskSide
<1>4. CASE IndexError(r0, p1)
  BY <1>1, <1>4 DEF CalculateRecommendedFundingRate
<1>5. CASE ~IndexError(r0, p1)
  <2>1. PICK rate : rate = BestAskRate(r0, p1)
    OBVIOUS
  <2>2. BeforeLargest(r0) \in DOMAIN r0 /\ BeforeLargest(p1) \in DOMAIN r0
    BY <1>3, <1>5, BeforeLargestFacts DEF IndexError
  <2>3. \A i \in DOMAIN r0 : r0[i].rate \in Int
    <3>1. \A i \in DOMAIN r0 : r0[i] \in Entry
      BY <1>3
    <3> QED
      BY <3>1 DEF Entry
  <2>4. rate \in Int
    BY <2>1, <2>2, <2>3 DEF BestAskRate, Larger
  <2>5. w \in Seq(Int) /\ Len(w) = WindowSize /\ WindowSize \in Nat \ {0} /\ w # <<>>
    BY RatesAssumption DEF IsWindow
  <2>6. Append(Tail(w), rate) \in Seq(Int) /\ Len(Append(Tail(w), rate)) = WindowSize
    BY <2>4, <2>5
  <2> QED
    BY <1>1, <1>5, <2>1, <2>6 DEF CalculateRecommendedFundingRate, IsWindow
<1> QED
  BY <1>4, <1>5

LEMMA WindowsFacts ==
  /\ Updates \in Nat
  /\ Windows[0] = {InitialWindow}
  /\ \A n \in 1..Updates :
       Windows[n] = Windows[n - 1] \cup
                    {CalculateRecommendedFundingRate(w, b) : w \in Windows[n - 1], b \in Books}
<1> DEFINE After(set) == set \cup {CalculateRecommendedFundingRate(w, b) : w \in set, b \in Books}
           S == SUBSET {w \in Seq(Int) : IsWindow(w)}
           G == [p \in (1..Updates) \X S |-> After(p[2])]
<1>1. Updates \in Nat
  BY RatesAssumption
<1>2. {InitialWindow} \in S
  <2>1. InitialWindow \in [1..WindowSize -> Int] /\ WindowSize \in Nat
    BY RatesAssumption DEF InitialWindow
  <2>2. InitialWindow \in Seq(Int) /\ Len(InitialWindow) = WindowSize
    BY <2>1
  <2> QED
    BY <2>2 DEF IsWindow
<1>3. \A set \in S : After(set) \in S
  <2> SUFFICES ASSUME NEW set \in S, NEW w \in After(set) PROVE IsWindow(w) /\ w \in Seq(Int)
    OBVIOUS
  <2>1. CASE w \in set
    BY <2>1
  <2>2. CASE \E v \in set, b \in Books : w = CalculateRecommendedFundingRate(v, b)
    <3>1. IsWindow(w)
      BY <2>2, WindowStays
    <3> QED
      BY <3>1 DEF IsWindow
  <2> QED
    BY <2>1, <2>2
<1>4. G \in [(1..Updates) \X S -> S]
  <2> HIDE DEF S, After
  <2> QED
    BY <1>3
<1>5. \A n \in 1..Updates, set \in S : G[<<n, set>>] = After(set)
  <2> HIDE DEF S, After
  <2> QED
    OBVIOUS
<1> HIDE DEF G, S
<1>6. PICK f : Follows(f, Updates, S, {InitialWindow}, G)
  BY <1>1, <1>2, <1>4, RecursionExists
<1>7. /\ f \in [0..Updates -> S] /\ f[0] = {InitialWindow}
      /\ \A n \in 1..Updates : f[n] = G[<<n, f[n - 1]>>]
  BY <1>6, Zenon DEF Follows
<1>8. \A n \in 1..Updates : f[n] = After(f[n - 1])
  <2> TAKE n \in 1..Updates
  <2>1. n - 1 \in 0..Updates
    BY <1>1
  <2>2. f[n - 1] \in S
    BY <1>7, <2>1
  <2> HIDE DEF After
  <2> QED
    BY <1>5, <1>7, <2>2
<1> DEFINE Value(r) == [n \in 0..Updates |-> IF n = 0 THEN {InitialWindow} ELSE After(r[n - 1])]
<1>9. f = Value(f)
  <2>1. \A n \in 0..Updates : f[n] = Value(f)[n]
    <3> HIDE DEF After
    <3> QED
      BY <1>1, <1>7, <1>8
  <2>2. f = [n \in 0..Updates |-> f[n]] /\ Value(f) = [n \in 0..Updates |-> Value(f)[n]]
    BY <1>7
  <2> HIDE DEF Value
  <2> QED
    BY <2>1, <2>2
<1>10. Windows = CHOOSE r : r = Value(r)
  BY DEF Windows
<1>11. Windows = Value(Windows)
  <2> HIDE DEF Value
  <2> QED
    BY <1>9, <1>10
<1>12. \A n \in 0..Updates : Windows[n] = IF n = 0 THEN {InitialWindow} ELSE After(Windows[n - 1])
  <2> HIDE DEF After
  <2> QED
    BY <1>11
<1>13. 0 \in 0..Updates /\ \A n \in 1..Updates : n \in 0..Updates /\ n # 0
  BY <1>1
<1>14. Windows[0] = {InitialWindow} /\ \A n \in 1..Updates : Windows[n] = After(Windows[n - 1])
  <2> HIDE DEF After
  <2> QED
    BY <1>12, <1>13
<1> QED
  BY <1>1, <1>14

LEMMA AskRatesType == AskRates \subseteq Int
<1> DEFINE Good == {n \in Nat : n \in 0..Updates => \A w \in Windows[n] : IsWindow(w)}
<1>1. 0 \in Good
  <2>1. InitialWindow \in [1..WindowSize -> Int] /\ WindowSize \in Nat
    BY RatesAssumption DEF InitialWindow
  <2>2. InitialWindow \in Seq(Int) /\ Len(InitialWindow) = WindowSize
    BY <2>1
  <2> QED
    BY <2>2, WindowsFacts DEF IsWindow
<1>2. ASSUME NEW n \in Good PROVE n + 1 \in Good
  <2> SUFFICES ASSUME n + 1 \in 0..Updates, NEW w \in Windows[n + 1] PROVE IsWindow(w)
    OBVIOUS
  <2>1. n + 1 \in 1..Updates /\ (n + 1) - 1 = n /\ n \in 0..Updates
    BY WindowsFacts
  <2>2. \A v \in Windows[n] : IsWindow(v)
    BY <2>1
  <2>3. w \in Windows[n] \/ \E v \in Windows[n], b \in Books : w = CalculateRecommendedFundingRate(v, b)
    <3>1. Windows[n + 1] = Windows[n] \cup
            {CalculateRecommendedFundingRate(v, b) : v \in Windows[n], b \in Books}
      BY <2>1, WindowsFacts
    <3> QED
      BY <3>1
  <2> QED
    BY <2>2, <2>3, WindowStays
<1>3. Good = Nat
  <2> HIDE DEF Good
  <2>1. Good \in SUBSET Nat
    BY DEF Good
  <2> QED
    BY <1>1, <1>2, <2>1, SetInduction
<1>4. ASSUME NEW w \in Windows[Updates] PROVE RecommendedAskRate(w) \in Int
  <2>1. IsWindow(w) /\ WindowSize \in Nat
    BY <1>3, WindowsFacts, RatesAssumption
  <2>2. w \in [1..WindowSize -> Int]
    BY <2>1 DEF IsWindow
  <2>3. Sums(w, WindowSize) \in [0..WindowSize -> Int]
    BY <2>1, <2>2, SumsSteps
  <2> QED
    BY <2>1, <2>3 DEF RecommendedAskRate
<1> QED
  BY <1>4 DEF AskRates

\* The first rule that has a rate.
LEMMA RuleFacts ==
  ASSUME RulesRise, NEW rate \in Int, 0 <= rate, rate <= WindowSize * Rules[Len(Rules)].lt
  PROVE  \E i \in DOMAIN Rules :
           /\ PeriodOf(rate) = Rules[i].period
           /\ rate <= WindowSize * Rules[i].lt
           /\ \A k \in DOMAIN Rules : rate <= WindowSize * Rules[k].lt => i <= k
<1>1. /\ DOMAIN Rules = 1..Len(Rules) /\ Len(Rules) \in Nat /\ Len(Rules) \in DOMAIN Rules
      /\ DOMAIN Rules \subseteq Nat /\ WindowSize \in Nat
  BY RatesAssumption DEF RulesRise
<1>2. \A i \in DOMAIN Rules : Rules[i].gte \in Nat /\ Rules[i].lt \in Nat
  BY RatesAssumption
<1>3. PICK high, low : /\ high = [i \in DOMAIN Rules |-> WindowSize * Rules[i].lt]
                       /\ low = [i \in DOMAIN Rules |-> WindowSize * Rules[i].gte]
  OBVIOUS
<1>4. \A i \in DOMAIN Rules : high[i] \in Int /\ low[i] \in Int
  BY <1>1, <1>2, <1>3
<1>5. PICK i \in DOMAIN Rules : rate <= high[i] /\ \A k \in DOMAIN Rules : rate <= high[k] => i <= k
  <2> DEFINE T == {i \in DOMAIN Rules : rate <= high[i]}
  <2>1. T \in SUBSET Nat /\ Len(Rules) \in T
    BY <1>1, <1>3
  <2> HIDE DEF T
  <2>2. PICK i \in T : \A k \in T : i <= k
    BY <2>1, LeastExists
  <2> QED
    BY <2>2 DEF T
<1>6. low[i] <= rate
  <2>1. CASE i = 1
    BY <1>1, <1>3, <2>1 DEF RulesRise
  <2>2. CASE i # 1
    <3>1. i - 1 \in DOMAIN Rules /\ ~ (i <= i - 1)
      BY <1>1, <2>2
    <3>2. low[i] = high[i - 1]
      BY <1>3, <2>2, <3>1 DEF RulesRise
    <3> QED
      BY <1>4, <1>5, <3>1, <3>2
  <2> QED
    BY <2>1, <2>2
<1> DEFINE matching == {k \in DOMAIN Rules : WindowSize * Rules[k].gte <= rate
                                             /\ rate <= WindowSize * Rules[k].lt}
<1>7. \A k : k \in matching <=> k \in DOMAIN Rules /\ low[k] <= rate /\ rate <= high[k]
  BY <1>3
<1>8. PeriodOf(rate) = IF matching = {} THEN 2
                       ELSE Rules[CHOOSE m \in matching : \A k \in matching : m <= k].period
  BY DEF PeriodOf
<1> HIDE DEF matching
<1>9. i \in matching /\ \A k \in matching : i <= k
  BY <1>5, <1>6, <1>7
<1>10. \A m \in matching : (\A k \in matching : m <= k) => m = i
  <2> TAKE m \in matching
  <2>1. m \in Nat /\ i \in Nat
    BY <1>1, <1>7
  <2> QED
    BY <1>9, <2>1
<1>11. (CHOOSE m \in matching : \A k \in matching : m <= k) = i
  BY <1>9, <1>10
<1>12. PeriodOf(rate) = Rules[i].period
  BY <1>8, <1>9, <1>11
<1> QED
  BY <1>3, <1>5, <1>12

LEMMA TimesMonotone ==
  ASSUME NEW w \in Nat, NEW a \in Nat, NEW b \in Nat, a <= b
  PROVE  w * a \in Nat /\ w * b \in Nat /\ w * a <= w * b
<1>1. b - a \in Nat /\ b = a + (b - a)
  OBVIOUS
<1>2. w * b = w * a + w * (b - a)
  BY <1>1
<1>3. w * a \in Nat /\ w * b \in Nat /\ w * (b - a) \in Nat
  BY <1>1
<1> QED
  BY <1>2, <1>3

LEMMA OfferRateFacts ==
  ASSUME RulesRise, NEW s \in Strategies, NEW ask \in Int
  PROVE  /\ OfferRate(ask, s) \in Int /\ 0 <= OfferRate(ask, s)
         /\ OfferRate(ask, s) <= WindowSize * Rules[Len(Rules)].lt
<1>1. PICK low, high, top :
        low = WindowSize * s.minRate /\ high = WindowSize * s.maxRate
        /\ top = WindowSize * Rules[Len(Rules)].lt
  OBVIOUS
<1>2. /\ WindowSize \in Nat /\ s.minRate \in Nat /\ s.maxRate \in Nat
      /\ Rules[Len(Rules)].lt \in Nat /\ s.maxRate <= Rules[Len(Rules)].lt
  BY RatesAssumption DEF RulesRise
<1>3. low \in Nat /\ high \in Nat /\ top \in Nat /\ high <= top
  <2>1. PICK w, a, b, c : /\ w = WindowSize /\ a = s.minRate /\ b = s.maxRate
                          /\ c = Rules[Len(Rules)].lt
    OBVIOUS
  <2>2. w \in Nat /\ a \in Nat /\ b \in Nat /\ c \in Nat /\ b <= c
    BY <1>2, <2>1
  <2>3. w * b \in Nat /\ w * c \in Nat /\ w * b <= w * c
    BY <2>2, TimesMonotone
  <2>4. a <= a
    BY <2>2
  <2>5. w * a \in Nat
    BY <2>2, <2>4, TimesMonotone
  <2> QED
    BY <1>1, <2>1, <2>3, <2>5
<1> QED
  BY <1>1, <1>3 DEF OfferRate, Larger, Smaller

LEMMA AllAreFair == RulesRise => FairStrategies = Strategies
<1> SUFFICES ASSUME RulesRise, NEW s \in Strategies, NEW a \in AskRates, NEW b \in AskRates,
                    OfferRate(a, s) < OfferRate(b, s)
             PROVE  OfferPeriod(a, s) <= OfferPeriod(b, s)
  BY DEF FairStrategies
<1>1. PICK x, y : x = OfferRate(a, s) /\ y = OfferRate(b, s)
  OBVIOUS
<1>2. /\ x \in Int /\ 0 <= x /\ x <= WindowSize * Rules[Len(Rules)].lt
      /\ y \in Int /\ 0 <= y /\ y <= WindowSize * Rules[Len(Rules)].lt /\ x < y
  BY <1>1, AskRatesType, OfferRateFacts
<1>3. PICK i \in DOMAIN Rules :
        /\ PeriodOf(x) = Rules[i].period
        /\ \A k \in DOMAIN Rules : x <= WindowSize * Rules[k].lt => i <= k
  BY <1>2, RuleFacts
<1>4. PICK k \in DOMAIN Rules : PeriodOf(y) = Rules[k].period /\ y <= WindowSize * Rules[k].lt
  BY <1>2, RuleFacts
<1>5. x <= WindowSize * Rules[k].lt
  <2>1. PICK top : top = WindowSize * Rules[k].lt
    OBVIOUS
  <2>2. top \in Int
    BY <2>1, RatesAssumption
  <2> QED
    BY <1>2, <1>4, <2>1, <2>2
<1>6. i <= k
  BY <1>3, <1>5
<1> QED
  BY <1>1, <1>3, <1>4, <1>6 DEF OfferPeriod, RulesRise

\* The invariant.  Its last part: by rules that follow each other and whose periods do not
\* fall, as those an end user starts from, and rates within them, no two offers are of a
\* higher rate and a shorter period, whatever the books show (apply_bitfinex_funding_strategy).
THEOREM FundingInvariant == FundingSpec => []FundingInv
<1>1. MoneyOK => FundingInv
  BY AllAreFair DEF FundingInv, MoneyOK, WalletOK, HigherIsLonger
<1> QED
  BY <1>1, MoneyInvariance, PTL
=============================================================================
