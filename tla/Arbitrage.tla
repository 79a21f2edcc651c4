----------------------------- MODULE Arbitrage -----------------------------
(***************************************************************************)
(* The spot/perpetual arbitrage strategy of one account.  It holds pairs:  *)
(* so much of a coin, and a short position of the same size in its future. *)
(* Two coroutines trade on one event loop: execute ("execute": increase,   *)
(* always decrease, decrease, close, balance) and the garbage collection   *)
(* of pairs that pay funding ("collect").  A coroutine gives way only      *)
(* where make_pair awaits its two market orders, which threads of the      *)
(* executor place; each may fail, or fail after the exchange executed it.  *)
(*                                                                         *)
(* Sizes are whole increments.  Prices, spreads, ranks and funding rates   *)
(* decide whether and in which order pairs are traded, and how much of     *)
(* them: all of that is left open.  So is the leverage, read once a round. *)
(* A fill between the two requests that read balances and positions is     *)
(* taken to come before or after both.                                     *)
(***************************************************************************)
EXTENDS Integers, FiniteSets

CONSTANTS
  Pairs,
  Configs,     \* configurations tried: sets of enabled parts
  MinSize,     \* min_provide_size
  MaxSize,     \* a pair is not increased beyond this
  MaxFailures  \* orders answered with an error altogether

ASSUME ArbitrageAssumption ==
  /\ Configs \subseteq SUBSET {"increase", "always_increase", "decrease",
                               "always_decrease", "garbage_collect"}
  /\ MinSize \in Nat \ {0} /\ MaxSize \in Nat /\ MaxFailures \in Nat

Jobs == {"execute", "collect"}
Levels == {"low", "middle", "high", "extreme"}

VARIABLES
  config,    \* the enabled parts
  spot,      \* pair -> balance of its coin
  perp,      \* pair -> net size of its future
  phase,     \* job -> where it is
  todo,      \* job -> pairs it has still to look at
  seen,      \* job -> balances and positions it has read
  level,     \* the leverage execute has read
  decreased, \* is_always_decreased
  running,   \* the job that has the event loop
  orders,    \* job -> legs of make_pair under way
  failed,    \* job -> a leg of this make_pair was answered with an error
  failures

holdings == <<spot, perp>>
vars == <<config, spot, perp, phase, todo, seen, level, decreased, running,
          orders, failed, failures>>

Assets == [spot |-> spot, perp |-> perp]
NotRead == [spot |-> [p \in Pairs |-> 0], perp |-> [p \in Pairs |-> 0]]

Abs(n) == IF n < 0 THEN -n ELSE n
Smaller(m, n) == IF m < n THEN m ELSE n

Init ==
  /\ config \in Configs
  /\ spot \in [Pairs -> 0..MaxSize]
  /\ perp = [p \in Pairs |-> -spot[p]]
  /\ phase = [j \in Jobs |-> "idle"]
  /\ todo = [j \in Jobs |-> {}]
  /\ seen = [j \in Jobs |-> NotRead]
  /\ level = "low"
  /\ decreased = FALSE
  /\ running = "none"
  /\ orders = [j \in Jobs |-> {}]
  /\ failed = [j \in Jobs |-> FALSE]
  /\ failures = 0

\* get_worst_pair_collections_from_asset
Decreasable(assets) ==
  {p \in Pairs : assets.spot[p] >= MinSize /\ -assets.perp[p] >= MinSize}

\* Mutant: a pair that has one side only is passed over.
ImbalancedBothSides(p) ==
  spot[p] # 0 /\ perp[p] # 0 /\ Abs(Abs(spot[p]) - Abs(perp[p])) >= MinSize

\* get_imbalanced_pairs
Imbalanced(p) ==
  IF spot[p] = 0 \/ perp[p] = 0
  THEN spot[p] # perp[p]
  ELSE Abs(Abs(spot[p]) - Abs(perp[p])) >= MinSize

-----------------------------------------------------------------------------
(* make_pair: two orders at once, and the event loop is given up.          *)

Leg(p, market, delta) == [pair |-> p, market |-> market, delta |-> delta]

\* size > 0 buys the coin and sells the future.
MakePair(j, p, size) ==
  /\ orders' = [orders EXCEPT ![j] = {Leg(p, "spot", size), Leg(p, "perp", -size)}]
  /\ failed' = [failed EXCEPT ![j] = FALSE]
  /\ running' = "none"

NoOrder == UNCHANGED <<orders, failed, running>>

Execute(leg) ==
  IF leg.market = "spot"
  THEN spot' = [spot EXCEPT ![leg.pair] = @ + leg.delta] /\ UNCHANGED perp
  ELSE perp' = [perp EXCEPT ![leg.pair] = @ + leg.delta] /\ UNCHANGED spot

OrderSucceeds(j, leg) ==
  /\ leg \in orders[j]
  /\ orders' = [orders EXCEPT ![j] = @ \ {leg}]
  /\ Execute(leg)
  /\ UNCHANGED <<config, phase, todo, seen, level, decreased, running, failed, failures>>

\* Refused, or executed and the answer lost.
OrderFails(j, leg) ==
  /\ leg \in orders[j]
  /\ failures < MaxFailures
  /\ failures' = failures + 1
  /\ orders' = [orders EXCEPT ![j] = @ \ {leg}]
  /\ failed' = [failed EXCEPT ![j] = TRUE]
  /\ Execute(leg) \/ UNCHANGED holdings
  /\ UNCHANGED <<config, phase, todo, seen, level, decreased, running>>

\* decrease_pair makes this check on the assets the job has read.
Accepts(j, p, size) ==
  /\ seen[j].spot[p] > size /\ seen[j].perp[p] < -size
  /\ size >= MinSize

-----------------------------------------------------------------------------
(* execute().  Its local variables are gone when a round ends.             *)

LeaveRound ==
  /\ running' = "none"
  /\ phase' = [phase EXCEPT !["execute"] = "idle"]
  /\ todo' = [todo EXCEPT !["execute"] = {}]
  /\ seen' = [seen EXCEPT !["execute"] = NotRead]
  /\ failed' = [failed EXCEPT !["execute"] = FALSE]
  /\ level' = "low" /\ decreased' = FALSE

StartRound ==
  /\ running = "none" /\ phase["execute"] = "idle"
  /\ running' = "execute"
  /\ phase' = [phase EXCEPT !["execute"] = "increase"]
  /\ level' \in IF {"increase", "decrease"} \cap config # {} THEN Levels ELSE {"low"}
  /\ UNCHANGED <<config, holdings, todo, seen, decreased, orders, failed, failures>>

\* The collection of pairs is read once for always_decrease and decrease.
ReadForDecrease ==
  /\ todo' = [todo EXCEPT !["execute"] =
                IF "always_decrease" \in config THEN Decreasable(Assets) ELSE {}]
  /\ seen' = [seen EXCEPT !["execute"] = Assets]
  /\ decreased' = FALSE

\* One pair at most, the best one, is increased.
Increase(p, size) ==
  /\ running = "execute" /\ phase["execute"] = "increase"
  /\ \/ "always_increase" \in config
     \/ "increase" \in config /\ level = "low"
  /\ size >= MinSize /\ spot[p] + size <= MaxSize
  /\ MakePair("execute", p, size)
  /\ phase' = [phase EXCEPT !["execute"] = "increased"]
  /\ UNCHANGED <<config, holdings, todo, seen, level, decreased, failures>>

AfterIncrease ==
  /\ running = "execute" /\ phase["execute"] \in {"increase", "increased"}
  /\ phase' = [phase EXCEPT !["execute"] = "always_decrease"]
  /\ ReadForDecrease
  /\ UNCHANGED <<config, holdings, level, running, orders, failed, failures>>

\* decrease_pair for one pair of the collection.  A quote amount is capped by
\* what was read; closing takes all of it.  An error before the orders is caught.
Decrease(p, wished) ==
  LET held == Smaller(Abs(seen["execute"].spot[p]), Abs(seen["execute"].perp[p]))
      size == IF phase["execute"] = "close" THEN held ELSE Smaller(wished, held)
  IN  /\ running = "execute"
      /\ phase["execute"] \in {"always_decrease", "decrease", "close"}
      /\ p \in todo["execute"]
      /\ todo' = [todo EXCEPT !["execute"] = @ \ {p}]
      /\ IF Accepts("execute", p, size) THEN MakePair("execute", p, -size) ELSE NoOrder
      /\ UNCHANGED <<config, holdings, phase, seen, level, decreased, failures>>

\* The spread is not low enough.
SkipDecrease(p) ==
  /\ running = "execute" /\ phase["execute"] \in {"always_decrease", "decrease"}
  /\ p \in todo["execute"]
  /\ todo' = [todo EXCEPT !["execute"] = @ \ {p}]
  /\ UNCHANGED <<config, holdings, phase, seen, level, decreased, running, orders,
                 failed, failures>>

FirstDecreasable(assets) ==
  IF Decreasable(assets) = {} THEN {{}} ELSE {{p} : p \in Decreasable(assets)}

\* Mutant: the decrease does not ask whether a pair was decreased already.
AfterAlwaysDecreaseTwice ==
  /\ running = "execute" /\ phase["execute"] = "always_decrease"
  /\ todo["execute"] = {}
  /\ phase' = [phase EXCEPT !["execute"] = "decrease"]
  /\ \E ps \in IF "decrease" \in config /\ level = "high"
               THEN FirstDecreasable(seen["execute"]) ELSE {{}} :
       todo' = [todo EXCEPT !["execute"] = ps]
  /\ UNCHANGED <<config, holdings, seen, level, decreased, running, orders, failed,
                 failures>>

\* Unless one was, the first pair of the same collection is tried.
AfterAlwaysDecrease ==
  /\ running = "execute" /\ phase["execute"] = "always_decrease"
  /\ todo["execute"] = {}
  /\ phase' = [phase EXCEPT !["execute"] = "decrease"]
  /\ \E ps \in IF ~decreased /\ "decrease" \in config /\ level = "high"
               THEN FirstDecreasable(seen["execute"]) ELSE {{}} :
       todo' = [todo EXCEPT !["execute"] = ps]
  /\ UNCHANGED <<config, holdings, seen, level, decreased, running, orders, failed,
                 failures>>

\* Above the closing leverage the collection is read anew.
AfterDecrease ==
  /\ running = "execute" /\ phase["execute"] = "decrease"
  /\ todo["execute"] = {}
  /\ phase' = [phase EXCEPT !["execute"] = "close"]
  /\ todo' = [todo EXCEPT !["execute"] = IF level = "extreme" THEN Decreasable(Assets) ELSE {}]
  /\ seen' = [seen EXCEPT !["execute"] = Assets]
  /\ UNCHANGED <<config, holdings, level, decreased, running, orders, failed, failures>>

AfterClose ==
  /\ running = "execute" /\ phase["execute"] = "close"
  /\ todo["execute"] = {}
  /\ phase' = [phase EXCEPT !["execute"] = "balance"]
  /\ todo' = [todo EXCEPT !["execute"] = {p \in Pairs : Imbalanced(p)}]
  /\ seen' = [seen EXCEPT !["execute"] = Assets]
  /\ UNCHANGED <<config, holdings, level, decreased, running, orders, failed, failures>>

\* Mutant: only what the coin has too much of is traded.
BalancingCoinOnly(p, s, n) ==
  IF Abs(Abs(s) - Abs(n)) < MinSize \/ (s > 0 /\ n > 0) \/ (s < 0 /\ n < 0)
     \/ Abs(s) < Abs(n) THEN {}
  ELSE {Leg(p, "spot", Abs(n) - s)}

\* balance_pair: the order it places for the balance s and the net size n, if any.
BalancingLegs(p, s, n) ==
  LET size == Abs(Abs(s) - Abs(n))
      toward(x) == IF x > 0 THEN -size ELSE size
  IN  IF size < MinSize \/ (s > 0 /\ n > 0) \/ (s < 0 /\ n < 0) THEN {}
      ELSE IF Abs(s) > Abs(n) THEN {Leg(p, "spot", toward(s))}
      ELSE {Leg(p, "perp", toward(n))}

\* These orders are placed on the event loop itself.
Balance(p) ==
  LET legs == BalancingLegs(p, seen["execute"].spot[p], seen["execute"].perp[p])
  IN  /\ running = "execute" /\ phase["execute"] = "balance"
      /\ p \in todo["execute"]
      /\ todo' = [todo EXCEPT !["execute"] = @ \ {p}]
      /\ \/ legs = {} /\ UNCHANGED holdings
         \/ \E leg \in legs : Execute(leg)
      /\ UNCHANGED <<config, phase, seen, level, decreased, running, orders, failed,
                     failures>>

\* An error is not caught here: the round ends, the other pairs wait for the next.
BalanceFails(p) ==
  LET legs == BalancingLegs(p, seen["execute"].spot[p], seen["execute"].perp[p])
  IN  /\ running = "execute" /\ phase["execute"] = "balance"
      /\ p \in todo["execute"]
      /\ failures < MaxFailures
      /\ failures' = failures + 1
      /\ \E leg \in legs : Execute(leg) \/ UNCHANGED holdings
      /\ LeaveRound
      /\ UNCHANGED <<config, orders>>

\* Nor is one of the requests that read balances, positions and markets.
ReadFails ==
  /\ running = "execute" /\ phase["execute"] \notin {"always_decrease", "balance"}
  /\ todo["execute"] = {}
  /\ failures < MaxFailures
  /\ failures' = failures + 1
  /\ LeaveRound
  /\ UNCHANGED <<config, holdings, orders>>

EndRound ==
  /\ running = "execute" /\ phase["execute"] = "balance"
  /\ todo["execute"] = {}
  /\ LeaveRound
  /\ UNCHANGED <<config, holdings, orders, failures>>

\* Mutant: the round goes on when the first leg is back.
ResumeRoundEarly ==
  /\ running = "none" /\ phase["execute"] # "idle"
  /\ Cardinality(orders["execute"]) < 2
  /\ running' = "execute"
  /\ decreased' = (decreased \/ (phase["execute"] = "always_decrease" /\ ~failed["execute"]))
  /\ UNCHANGED <<config, holdings, phase, todo, seen, level, orders, failed, failures>>

\* Both legs are back.  A failed one raises, which execute catches; a pair is
\* always-decreased only if neither failed.
ResumeRound ==
  /\ running = "none" /\ phase["execute"] # "idle"
  /\ orders["execute"] = {}
  /\ running' = "execute"
  /\ decreased' = (decreased \/ (phase["execute"] = "always_decrease" /\ ~failed["execute"]))
  /\ UNCHANGED <<config, holdings, phase, todo, seen, level, orders, failed, failures>>

-----------------------------------------------------------------------------
(* decrease_negative_funding_payment_pairs()                               *)

StartCollect(ps) ==
  /\ running = "none" /\ phase["collect"] = "idle"
  /\ "garbage_collect" \in config
  /\ ps \subseteq {p \in Pairs : Abs(spot[p]) >= MinSize /\ Abs(perp[p]) >= MinSize}
  /\ ps # {}
  /\ running' = "collect"
  /\ phase' = [phase EXCEPT !["collect"] = "decrease"]
  /\ todo' = [todo EXCEPT !["collect"] = ps]
  /\ seen' = [seen EXCEPT !["collect"] = Assets]
  /\ UNCHANGED <<config, holdings, level, decreased, orders, failed, failures>>

\* The least size of each pair whose spread is small; an error is not caught.
Collect(p) ==
  /\ running = "collect"
  /\ p \in todo["collect"]
  /\ \/ /\ Accepts("collect", p, MinSize)
        /\ todo' = [todo EXCEPT !["collect"] = @ \ {p}]
        /\ MakePair("collect", p, -MinSize)
     \/ /\ ~Accepts("collect", p, MinSize)
        /\ todo' = [todo EXCEPT !["collect"] = {}]
        /\ NoOrder
     \/ /\ todo' = [todo EXCEPT !["collect"] = @ \ {p}]
        /\ NoOrder
  /\ UNCHANGED <<config, holdings, phase, seen, level, decreased, failures>>

ResumeCollect ==
  /\ running = "none" /\ phase["collect"] # "idle"
  /\ orders["collect"] = {}
  /\ running' = "collect"
  /\ todo' = [todo EXCEPT !["collect"] = IF failed["collect"] THEN {} ELSE @]
  /\ UNCHANGED <<config, holdings, phase, seen, level, decreased, orders, failed, failures>>

EndCollect ==
  /\ running = "collect"
  /\ todo["collect"] = {}
  /\ running' = "none"
  /\ phase' = [phase EXCEPT !["collect"] = "idle"]
  /\ seen' = [seen EXCEPT !["collect"] = NotRead]
  /\ failed' = [failed EXCEPT !["collect"] = FALSE]
  /\ UNCHANGED <<config, holdings, todo, level, decreased, orders, failures>>

-----------------------------------------------------------------------------
Round ==
  \/ StartRound \/ ResumeRound \/ ReadFails \/ EndRound
  \/ AfterIncrease \/ AfterAlwaysDecrease \/ AfterDecrease \/ AfterClose
  \/ \E p \in Pairs :
       \/ \E size \in 1..MaxSize : Increase(p, size) \/ Decrease(p, size)
       \/ SkipDecrease(p) \/ Balance(p) \/ BalanceFails(p)

Collection ==
  \/ ResumeCollect \/ EndCollect
  \/ \E p \in Pairs : Collect(p)

Ordering == \E j \in Jobs : \E leg \in orders[j] : OrderSucceeds(j, leg) \/ OrderFails(j, leg)

Next ==
  \/ Round \/ Collection \/ Ordering
  \/ \E ps \in SUBSET Pairs : StartCollect(ps)

Spec == Init /\ [][Next]_vars

\* The interval jobs are started again and again, coroutines that can go on do,
\* and every order is answered.
FairSpec == Spec /\ SF_vars(Round) /\ SF_vars(Collection) /\ WF_vars(Ordering)

-----------------------------------------------------------------------------
(* Properties.                                                             *)

\* Types; and only a coroutine that waits for them has orders under way, while one
\* that runs is in the middle of its job.
TypeOK ==
  /\ config \in Configs
  /\ spot \in [Pairs -> Int] /\ perp \in [Pairs -> Int]
  /\ phase \in [Jobs -> {"idle", "increase", "increased", "always_decrease", "decrease",
                         "close", "balance"}]
  /\ todo \in [Jobs -> SUBSET Pairs]
  /\ seen \in [Jobs -> [spot : [Pairs -> Int], perp : [Pairs -> Int]]]
  /\ level \in Levels
  /\ decreased \in BOOLEAN
  /\ running \in Jobs \cup {"none"}
  /\ orders \in [Jobs -> SUBSET [pair : Pairs, market : {"spot", "perp"}, delta : Int]]
  /\ failed \in [Jobs -> BOOLEAN]
  /\ failures \in 0..MaxFailures
  /\ \A j \in Jobs : /\ phase[j] = "idle" => running # j /\ orders[j] = {}
                     /\ running = j => orders[j] = {}

\* The coin is short or the future long.
Reversed(p) == spot[p] < 0 \/ perp[p] > 0

\* Coin and future differ by an amount that can be traded.
Uneven(p) == Abs(spot[p] + perp[p]) >= MinSize

\* Both are long or both short: balance_pair places no order for such a pair.
SameSide(p) == Reversed(p) /\ spot[p] # 0 /\ perp[p] # 0 /\ (spot[p] > 0 <=> perp[p] > 0)

\* The README's note that no pair is traded the reverse way holds but for stale
\* reads: a pair is reversed only in a configuration with the garbage collection,
\* whose orders cross those of execute, or with both decreases and after an order
\* has failed, when the second decrease uses what was read before the first.
ReversedOnlyByStaleRead ==
  (\E p \in Pairs : Reversed(p)) =>
    \/ "garbage_collect" \in config
    \/ {"decrease", "always_decrease"} \subseteq config /\ failures > 0

\* While execute has no order under way and nothing has failed, every pair holds as
\* much of its coin as its future is short.
HedgedUnlessFailed ==
  failures = 0 /\ "garbage_collect" \notin config /\ orders["execute"] = {} =>
    \A p \in Pairs : spot[p] = -perp[p]

\* Configurations, and failures so far, under which what execute has read can be relied on.
Alone == "garbage_collect" \notin config
Careful == Alone /\ (failures = 0 \/ ~ {"decrease", "always_decrease"} \subseteq config)

UpToDate(p) == seen["execute"].spot[p] = spot[p] /\ seen["execute"].perp[p] = perp[p]

\* Where execute is tells what it has still to do.
RoundOK ==
  /\ phase["execute"] \in {"idle", "increase", "increased"} => todo["execute"] = {}
  /\ phase["execute"] = "balance" => running = "execute"
  /\ phase["execute"] = "always_decrease" /\ "always_decrease" \notin config =>
       running = "execute" /\ todo["execute"] = {}
  /\ Alone => phase["collect"] = "idle"
  /\ failures = 0 => ~failed["execute"]

\* Two legs under way are the two of one pair.
LegsOK ==
  \A m, n \in orders["execute"] :
    m # n => m.pair = n.pair /\ m.market # n.market /\ m.delta = -n.delta

\* A pair is hedged but for the leg whose other one has been executed.
HedgeOK ==
  Alone /\ failures = 0 =>
    /\ \A p \in Pairs :
         (\A leg \in orders["execute"] : leg.pair # p) => spot[p] + perp[p] = 0
    /\ \A leg \in orders["execute"] :
         spot[leg.pair] + perp[leg.pair] =
           IF \E other \in orders["execute"] : other # leg THEN 0 ELSE -leg.delta

\* No pair is reversed, nor will it be by an order under way.
SidesOK ==
  Careful =>
    /\ \A p \in Pairs : ~Reversed(p)
    /\ \A leg \in orders["execute"] :
         IF leg.market = "spot" THEN spot[leg.pair] + leg.delta >= 0
                                ELSE perp[leg.pair] + leg.delta <= 0

\* What was read of the pairs still to do holds; and of all, until one is traded.
ReadsOK ==
  Careful =>
    /\ \A p \in todo["execute"] : UpToDate(p) /\ \A leg \in orders["execute"] : leg.pair # p
    /\ "decrease" \in config /\ phase["execute"] = "always_decrease"
         /\ ~decreased /\ running = "execute" => \A p \in Pairs : UpToDate(p)

\* Pairs are balanced one after the other.
BalanceOK ==
  Alone /\ phase["execute"] = "balance" =>
    /\ \A p \in todo["execute"] : UpToDate(p)
    /\ \A p \in Pairs \ todo["execute"] : Uneven(p) => SameSide(p)

\* The inductive invariant: types, the hedge, and why it and the sides are kept: where the
\* round is, what is under way, and that what was read still holds when it is used.
IInv ==
  /\ TypeOK /\ HedgedUnlessFailed
  /\ RoundOK /\ LegsOK /\ HedgeOK /\ SidesOK /\ ReadsOK /\ BalanceOK

\* README, fourth point (balance what differs): a round that ends without an error
\* leaves no pair uneven, but those balance_pair refuses and those the collection
\* may be trading meanwhile.
RoundEndsBalanced ==
  [][phase["execute"] = "balance" /\ phase'["execute"] = "idle" /\ failures' = failures =>
       \A p \in Pairs : Uneven(p)' => SameSide(p)' \/ "garbage_collect" \in config]_vars

\* A pair that has lost a leg is evened in the end, or its two sides meet.
UnevenIsRepaired ==
  \A p \in Pairs : Uneven(p) ~> ~Uneven(p) \/ SameSide(p)
=============================================================================
