-------------------------- MODULE ArbitrageProofs --------------------------
(***************************************************************************)
(* Proofs about the arbitrage strategy, for any number of pairs, sizes and *)
(* failed orders and for every configuration: the inductive invariant; the *)
(* hedge; that pairs are reversed by stale reads only; and that a round    *)
(* which ends without an error leaves the pairs balanced.                  *)
(***************************************************************************)
EXTENDS Arbitrage, TLAPS

USE ArbitrageAssumption

Phases == {"idle", "increase", "increased", "always_decrease", "decrease", "close", "balance"}
Legs == [pair : Pairs, market : {"spot", "perp"}, delta : Int]
Sizes == [spot : [Pairs -> Int], perp : [Pairs -> Int]]

\* The type invariant in parts.
HoldingsType == spot \in [Pairs -> Int] /\ perp \in [Pairs -> Int]

RestType ==
  /\ config \in Configs
  /\ phase \in [Jobs -> Phases]
  /\ todo \in [Jobs -> SUBSET Pairs]
  /\ seen \in [Jobs -> Sizes]
  /\ level \in Levels
  /\ decreased \in BOOLEAN
  /\ running \in Jobs \cup {"none"}
  /\ failed \in [Jobs -> BOOLEAN]
  /\ failures \in 0..MaxFailures

OrdersType ==
  /\ orders \in [Jobs -> SUBSET Legs]
  /\ \A j \in Jobs : /\ phase[j] = "idle" => running # j /\ orders[j] = {}
                     /\ running = j => orders[j] = {}

Types == HoldingsType /\ RestType /\ OrdersType

LEMMA TypeInParts ==
  /\ TypeOK <=> Types
  /\ TypeOK' <=> Types'
<1>1. TypeOK <=> Types
  BY Zenon DEF TypeOK, Types, HoldingsType, RestType, OrdersType, Phases, Legs, Sizes
<1>2. TypeOK' <=> Types'
  BY Zenon DEF TypeOK, Types, HoldingsType, RestType, OrdersType, Phases, Legs, Sizes
<1> QED
  BY <1>1, <1>2

-----------------------------------------------------------------------------
(* What the steps do to the parts of the state.                            *)

LEMMA ExecuteFacts ==
  ASSUME HoldingsType, NEW leg \in Legs, Execute(leg)
  PROVE  /\ HoldingsType'
         /\ \A p \in Pairs \ {leg.pair} : spot'[p] = spot[p] /\ perp'[p] = perp[p]
         /\ IF leg.market = "spot"
            THEN spot'[leg.pair] = spot[leg.pair] + leg.delta /\ perp'[leg.pair] = perp[leg.pair]
            ELSE perp'[leg.pair] = perp[leg.pair] + leg.delta /\ spot'[leg.pair] = spot[leg.pair]
<1>1. leg.pair \in Pairs /\ leg.delta \in Int
  BY DEF Legs
<1>2. CASE leg.market = "spot"
  BY <1>1, <1>2 DEF Execute, HoldingsType
<1>3. CASE leg.market # "spot"
  BY <1>1, <1>3 DEF Execute, HoldingsType
<1> QED
  BY <1>2, <1>3

LEMMA MakePairFacts ==
  ASSUME Types, NEW j \in Jobs, NEW p \in Pairs, NEW size \in Int, MakePair(j, p, size)
  PROVE  /\ orders' \in [Jobs -> SUBSET Legs]
         /\ orders'[j] = {Leg(p, "spot", size), Leg(p, "perp", -size)}
         /\ \A k \in Jobs \ {j} : orders'[k] = orders[k]
         /\ failed' \in [Jobs -> BOOLEAN] /\ failed'[j] = FALSE
         /\ \A k \in Jobs \ {j} : failed'[k] = failed[k]
         /\ running' = "none"
<1>1. {Leg(p, "spot", size), Leg(p, "perp", -size)} \in SUBSET Legs
  BY DEF Leg, Legs
<1>2. orders' = [orders EXCEPT ![j] = {Leg(p, "spot", size), Leg(p, "perp", -size)}]
  BY DEF MakePair
<1>3. orders' \in [Jobs -> SUBSET Legs]
  BY <1>1, <1>2 DEF Types, OrdersType
<1>4. /\ orders'[j] = {Leg(p, "spot", size), Leg(p, "perp", -size)}
      /\ \A k \in Jobs \ {j} : orders'[k] = orders[k]
  BY <1>2 DEF Types, OrdersType
<1>5. failed' \in [Jobs -> BOOLEAN] /\ failed'[j] = FALSE
      /\ \A k \in Jobs \ {j} : failed'[k] = failed[k]
  BY DEF MakePair, Types, RestType
<1> QED
  BY <1>3, <1>4, <1>5 DEF MakePair

LEMMA LeaveRoundFacts ==
  ASSUME Types, LeaveRound
  PROVE  /\ running' = "none" /\ phase' \in [Jobs -> Phases] /\ phase'["execute"] = "idle"
         /\ phase'["collect"] = phase["collect"]
         /\ todo' \in [Jobs -> SUBSET Pairs] /\ todo'["execute"] = {}
         /\ seen' \in [Jobs -> Sizes]
         /\ failed' \in [Jobs -> BOOLEAN] /\ failed'["execute"] = FALSE
         /\ level' \in Levels /\ decreased' \in BOOLEAN
<1>1. NotRead \in Sizes
  BY DEF NotRead, Sizes
<1>2. seen' \in [Jobs -> Sizes]
  BY <1>1 DEF LeaveRound, Types, RestType, Jobs
<1>3. failed' \in [Jobs -> BOOLEAN] /\ failed'["execute"] = FALSE
  BY DEF LeaveRound, Types, RestType, Jobs
<1> QED
  BY <1>2, <1>3 DEF LeaveRound, Types, RestType, Jobs, Phases, Levels

LEMMA AssetsFacts ==
  ASSUME HoldingsType
  PROVE  Assets \in Sizes /\ Assets.spot = spot /\ Assets.perp = perp
BY DEF HoldingsType, Assets, Sizes

\* The inductive invariant in its parts; the hedge follows from what is said of the legs.
Parts == Types /\ RoundOK /\ LegsOK /\ HedgeOK /\ SidesOK /\ ReadsOK /\ BalanceOK

LEMMA HedgeFollows ==
  ASSUME Types, HedgeOK
  PROVE  HedgedUnlessFailed
<1>1. \A p \in Pairs : spot[p] \in Int /\ perp[p] \in Int
  BY DEF Types, HoldingsType
<1> QED
  BY <1>1 DEF HedgeOK, HedgedUnlessFailed, Alone

LEMMA InParts ==
  /\ IInv => Parts
  /\ Parts' => IInv'
<1>1. IInv => Parts
  BY TypeInParts, Zenon DEF IInv, Parts
<1>2. Types' /\ HedgeOK' => HedgedUnlessFailed'
  BY HedgeFollows, PTL
<1>3. Parts' => IInv'
  BY <1>2, TypeInParts, Zenon DEF IInv, Parts
<1> QED
  BY <1>1, <1>3

LEMMA SizeFacts ==
  ASSUME Types, NEW p \in Pairs
  PROVE  /\ spot[p] \in Int /\ perp[p] \in Int
         /\ \A j \in Jobs : seen[j].spot[p] \in Int /\ seen[j].perp[p] \in Int
<1>1. spot[p] \in Int /\ perp[p] \in Int
  BY DEF Types, HoldingsType
<1>2. \A j \in Jobs : seen[j] \in Sizes
  BY DEF Types, RestType
<1> QED
  BY <1>1, <1>2 DEF Sizes

LEMMA LegFacts ==
  ASSUME Types, NEW j \in Jobs, NEW leg \in orders[j]
  PROVE  /\ leg \in Legs /\ leg.pair \in Pairs /\ leg.market \in {"spot", "perp"} /\ leg.delta \in Int
         /\ phase[j] # "idle" /\ running # j
<1>1. leg \in Legs
  BY DEF Types, OrdersType
<1>2. phase[j] # "idle" /\ running # j
  BY DEF Types, OrdersType
<1> QED
  BY <1>1, <1>2 DEF Legs

\* A step that trades nothing: what is held and what is under way stay as they are.
LEMMA NothingTraded ==
  ASSUME Parts, UNCHANGED <<config, holdings>>, orders'["execute"] = orders["execute"],
         failures' \in {failures, failures + 1}
  PROVE  LegsOK' /\ HedgeOK' /\ SidesOK'
<1>1. UNCHANGED <<config, spot, perp>> /\ failures \in Nat
  BY DEF holdings, Parts, Types, RestType
<1>2. (Alone' => Alone) /\ (Careful' => Careful)
  BY <1>1 DEF Alone, Careful
<1>3. LegsOK'
  BY DEF Parts, LegsOK
<1>4. HedgeOK'
  BY <1>1, <1>2 DEF Parts, HedgeOK
<1>5. SidesOK'
  BY <1>1, <1>2 DEF Parts, SidesOK, Reversed
<1> QED
  BY <1>3, <1>4, <1>5

\* A step of the garbage collection: it is in the configuration, and only what is
\* said of every configuration is at stake.
LEMMA CollectionIsApart ==
  ASSUME Parts, ~Alone, Types', UNCHANGED config, running # "execute",
         phase'["execute"] = phase["execute"], todo'["execute"] = todo["execute"],
         orders'["execute"] = orders["execute"], failed'["execute"] = failed["execute"],
         failures' \in {failures, failures + 1}
  PROVE  Parts'
<1>1. ~Alone' /\ ~Careful' /\ failures \in Nat
  BY DEF Alone, Careful, Parts, Types, RestType
<1>2. RoundOK'
  BY <1>1 DEF Parts, RoundOK
<1>3. LegsOK'
  BY DEF Parts, LegsOK
<1> QED
  BY <1>1, <1>2, <1>3 DEF Parts, HedgeOK, SidesOK, ReadsOK, BalanceOK

-----------------------------------------------------------------------------
(* The garbage collection.                                                 *)

LEMMA CollectionKeepsParts ==
  ASSUME Parts, Collection \/ \E ps \in SUBSET Pairs : StartCollect(ps)
  PROVE  Parts'
<1>1. /\ Types /\ RoundOK /\ \A q \in Pairs : spot[q] \in Int /\ perp[q] \in Int
  BY DEF Parts, Types, HoldingsType
<1>2. /\ phase \in [Jobs -> Phases] /\ todo \in [Jobs -> SUBSET Pairs]
      /\ seen \in [Jobs -> Sizes] /\ failed \in [Jobs -> BOOLEAN]
      /\ orders \in [Jobs -> SUBSET Legs] /\ "execute" \in Jobs /\ "collect" \in Jobs
  BY <1>1 DEF Types, RestType, OrdersType, Jobs
<1>3. CASE \E ps \in SUBSET Pairs : StartCollect(ps)
  <2>1. PICK ps \in SUBSET Pairs : StartCollect(ps)
    BY <1>3
  <2>2. /\ "garbage_collect" \in config /\ running = "none" /\ running' = "collect"
        /\ phase["collect"] = "idle"
        /\ phase' = [phase EXCEPT !["collect"] = "decrease"]
        /\ todo' = [todo EXCEPT !["collect"] = ps]
        /\ seen' = [seen EXCEPT !["collect"] = Assets]
        /\ UNCHANGED <<config, spot, perp, level, decreased, orders, failed, failures>>
    BY <2>1 DEF StartCollect, holdings
  <2>3. Types'
    <3>1. Assets \in Sizes
      BY <1>1, AssetsFacts DEF Types
    <3> QED
      BY <1>1, <1>2, <2>2, <3>1
         DEF Types, HoldingsType, RestType, OrdersType, Jobs, Phases
  <2> QED
    BY <1>1, <1>2, <2>2, <2>3, CollectionIsApart DEF Alone
<1>4. CASE ResumeCollect
  <2>1. /\ running = "none" /\ running' = "collect" /\ phase["collect"] # "idle"
        /\ orders["collect"] = {}
        /\ todo' = [todo EXCEPT !["collect"] = IF failed["collect"] THEN {} ELSE @]
        /\ UNCHANGED <<config, spot, perp, phase, seen, level, decreased, orders, failed, failures>>
    BY <1>4 DEF ResumeCollect, holdings
  <2>2. Types'
    BY <1>1, <1>2, <2>1 DEF Types, HoldingsType, RestType, OrdersType, Jobs
  <2> QED
    BY <1>1, <1>2, <2>1, <2>2, CollectionIsApart DEF RoundOK
<1>5. CASE EndCollect
  <2>1. /\ running = "collect" /\ running' = "none"
        /\ phase' = [phase EXCEPT !["collect"] = "idle"]
        /\ seen' = [seen EXCEPT !["collect"] = NotRead]
        /\ failed' = [failed EXCEPT !["collect"] = FALSE]
        /\ UNCHANGED <<config, spot, perp, todo, level, decreased, orders, failures>>
    BY <1>5 DEF EndCollect, holdings
  <2>2. phase["collect"] # "idle" /\ orders["collect"] = {}
    BY <1>1, <1>2, <2>1 DEF Types, OrdersType
  <2>3. Types'
    <3>1. NotRead \in Sizes
      BY DEF NotRead, Sizes
    <3>2. seen' \in [Jobs -> Sizes] /\ phase' \in [Jobs -> Phases]
      BY <1>2, <2>1, <3>1 DEF Phases
    <3>3. failed' \in [Jobs -> BOOLEAN]
      BY <1>2, <2>1
    <3> QED
      BY <1>1, <1>2, <2>1, <2>2, <3>2, <3>3
         DEF Types, HoldingsType, RestType, OrdersType, Jobs
  <2>4. failed'["execute"] = failed["execute"]
    BY <1>2, <2>1
  <2> QED
    BY <1>1, <1>2, <2>1, <2>2, <2>3, <2>4, CollectionIsApart DEF RoundOK
<1>6. CASE \E p \in Pairs : Collect(p)
  <2>1. PICK p \in Pairs : Collect(p)
    BY <1>6
  <2>2. /\ running = "collect" /\ p \in todo["collect"]
        /\ UNCHANGED <<config, spot, perp, phase, seen, level, decreased, failures>>
    BY <2>1 DEF Collect, holdings
  <2>3. phase["collect"] # "idle" /\ orders["collect"] = {}
    BY <1>1, <1>2, <2>2 DEF Types, OrdersType
  <2>4. todo' \in [Jobs -> SUBSET Pairs] /\ todo'["execute"] = todo["execute"]
    <3>1. \E ps \in SUBSET Pairs : todo' = [todo EXCEPT !["collect"] = ps]
      <4>1. todo["collect"] \ {p} \in SUBSET Pairs
        BY <1>2
      <4> QED
        BY <2>1, <4>1 DEF Collect
    <3> QED
      BY <1>2, <3>1
  <2>5. CASE NoOrder
    <3>1. UNCHANGED <<orders, failed, running>>
      BY <2>5 DEF NoOrder
    <3>2. Types'
      BY <1>1, <2>2, <2>4, <3>1 DEF Types, HoldingsType, RestType, OrdersType
    <3> QED
      BY <1>1, <1>2, <2>2, <2>3, <2>4, <3>1, <3>2, CollectionIsApart DEF RoundOK
  <2>6. CASE MakePair("collect", p, -MinSize)
    <3>1. /\ orders' \in [Jobs -> SUBSET Legs] /\ orders'["execute"] = orders["execute"]
          /\ failed' \in [Jobs -> BOOLEAN] /\ failed'["execute"] = failed["execute"]
          /\ running' = "none"
      <4>1. -MinSize \in Int
        OBVIOUS
      <4> QED
        BY <1>1, <1>2, <2>6, <4>1, MakePairFacts
    <3>2. Types'
      <4>1. OrdersType'
        BY <1>1, <2>2, <2>3, <3>1 DEF Types, OrdersType, Jobs
      <4> QED
        BY <1>1, <2>2, <2>4, <3>1, <4>1 DEF Types, HoldingsType, RestType
    <3> QED
      BY <1>1, <1>2, <2>2, <2>3, <2>4, <3>1, <3>2, CollectionIsApart DEF RoundOK
  <2> QED
    BY <2>1, <2>5, <2>6 DEF Collect
<1> QED
  BY <1>3, <1>4, <1>5, <1>6 DEF Collection

-----------------------------------------------------------------------------
(* Orders.                                                                 *)

\* The execution of one leg of execute leaves the other one alone under way.
LEMMA LegExecuted ==
  ASSUME Parts, NEW leg \in orders["execute"], Execute(leg),
         orders'["execute"] = orders["execute"] \ {leg},
         UNCHANGED <<config, running, phase, todo, seen, decreased>>,
         failures' \in {failures, failures + 1}
  PROVE  /\ SidesOK' /\ ReadsOK'
         /\ failures' = failures => HedgeOK'
<1> DEFINE L == orders["execute"]
<1>1. /\ Types /\ LegsOK /\ failures \in Nat
  BY DEF Parts, Types, RestType
<1>2. /\ \A l \in L : /\ l \in Legs /\ l.pair \in Pairs /\ l.market \in {"spot", "perp"}
                      /\ l.delta \in Int
      /\ phase["execute"] # "idle" /\ running # "execute"
  BY <1>1, LegFacts DEF Jobs
<1>3. \A p \in Pairs : spot[p] \in Int /\ perp[p] \in Int
  BY <1>1, SizeFacts
<1>4. /\ \A p \in Pairs \ {leg.pair} : spot'[p] = spot[p] /\ perp'[p] = perp[p]
      /\ IF leg.market = "spot"
         THEN spot'[leg.pair] = spot[leg.pair] + leg.delta /\ perp'[leg.pair] = perp[leg.pair]
         ELSE perp'[leg.pair] = perp[leg.pair] + leg.delta /\ spot'[leg.pair] = spot[leg.pair]
  BY <1>1, <1>2, ExecuteFacts DEF Types
<1>5. (Alone' => Alone) /\ (Careful' => Careful)
  BY <1>1 DEF Alone, Careful
<1>6. \A other \in L \ {leg} : /\ other.pair = leg.pair /\ other.market # leg.market
                               /\ other.delta = -leg.delta
  <2>1. \A other \in L \ {leg} : /\ other.pair = leg.pair /\ other.market # leg.market
                                 /\ leg.delta = -other.delta
    BY <1>1 DEF LegsOK
  <2> QED
    BY <1>2, <2>1
<1>7. SidesOK'
  <2> SUFFICES ASSUME Careful
               PROVE  /\ \A p \in Pairs : ~Reversed(p)'
                      /\ \A l \in L \ {leg} :
                           IF l.market = "spot" THEN spot'[l.pair] + l.delta >= 0
                                                ELSE perp'[l.pair] + l.delta <= 0
    BY <1>5 DEF SidesOK
  <2>1. /\ \A p \in Pairs : spot[p] >= 0 /\ perp[p] <= 0
        /\ \A l \in L : IF l.market = "spot" THEN spot[l.pair] + l.delta >= 0
                                             ELSE perp[l.pair] + l.delta <= 0
    BY <1>3 DEF Parts, SidesOK, Reversed
  <2>2. \A p \in Pairs : spot'[p] >= 0 /\ perp'[p] <= 0
    <3>1. spot'[leg.pair] >= 0 /\ perp'[leg.pair] <= 0
      BY <1>2, <1>3, <1>4, <2>1
    <3> QED
      BY <1>4, <2>1, <3>1
  <2>3. \A p \in Pairs : spot'[p] \in Int /\ perp'[p] \in Int
    BY <1>2, <1>3, <1>4
  <2>4. \A p \in Pairs : ~Reversed(p)'
    BY <2>2, <2>3 DEF Reversed
  <2>5. \A l \in L \ {leg} : IF l.market = "spot" THEN spot'[l.pair] + l.delta >= 0
                                                  ELSE perp'[l.pair] + l.delta <= 0
    BY <1>2, <1>4, <1>6, <2>1
  <2> QED
    BY <2>4, <2>5
<1>8. ReadsOK'
  <2> SUFFICES ASSUME Careful
               PROVE  \A p \in todo["execute"] :
                        UpToDate(p)' /\ \A l \in L \ {leg} : l.pair # p
    BY <1>2, <1>5 DEF ReadsOK
  <2> TAKE p \in todo["execute"]
  <2>1. UpToDate(p) /\ \A l \in L : l.pair # p
    BY DEF Parts, ReadsOK
  <2>2. p \in Pairs \ {leg.pair}
    BY <1>1, <2>1 DEF Types, RestType, Jobs
  <2> QED
    BY <1>4, <2>1, <2>2 DEF UpToDate
<1>9. ASSUME failures' = failures
      PROVE  HedgeOK'
  <2> SUFFICES ASSUME Alone, failures = 0
               PROVE  /\ \A p \in Pairs :
                           (\A l \in L \ {leg} : l.pair # p) => spot'[p] + perp'[p] = 0
                      /\ \A l \in L \ {leg} :
                           spot'[l.pair] + perp'[l.pair] =
                             IF \E other \in L \ {leg} : other # l THEN 0 ELSE -l.delta
    BY <1>5, <1>9 DEF HedgeOK
  <2>1. /\ \A p \in Pairs : (\A l \in L : l.pair # p) => spot[p] + perp[p] = 0
        /\ spot[leg.pair] + perp[leg.pair] =
             IF \E other \in L : other # leg THEN 0 ELSE -leg.delta
    BY DEF Parts, HedgeOK
  <2>2. spot'[leg.pair] + perp'[leg.pair] = spot[leg.pair] + perp[leg.pair] + leg.delta
    BY <1>2, <1>3, <1>4
  <2>3. \A l, other \in L \ {leg} : other = l
    <3>1. \A l, other \in L \ {leg} : l.market = other.market
      BY <1>2, <1>6
    <3> QED
      BY <1>1, <3>1 DEF LegsOK
  <2>4. ASSUME NEW p \in Pairs, \A l \in L \ {leg} : l.pair # p
        PROVE  spot'[p] + perp'[p] = 0
    <3>1. CASE p = leg.pair
      <4>1. ~ \E other \in L : other # leg
        BY <1>6, <2>4, <3>1
      <4> QED
        BY <1>2, <1>3, <2>1, <2>2, <3>1, <4>1
    <3>2. CASE p # leg.pair
      BY <1>4, <2>1, <2>4, <3>2
    <3> QED
      BY <3>1, <3>2
  <2>5. ASSUME NEW l \in L \ {leg}
        PROVE  spot'[l.pair] + perp'[l.pair] =
                 IF \E other \in L \ {leg} : other # l THEN 0 ELSE -l.delta
    <3>1. ~ \E other \in L \ {leg} : other # l
      BY <2>3
    <3>2. l.pair = leg.pair /\ l.delta = -leg.delta
      BY <1>6
    <3>3. spot[leg.pair] + perp[leg.pair] = 0
      BY <2>1, <2>5
    <3> QED
      BY <1>2, <2>2, <3>1, <3>2, <3>3
  <2> QED
    BY <2>4, <2>5
<1> QED
  BY <1>7, <1>8, <1>9

\* So does its refusal, which breaks the hedge but not the sides.
LEMMA LegRefused ==
  ASSUME Parts, NEW leg \in orders["execute"], UNCHANGED holdings,
         orders'["execute"] = orders["execute"] \ {leg},
         UNCHANGED <<config, running, phase, todo, seen, decreased>>,
         failures' \in {failures, failures + 1}
  PROVE  SidesOK' /\ ReadsOK'
<1>1. UNCHANGED <<spot, perp>> /\ failures \in Nat
  BY DEF holdings, Parts, Types, RestType
<1>2. Careful' => Careful
  BY <1>1 DEF Careful, Alone
<1>3. SidesOK'
  BY <1>1, <1>2 DEF Parts, SidesOK, Reversed
<1>4. ReadsOK'
  BY <1>1, <1>2 DEF Parts, ReadsOK, UpToDate
<1> QED
  BY <1>3, <1>4

LEMMA OrderingKeepsParts ==
  ASSUME Parts, Ordering
  PROVE  Parts'
<1> PICK j \in Jobs : \E leg \in orders[j] : OrderSucceeds(j, leg) \/ OrderFails(j, leg)
  BY DEF Ordering
<1>1. PICK leg \in orders[j] : OrderSucceeds(j, leg) \/ OrderFails(j, leg)
  OBVIOUS
<1>2. /\ orders' = [orders EXCEPT ![j] = @ \ {leg}]
      /\ Execute(leg) \/ UNCHANGED holdings
      /\ UNCHANGED <<config, phase, todo, seen, level, decreased, running>>
      /\ \/ Execute(leg) /\ UNCHANGED <<failed, failures>>
         \/ /\ failures' = failures + 1 /\ failures < MaxFailures
            /\ failed' = [failed EXCEPT ![j] = TRUE]
  BY <1>1 DEF OrderSucceeds, OrderFails
<1>3. Types /\ RoundOK /\ failures \in Nat
  BY DEF Parts, Types, RestType
<1>4. /\ leg \in Legs /\ phase[j] # "idle" /\ running # j
  BY <1>3, LegFacts
<1>5. HoldingsType'
  <2>1. CASE Execute(leg)
    BY <1>3, <1>4, <2>1, ExecuteFacts DEF Types
  <2>2. CASE UNCHANGED holdings
    BY <1>3, <2>2 DEF Types, HoldingsType, holdings
  <2> QED
    BY <1>2, <2>1, <2>2
<1>6. failed' \in [Jobs -> BOOLEAN] /\ \A k \in Jobs \ {j} : failed'[k] = failed[k]
  BY <1>2, <1>3 DEF Types, RestType
<1>7. failures' \in 0..MaxFailures /\ failures' \in {failures, failures + 1}
  BY <1>2, <1>3 DEF Types, RestType
<1>8. /\ orders' \in [Jobs -> SUBSET Legs] /\ orders'[j] = orders[j] \ {leg}
      /\ \A k \in Jobs \ {j} : orders'[k] = orders[k]
  BY <1>2, <1>3 DEF Types, OrdersType
<1>9. Types'
  <2>1. RestType'
    BY <1>2, <1>3, <1>6, <1>7 DEF Types, RestType
  <2>2. OrdersType'
    BY <1>2, <1>3, <1>8 DEF Types, OrdersType
  <2> QED
    BY <1>5, <2>1, <2>2 DEF Types
<1>10. CASE j = "collect"
  <2>1. ~Alone
    BY <1>3, <1>4, <1>10 DEF RoundOK
  <2>2. orders'["execute"] = orders["execute"] /\ failed'["execute"] = failed["execute"]
    BY <1>6, <1>8, <1>10 DEF Jobs
  <2>3. CASE running # "execute"
    BY <1>2, <1>7, <1>9, <2>1, <2>2, <2>3, CollectionIsApart
  <2>4. CASE running = "execute"
    <3>1. ~Alone' /\ ~Careful'
      BY <1>2, <2>1 DEF Alone, Careful
    <3>2. RoundOK'
      BY <1>2, <1>3, <1>7, <2>2, <3>1 DEF RoundOK
    <3>3. LegsOK'
      BY <2>2 DEF Parts, LegsOK
    <3> QED
      BY <1>9, <3>1, <3>2, <3>3 DEF Parts, HedgeOK, SidesOK, ReadsOK, BalanceOK
  <2> QED
    BY <2>3, <2>4
<1>11. CASE j = "execute"
  <2>1. RoundOK'
    <3>1. failures' = 0 => ~failed'["execute"]
      BY <1>2, <1>3, <1>11 DEF RoundOK
    <3>2. UNCHANGED <<config, phase, todo, running>>
      BY <1>2
    <3> QED
      BY <1>3, <3>1, <3>2 DEF RoundOK, Alone
  <2>2. LegsOK'
    BY <1>8, <1>11 DEF Parts, LegsOK
  <2>3. SidesOK' /\ ReadsOK' /\ (failures' = failures => HedgeOK')
    <3>1. CASE Execute(leg)
      BY <1>2, <1>7, <1>8, <1>11, <3>1, LegExecuted
    <3>2. CASE ~Execute(leg)
      <4>1. UNCHANGED holdings /\ failures' # failures
        BY <1>2, <1>3, <3>2
      <4> QED
        BY <1>2, <1>7, <1>8, <1>11, <4>1, LegRefused
    <3> QED
      BY <3>1, <3>2
  <2>4. HedgeOK'
    BY <1>3, <1>7, <2>3 DEF HedgeOK
  <2>5. BalanceOK'
    BY <1>2, <1>3, <1>4, <1>11 DEF RoundOK, BalanceOK
  <2> QED
    BY <1>9, <2>1, <2>2, <2>3, <2>4, <2>5 DEF Parts
<1> QED
  BY <1>10, <1>11 DEF Jobs

-----------------------------------------------------------------------------
(* A round of execute.                                                     *)

\* What is known while execute has the event loop.
LEMMA RunningFacts ==
  ASSUME Parts, running = "execute"
  PROVE  /\ Types /\ orders["execute"] = {} /\ phase["execute"] # "idle"
         /\ phase \in [Jobs -> Phases] /\ todo \in [Jobs -> SUBSET Pairs]
         /\ seen \in [Jobs -> Sizes] /\ failed \in [Jobs -> BOOLEAN]
         /\ todo["execute"] \subseteq Pairs /\ failures \in Nat
         /\ {"execute", "collect"} = Jobs
BY DEF Parts, Types, RestType, OrdersType, Jobs

\* A step that goes on with the round without an order, wherever it goes.
LEMMA GoesOn ==
  ASSUME Parts, running = "execute", UNCHANGED <<config, holdings, running, orders, failed, failures>>,
         phase' \in [Jobs -> Phases], phase'["execute"] # "idle",
         phase'["collect"] = phase["collect"],
         todo' \in [Jobs -> SUBSET Pairs], seen' \in [Jobs -> Sizes],
         level' \in Levels, decreased' \in BOOLEAN
  PROVE  /\ Types' /\ LegsOK' /\ HedgeOK' /\ SidesOK'
         /\ (phase'["execute"] \in {"increase", "increased"} => todo'["execute"] = {})
              /\ (phase'["execute"] = "always_decrease" /\ "always_decrease" \notin config =>
                    todo'["execute"] = {}) => RoundOK'
<1>1. Types /\ RoundOK /\ orders["execute"] = {} /\ phase["execute"] # "idle"
  BY RunningFacts DEF Parts
<1>2. UNCHANGED <<spot, perp>>
  BY DEF holdings
<1>3. Types'
  <2>1. OrdersType'
    BY <1>1 DEF Types, OrdersType, Jobs
  <2> QED
    BY <1>1, <1>2, <2>1 DEF Types, HoldingsType, RestType
<1>4. LegsOK' /\ HedgeOK' /\ SidesOK'
  BY NothingTraded
<1> QED
  BY <1>1, <1>3, <1>4 DEF RoundOK, Alone

\* A step that places the two orders of a pair.
LEMMA PairIsMade ==
  ASSUME Parts, running = "execute", NEW p \in Pairs, NEW size \in Int,
         MakePair("execute", p, size), UNCHANGED <<config, holdings, failures>>,
         phase'["execute"] # "idle", phase'["collect"] = phase["collect"],
         Careful => spot[p] + size >= 0 /\ perp[p] - size <= 0
  PROVE  /\ OrdersType' /\ LegsOK' /\ HedgeOK' /\ SidesOK'
         /\ running' = "none" /\ failed' \in [Jobs -> BOOLEAN] /\ failed'["execute"] = FALSE
         /\ \A leg \in orders'["execute"] : leg.pair = p
<1>1. /\ Types /\ orders["execute"] = {} /\ UNCHANGED <<config, spot, perp, failures>>
      /\ \A q \in Pairs : spot[q] \in Int /\ perp[q] \in Int
      /\ {"execute", "collect"} = Jobs
  BY RunningFacts, SizeFacts DEF holdings
<1> DEFINE buy == Leg(p, "spot", size)
           sell == Leg(p, "perp", -size)
<1>2. /\ orders' \in [Jobs -> SUBSET Legs] /\ orders'["execute"] = {buy, sell}
      /\ orders'["collect"] = orders["collect"]
      /\ failed' \in [Jobs -> BOOLEAN] /\ failed'["execute"] = FALSE
      /\ running' = "none"
  BY <1>1, MakePairFacts
<1>3. /\ buy.pair = p /\ buy.market = "spot" /\ buy.delta = size
      /\ sell.pair = p /\ sell.market = "perp" /\ sell.delta = -size
  BY DEF Leg
<1> HIDE DEF buy, sell
<1>4. buy # sell /\ buy.delta = -sell.delta
  BY <1>3
<1>5. OrdersType'
  BY <1>1, <1>2 DEF Types, OrdersType
<1>6. LegsOK'
  BY <1>2, <1>3, <1>4 DEF LegsOK
<1>7. HedgeOK'
  <2> SUFFICES ASSUME Alone, failures = 0
               PROVE  /\ \A q \in Pairs : spot[q] + perp[q] = 0
                      /\ \A leg \in {buy, sell} : \E other \in {buy, sell} : other # leg
    BY <1>1, <1>2, <1>3 DEF HedgeOK, Alone
  <2> QED
    BY <1>1, <1>4 DEF Parts, HedgeOK
<1>8. SidesOK'
  <2> SUFFICES ASSUME Careful
               PROVE  /\ \A q \in Pairs : ~Reversed(q)
                      /\ \A leg \in {buy, sell} :
                           IF leg.market = "spot" THEN spot[leg.pair] + leg.delta >= 0
                                                  ELSE perp[leg.pair] + leg.delta <= 0
    BY <1>1, <1>2 DEF SidesOK, Careful, Alone, Reversed
  <2>1. \A q \in Pairs : ~Reversed(q)
    BY DEF Parts, SidesOK
  <2>2. spot[buy.pair] + buy.delta >= 0 /\ perp[sell.pair] + sell.delta <= 0
    BY <1>1, <1>3
  <2> QED
    BY <1>3, <2>1, <2>2
<1> QED
  BY <1>2, <1>3, <1>5, <1>6, <1>7, <1>8

LEMMA IncreaseKeepsParts ==
  ASSUME Parts, NEW p \in Pairs, NEW size \in 1..MaxSize, Increase(p, size)
  PROVE  Parts'
<1>1. /\ running = "execute" /\ phase["execute"] = "increase"
      /\ MakePair("execute", p, size)
      /\ phase' = [phase EXCEPT !["execute"] = "increased"]
      /\ UNCHANGED <<config, holdings, todo, seen, level, decreased, failures>>
  BY DEF Increase
<1>2. /\ Types /\ RoundOK /\ {"execute", "collect"} = Jobs /\ phase \in [Jobs -> Phases]
      /\ spot[p] \in Int /\ perp[p] \in Int
  BY <1>1, RunningFacts, SizeFacts DEF Parts
<1>3. /\ phase' \in [Jobs -> Phases] /\ phase'["execute"] = "increased"
      /\ phase'["collect"] = phase["collect"]
  BY <1>1, <1>2 DEF Phases
<1>4. Careful => spot[p] + size >= 0 /\ perp[p] - size <= 0
  BY <1>2 DEF Parts, SidesOK, Reversed
<1>5. /\ OrdersType' /\ LegsOK' /\ HedgeOK' /\ SidesOK'
      /\ running' = "none" /\ failed' \in [Jobs -> BOOLEAN] /\ failed'["execute"] = FALSE
  <2>1. size \in Int /\ phase'["execute"] # "idle"
    BY <1>3
  <2> QED
    BY <1>1, <1>3, <1>4, <2>1, PairIsMade
<1>6. Types'
  BY <1>1, <1>2, <1>3, <1>5 DEF Types, HoldingsType, RestType, holdings
<1>7. todo'["execute"] = {}
  BY <1>1, <1>2 DEF RoundOK
<1>8. RoundOK'
  BY <1>1, <1>2, <1>3, <1>5, <1>7 DEF RoundOK, Alone
<1>9. ReadsOK' /\ BalanceOK'
  BY <1>3, <1>7 DEF ReadsOK, BalanceOK
<1> QED
  BY <1>5, <1>6, <1>8, <1>9 DEF Parts

\* decrease_pair asks for more than it sells, and what it has read still holds.
LEMMA DecreaseKeepsParts ==
  ASSUME Parts, NEW p \in Pairs, NEW wished \in 1..MaxSize, Decrease(p, wished)
  PROVE  Parts'
<1> DEFINE held == Smaller(Abs(seen["execute"].spot[p]), Abs(seen["execute"].perp[p]))
           size == IF phase["execute"] = "close" THEN held ELSE Smaller(wished, held)
<1>1. /\ running = "execute"
      /\ phase["execute"] \in {"always_decrease", "decrease", "close"}
      /\ p \in todo["execute"]
      /\ todo' = [todo EXCEPT !["execute"] = @ \ {p}]
      /\ IF Accepts("execute", p, size) THEN MakePair("execute", p, -size) ELSE NoOrder
      /\ UNCHANGED <<config, holdings, phase, seen, level, decreased, failures>>
  BY DEF Decrease
<1>2. /\ Types /\ RoundOK /\ {"execute", "collect"} = Jobs /\ todo \in [Jobs -> SUBSET Pairs]
      /\ phase \in [Jobs -> Phases] /\ orders["execute"] = {}
      /\ spot[p] \in Int /\ perp[p] \in Int
      /\ seen["execute"].spot[p] \in Int /\ seen["execute"].perp[p] \in Int
  BY <1>1, RunningFacts, SizeFacts DEF Parts
<1>3. size \in Int
  BY <1>2 DEF Smaller, Abs
<1> HIDE DEF size
<1>4. /\ todo' \in [Jobs -> SUBSET Pairs] /\ todo'["execute"] = todo["execute"] \ {p}
  BY <1>1, <1>2
<1>5. CASE ~Accepts("execute", p, size)
  <2>1. UNCHANGED <<config, holdings, running, orders, failed, failures, phase, seen, level, decreased>>
    BY <1>1, <1>5 DEF NoOrder
  <2>2. /\ phase' \in [Jobs -> Phases] /\ seen' \in [Jobs -> Sizes]
        /\ level' \in Levels /\ decreased' \in BOOLEAN
    BY <1>2, <2>1 DEF Types, RestType
  <2>3. Types' /\ LegsOK' /\ HedgeOK' /\ SidesOK' /\ RoundOK'
    BY <1>1, <1>2, <1>4, <2>1, <2>2, GoesOn DEF RoundOK
  <2>4. ReadsOK'
    BY <1>4, <2>1 DEF Parts, ReadsOK, Careful, Alone, UpToDate, holdings
  <2>5. BalanceOK'
    BY <1>1 DEF BalanceOK
  <2> QED
    BY <2>3, <2>4, <2>5 DEF Parts
<1>6. CASE Accepts("execute", p, size)
  <2>1. /\ MakePair("execute", p, -size) /\ size >= MinSize
        /\ seen["execute"].spot[p] > size /\ seen["execute"].perp[p] < -size
    BY <1>1, <1>6 DEF Accepts
  <2>2. Careful => UpToDate(p)
    BY <1>1 DEF Parts, ReadsOK
  <2>3. -size \in Int /\ (Careful => spot[p] + (-size) >= 0 /\ perp[p] - (-size) <= 0)
    BY <1>2, <1>3, <2>1, <2>2 DEF UpToDate
  <2>4. phase'["execute"] # "idle" /\ phase'["collect"] = phase["collect"]
    BY <1>1
  <2>5. /\ OrdersType' /\ LegsOK' /\ HedgeOK' /\ SidesOK'
        /\ running' = "none" /\ failed' \in [Jobs -> BOOLEAN] /\ failed'["execute"] = FALSE
        /\ \A leg \in orders'["execute"] : leg.pair = p
    BY <1>1, <2>1, <2>3, <2>4, PairIsMade
  <2>6. Types'
    BY <1>1, <1>2, <1>4, <2>5 DEF Types, HoldingsType, RestType, holdings
  <2>7. "always_decrease" \in config \/ phase["execute"] # "always_decrease"
    BY <1>1, <1>2 DEF RoundOK
  <2>8. RoundOK'
    BY <1>1, <1>2, <2>5, <2>7 DEF RoundOK, Alone
  <2>9. ReadsOK'
    BY <1>1, <1>4, <2>5 DEF Parts, ReadsOK, Careful, Alone, UpToDate, holdings
  <2>10. BalanceOK'
    BY <1>1 DEF BalanceOK
  <2> QED
    BY <2>5, <2>6, <2>8, <2>9, <2>10 DEF Parts
<1> QED
  BY <1>5, <1>6

LEMMA SkipDecreaseKeepsParts ==
  ASSUME Parts, NEW p \in Pairs, SkipDecrease(p)
  PROVE  Parts'
<1>1. /\ running = "execute" /\ phase["execute"] \in {"always_decrease", "decrease"}
      /\ todo' = [todo EXCEPT !["execute"] = @ \ {p}]
      /\ UNCHANGED <<config, holdings, phase, seen, level, decreased, running, orders,
                     failed, failures>>
  BY DEF SkipDecrease
<1>2. /\ Types /\ RoundOK /\ {"execute", "collect"} = Jobs /\ todo \in [Jobs -> SUBSET Pairs]
      /\ phase["execute"] # "idle"
  BY <1>1, RunningFacts DEF Parts
<1>3. /\ todo' \in [Jobs -> SUBSET Pairs] /\ todo'["execute"] = todo["execute"] \ {p}
  BY <1>1, <1>2
<1>4. /\ phase' \in [Jobs -> Phases] /\ seen' \in [Jobs -> Sizes]
      /\ level' \in Levels /\ decreased' \in BOOLEAN
  BY <1>1, <1>2 DEF Types, RestType
<1>5. Types' /\ LegsOK' /\ HedgeOK' /\ SidesOK' /\ RoundOK'
  BY <1>1, <1>2, <1>3, <1>4, GoesOn DEF RoundOK
<1>6. ReadsOK'
  BY <1>1, <1>3 DEF Parts, ReadsOK, Careful, Alone, UpToDate, holdings
<1>7. BalanceOK'
  BY <1>1 DEF BalanceOK
<1> QED
  BY <1>5, <1>6, <1>7 DEF Parts

\* What is read anew holds, and so does what is decreased of it.
LEMMA AfterKeepsParts ==
  ASSUME Parts, AfterIncrease \/ AfterAlwaysDecrease \/ AfterDecrease
  PROVE  Parts'
<1>1. /\ running = "execute" /\ phase["execute"] \notin {"idle", "balance"}
      /\ UNCHANGED <<config, holdings, level, running, orders, failed, failures>>
  BY DEF AfterIncrease, AfterAlwaysDecrease, AfterDecrease
<1>2. /\ Types /\ ReadsOK /\ {"execute", "collect"} = Jobs /\ todo \in [Jobs -> SUBSET Pairs]
      /\ phase \in [Jobs -> Phases] /\ seen \in [Jobs -> Sizes] /\ orders["execute"] = {}
      /\ level \in Levels /\ decreased \in BOOLEAN
  BY <1>1, RunningFacts DEF Parts, Types, RestType
<1>3. UNCHANGED <<spot, perp>> /\ Assets \in Sizes /\ Assets.spot = spot /\ Assets.perp = perp
  BY <1>1, <1>2, AssetsFacts DEF holdings, Types
<1>4. \A assets : Decreasable(assets) \subseteq Pairs
  BY DEF Decreasable
<1>5. ASSUME seen' = [seen EXCEPT !["execute"] = Assets]
      PROVE  seen' \in [Jobs -> Sizes] /\ \A p \in Pairs : UpToDate(p)'
  BY <1>2, <1>3, <1>5 DEF UpToDate
<1>6. ASSUME NEW new \in {"always_decrease", "decrease", "close"},
             phase' = [phase EXCEPT !["execute"] = new],
             todo' \in [Jobs -> SUBSET Pairs], seen' \in [Jobs -> Sizes], decreased' \in BOOLEAN,
             ReadsOK',
             new = "always_decrease" /\ "always_decrease" \notin config =>
               todo'["execute"] = {}
      PROVE  Parts'
  <2>1. /\ phase' \in [Jobs -> Phases] /\ phase'["execute"] = new
        /\ phase'["collect"] = phase["collect"]
    BY <1>2, <1>6 DEF Phases
  <2>2. level' \in Levels
    BY <1>1, <1>2
  <2>3. Types' /\ LegsOK' /\ HedgeOK' /\ SidesOK' /\ RoundOK'
    BY <1>1, <1>6, <2>1, <2>2, GoesOn
  <2>4. BalanceOK'
    BY <2>1 DEF BalanceOK
  <2> QED
    BY <1>6, <2>3, <2>4 DEF Parts
<1>7. CASE AfterIncrease
  <2>1. /\ phase' = [phase EXCEPT !["execute"] = "always_decrease"]
        /\ todo' = [todo EXCEPT !["execute"] =
                      IF "always_decrease" \in config THEN Decreasable(Assets) ELSE {}]
        /\ seen' = [seen EXCEPT !["execute"] = Assets] /\ decreased' = FALSE
    BY <1>7 DEF AfterIncrease, ReadForDecrease
  <2>2. /\ todo' \in [Jobs -> SUBSET Pairs]
        /\ "always_decrease" \notin config => todo'["execute"] = {}
    BY <1>2, <1>4, <2>1
  <2>3. ReadsOK'
    <3>1. todo'["execute"] \subseteq Pairs /\ orders'["execute"] = {}
      BY <1>1, <1>2, <2>2
    <3> QED
      BY <1>5, <2>1, <3>1 DEF ReadsOK
  <2> QED
    BY <1>5, <1>6, <2>1, <2>2, <2>3
<1>8. CASE AfterDecrease
  <2>1. /\ phase' = [phase EXCEPT !["execute"] = "close"]
        /\ todo' = [todo EXCEPT !["execute"] =
                      IF level = "extreme" THEN Decreasable(Assets) ELSE {}]
        /\ seen' = [seen EXCEPT !["execute"] = Assets] /\ decreased' = decreased
    BY <1>8 DEF AfterDecrease
  <2>2. todo' \in [Jobs -> SUBSET Pairs]
    BY <1>2, <1>4, <2>1
  <2>3. ReadsOK'
    <3>1. todo'["execute"] \subseteq Pairs /\ orders'["execute"] = {}
      BY <1>1, <1>2, <2>2
    <3>2. phase'["execute"] = "close"
      BY <1>2, <2>1
    <3> QED
      BY <1>5, <2>1, <3>1, <3>2 DEF ReadsOK
  <2> QED
    BY <1>2, <1>5, <1>6, <2>1, <2>2, <2>3
<1>9. CASE AfterAlwaysDecrease
  <2>1. /\ phase["execute"] = "always_decrease"
        /\ phase' = [phase EXCEPT !["execute"] = "decrease"]
        /\ UNCHANGED <<seen, decreased>>
    BY <1>9 DEF AfterAlwaysDecrease
  <2>2. PICK ps \in IF ~decreased /\ "decrease" \in config /\ level = "high"
                    THEN FirstDecreasable(seen["execute"]) ELSE {{}} :
               todo' = [todo EXCEPT !["execute"] = ps]
    BY <1>9 DEF AfterAlwaysDecrease
  <2>3. ps \subseteq Pairs
    BY <1>4, <2>2 DEF FirstDecreasable
  <2>4. ps # {} => ~decreased /\ "decrease" \in config
    BY <2>2
  <2>5. todo' \in [Jobs -> SUBSET Pairs] /\ todo'["execute"] = ps
    BY <1>2, <2>2, <2>3
  <2>6. Careful /\ ps # {} => \A p \in Pairs : UpToDate(p)
    BY <1>1, <1>2, <2>1, <2>4 DEF ReadsOK
  <2>7. ReadsOK'
    <3>1. Careful' = Careful /\ orders'["execute"] = {}
      BY <1>1, <1>2 DEF Careful, Alone
    <3>2. \A p \in Pairs : UpToDate(p)' <=> UpToDate(p)
      BY <1>3, <2>1 DEF UpToDate
    <3>3. phase'["execute"] = "decrease"
      BY <1>2, <2>1
    <3> QED
      BY <2>3, <2>5, <2>6, <3>1, <3>2, <3>3 DEF ReadsOK
  <2> QED
    BY <1>2, <1>6, <2>1, <2>5, <2>7
<1> QED
  BY <1>7, <1>8, <1>9

\* A pair that is not among the imbalanced ones cannot be traded to any good.
LEMMA EvenPairs ==
  ASSUME Types, NEW p \in Pairs, ~Imbalanced(p), Uneven(p)
  PROVE  SameSide(p)
<1>1. spot[p] \in Int /\ perp[p] \in Int
  BY SizeFacts
<1> QED
  BY <1>1 DEF Imbalanced, Uneven, SameSide, Reversed, Abs

LEMMA AfterCloseKeepsParts ==
  ASSUME Parts, AfterClose
  PROVE  Parts'
<1>1. /\ running = "execute" /\ phase["execute"] = "close"
      /\ phase' = [phase EXCEPT !["execute"] = "balance"]
      /\ todo' = [todo EXCEPT !["execute"] = {p \in Pairs : Imbalanced(p)}]
      /\ seen' = [seen EXCEPT !["execute"] = Assets]
      /\ UNCHANGED <<config, holdings, level, decreased, running, orders, failed, failures>>
  BY DEF AfterClose
<1>2. /\ Types /\ {"execute", "collect"} = Jobs /\ todo \in [Jobs -> SUBSET Pairs]
      /\ phase \in [Jobs -> Phases] /\ seen \in [Jobs -> Sizes] /\ orders["execute"] = {}
      /\ level \in Levels /\ decreased \in BOOLEAN
  BY <1>1, RunningFacts DEF Parts, Types, RestType
<1>3. UNCHANGED <<spot, perp>> /\ Assets \in Sizes /\ Assets.spot = spot /\ Assets.perp = perp
  BY <1>1, <1>2, AssetsFacts DEF holdings, Types
<1>4. /\ phase' \in [Jobs -> Phases] /\ phase'["execute"] = "balance"
      /\ phase'["collect"] = phase["collect"]
  BY <1>1, <1>2 DEF Phases
<1>5. seen' \in [Jobs -> Sizes] /\ \A p \in Pairs : UpToDate(p)'
  BY <1>1, <1>2, <1>3 DEF UpToDate
<1>6. /\ todo' \in [Jobs -> SUBSET Pairs] /\ todo'["execute"] \subseteq Pairs
      /\ \A p \in Pairs \ todo'["execute"] : ~Imbalanced(p)
  BY <1>1, <1>2
<1>7. Types' /\ LegsOK' /\ HedgeOK' /\ SidesOK' /\ RoundOK'
  <2>1. level' \in Levels /\ decreased' \in BOOLEAN
    BY <1>1, <1>2
  <2> QED
    BY <1>1, <1>4, <1>5, <1>6, <2>1, GoesOn
<1>8. ReadsOK'
  <2>1. orders'["execute"] = {}
    BY <1>1, <1>2
  <2> QED
    BY <1>4, <1>5, <1>6, <2>1 DEF ReadsOK
<1>9. BalanceOK'
  <2>1. \A p \in Pairs \ todo'["execute"] : Uneven(p) => SameSide(p)
    BY <1>2, <1>6, EvenPairs
  <2>2. \A p \in Pairs : (Uneven(p)' <=> Uneven(p)) /\ (SameSide(p)' <=> SameSide(p))
    BY <1>3 DEF Uneven, SameSide, Reversed
  <2> QED
    BY <1>5, <1>6, <2>1, <2>2 DEF BalanceOK
<1> QED
  BY <1>7, <1>8, <1>9 DEF Parts

\* The one order of balance_pair makes the two sides equal, and reverses none.
LEMMA BalancingEvens ==
  ASSUME Types, NEW p \in Pairs, NEW legs, UpToDate(p),
         legs = BalancingLegs(p, seen["execute"].spot[p], seen["execute"].perp[p]),
         \/ legs = {} /\ UNCHANGED holdings
         \/ \E leg \in legs : Execute(leg)
  PROVE  /\ HoldingsType'
         /\ \A q \in Pairs \ {p} : spot'[q] = spot[q] /\ perp'[q] = perp[q]
         /\ spot[p] + perp[p] = 0 => spot'[p] = spot[p] /\ perp'[p] = perp[p]
         /\ ~Reversed(p) => ~Reversed(p)'
         /\ Uneven(p)' => SameSide(p)'
<1> DEFINE s == spot[p]
           n == perp[p]
           size == Abs(Abs(s) - Abs(n))
           toward(x) == IF x > 0 THEN -size ELSE size
<1>1. s \in Int /\ n \in Int /\ size \in Int /\ toward(s) \in Int /\ toward(n) \in Int
  BY SizeFacts DEF Abs
<1>2. legs = IF size < MinSize \/ (s > 0 /\ n > 0) \/ (s < 0 /\ n < 0) THEN {}
             ELSE IF Abs(s) > Abs(n) THEN {Leg(p, "spot", toward(s))}
             ELSE {Leg(p, "perp", toward(n))}
  BY DEF BalancingLegs, UpToDate
<1>3. \A m \in {"spot", "perp"}, d \in Int :
        /\ Leg(p, m, d) \in Legs /\ Leg(p, m, d).pair = p /\ Leg(p, m, d).market = m
        /\ Leg(p, m, d).delta = d
  BY DEF Leg, Legs
<1>4. CASE legs = {}
  <2>1. UNCHANGED <<spot, perp>>
    BY <1>4 DEF holdings
  <2>2. size < MinSize \/ (s > 0 /\ n > 0) \/ (s < 0 /\ n < 0)
    BY <1>2, <1>4
  <2>3. Uneven(p) => SameSide(p)
    BY <1>1, <2>2 DEF Uneven, SameSide, Reversed, Abs
  <2> QED
    BY <2>1, <2>3 DEF Types, HoldingsType, Uneven, SameSide, Reversed
<1>5. CASE legs # {}
  <2>1. /\ size >= MinSize /\ ~(s > 0 /\ n > 0) /\ ~(s < 0 /\ n < 0)
        /\ \E leg \in legs : Execute(leg)
    BY <1>1, <1>2, <1>5
  <2>2. CASE Abs(s) > Abs(n)
    <3>1. Execute(Leg(p, "spot", toward(s)))
      BY <1>2, <2>1, <2>2
    <3>2. /\ HoldingsType'
          /\ \A q \in Pairs \ {p} : spot'[q] = spot[q] /\ perp'[q] = perp[q]
          /\ spot'[p] = s + toward(s) /\ perp'[p] = n
      BY <1>1, <1>3, <3>1, ExecuteFacts DEF Types
    <3>3. s + toward(s) = -n
      BY <1>1, <2>1, <2>2 DEF Abs
    <3>4. s + n # 0
      BY <1>1, <2>2 DEF Abs
    <3> HIDE DEF toward, size
    <3>5. spot'[p] = -n /\ spot'[p] + perp'[p] = 0
      BY <1>1, <3>2, <3>3
    <3> QED
      BY <1>1, <3>2, <3>4, <3>5 DEF Uneven, Reversed, Abs
  <2>3. CASE ~(Abs(s) > Abs(n))
    <3>1. Execute(Leg(p, "perp", toward(n)))
      BY <1>2, <2>1, <2>3
    <3>2. /\ HoldingsType'
          /\ \A q \in Pairs \ {p} : spot'[q] = spot[q] /\ perp'[q] = perp[q]
          /\ perp'[p] = n + toward(n) /\ spot'[p] = s
      BY <1>1, <1>3, <3>1, ExecuteFacts DEF Types
    <3>3. n + toward(n) = -s
      BY <1>1, <2>1, <2>3 DEF Abs
    <3>4. s + n # 0
      BY <1>1, <2>1, <2>3 DEF Abs
    <3> HIDE DEF toward, size
    <3>5. perp'[p] = -s /\ spot'[p] + perp'[p] = 0
      BY <1>1, <3>2, <3>3
    <3> QED
      BY <1>1, <3>2, <3>4, <3>5 DEF Uneven, Reversed, Abs
  <2> QED
    BY <2>2, <2>3
<1> QED
  BY <1>4, <1>5

LEMMA BalancingHoldings ==
  ASSUME Types, NEW p \in Pairs, NEW legs,
         legs = BalancingLegs(p, seen["execute"].spot[p], seen["execute"].perp[p]),
         UNCHANGED holdings \/ \E leg \in legs : Execute(leg)
  PROVE  HoldingsType'
<1> DEFINE s == seen["execute"].spot[p]
           n == seen["execute"].perp[p]
           size == Abs(Abs(s) - Abs(n))
           toward(x) == IF x > 0 THEN -size ELSE size
<1>1. s \in Int /\ n \in Int /\ toward(s) \in Int /\ toward(n) \in Int
  BY SizeFacts DEF Abs, Jobs
<1>2. legs \subseteq {Leg(p, "spot", toward(s)), Leg(p, "perp", toward(n))}
  BY DEF BalancingLegs
<1>3. \A m \in {"spot", "perp"}, d \in Int : Leg(p, m, d) \in Legs
  BY DEF Leg, Legs
<1>4. legs \subseteq Legs
  BY <1>1, <1>2, <1>3
<1>5. CASE UNCHANGED holdings
  BY <1>5 DEF holdings, Types, HoldingsType
<1>6. CASE \E leg \in legs : Execute(leg)
  BY <1>4, <1>6, ExecuteFacts DEF Types
<1> QED
  BY <1>5, <1>6

LEMMA BalanceKeepsParts ==
  ASSUME Parts, NEW p \in Pairs, Balance(p)
  PROVE  Parts'
<1> DEFINE legs == BalancingLegs(p, seen["execute"].spot[p], seen["execute"].perp[p])
<1>1. /\ running = "execute" /\ phase["execute"] = "balance" /\ p \in todo["execute"]
      /\ todo' = [todo EXCEPT !["execute"] = @ \ {p}]
      /\ \/ legs = {} /\ UNCHANGED holdings
         \/ \E leg \in legs : Execute(leg)
      /\ UNCHANGED <<config, phase, seen, level, decreased, running, orders, failed, failures>>
  BY DEF Balance
<1> HIDE DEF legs
<1>2. /\ Types /\ RoundOK /\ {"execute", "collect"} = Jobs /\ todo \in [Jobs -> SUBSET Pairs]
      /\ orders["execute"] = {} /\ orders'["execute"] = {}
      /\ \A q \in Pairs : spot[q] \in Int /\ perp[q] \in Int
  BY <1>1, RunningFacts, SizeFacts DEF Parts
<1>3. /\ todo' \in [Jobs -> SUBSET Pairs] /\ todo'["execute"] = todo["execute"] \ {p}
      /\ todo["execute"] \subseteq Pairs
  BY <1>1, <1>2
<1>4. HoldingsType'
  BY <1>1, <1>2, BalancingHoldings DEF legs
<1>5. Types'
  BY <1>1, <1>2, <1>3, <1>4 DEF Types, RestType, OrdersType
<1>6. RoundOK'
  BY <1>1, <1>2 DEF RoundOK, Alone
<1>7. LegsOK'
  BY <1>2 DEF LegsOK
<1>8. Alone' = Alone /\ Careful' = Careful /\ (Careful => Alone)
  BY <1>1 DEF Alone, Careful
<1>9. Alone =>
        /\ \A q \in todo["execute"] : UpToDate(q)
        /\ \A q \in Pairs \ todo["execute"] : Uneven(q) => SameSide(q)
  BY <1>1 DEF Parts, BalanceOK
<1>10. Alone =>
         /\ \A q \in Pairs \ {p} : spot'[q] = spot[q] /\ perp'[q] = perp[q]
         /\ spot[p] + perp[p] = 0 => spot'[p] = spot[p] /\ perp'[p] = perp[p]
         /\ ~Reversed(p) => ~Reversed(p)'
         /\ Uneven(p)' => SameSide(p)'
  BY <1>1, <1>2, <1>9, BalancingEvens DEF legs
<1>11. Alone =>
         \A q \in Pairs \ {p} :
           /\ Reversed(q)' <=> Reversed(q)
           /\ (Uneven(q)' <=> Uneven(q)) /\ (SameSide(q)' <=> SameSide(q))
           /\ UpToDate(q)' <=> UpToDate(q)
  BY <1>1, <1>10 DEF Reversed, Uneven, SameSide, UpToDate
<1>12. HedgeOK'
  <2> SUFFICES ASSUME Alone, failures = 0
               PROVE  \A q \in Pairs : spot'[q] + perp'[q] = 0
    BY <1>1, <1>2, <1>8 DEF HedgeOK
  <2>1. \A q \in Pairs : spot[q] + perp[q] = 0
    BY <1>2 DEF Parts, HedgeOK
  <2> QED
    BY <1>10, <2>1
<1>13. SidesOK'
  <2> SUFFICES ASSUME Careful
               PROVE  \A q \in Pairs : ~Reversed(q)'
    BY <1>2, <1>8 DEF SidesOK
  <2>1. \A q \in Pairs : ~Reversed(q)
    BY DEF Parts, SidesOK
  <2> QED
    BY <1>8, <1>10, <1>11, <2>1
<1>14. ReadsOK'
  BY <1>1, <1>2, <1>3, <1>8, <1>9, <1>11 DEF ReadsOK
<1>15. BalanceOK'
  <2> SUFFICES ASSUME Alone
               PROVE  /\ \A q \in todo["execute"] \ {p} : UpToDate(q)'
                      /\ \A q \in Pairs \ (todo["execute"] \ {p}) : Uneven(q)' => SameSide(q)'
    BY <1>3, <1>8 DEF BalanceOK
  <2> QED
    BY <1>3, <1>9, <1>10, <1>11
<1> QED
  BY <1>5, <1>6, <1>7, <1>12, <1>13, <1>14, <1>15 DEF Parts

\* A round that is left has nothing to do and nothing under way.
LEMMA LeavingKeepsParts ==
  ASSUME Parts, running = "execute", LeaveRound, UNCHANGED <<config, orders>>,
         HoldingsType', failures' \in 0..MaxFailures, HedgeOK', SidesOK'
  PROVE  Parts'
<1>1. /\ Types /\ RoundOK /\ {"execute", "collect"} = Jobs /\ orders["execute"] = {}
  BY RunningFacts DEF Parts
<1>2. /\ running' = "none" /\ phase' \in [Jobs -> Phases] /\ phase'["execute"] = "idle"
      /\ phase'["collect"] = phase["collect"]
      /\ todo' \in [Jobs -> SUBSET Pairs] /\ todo'["execute"] = {}
      /\ seen' \in [Jobs -> Sizes]
      /\ failed' \in [Jobs -> BOOLEAN] /\ failed'["execute"] = FALSE
      /\ level' \in Levels /\ decreased' \in BOOLEAN
  BY <1>1, LeaveRoundFacts
<1>3. OrdersType'
  BY <1>1, <1>2 DEF Types, OrdersType
<1>4. Types'
  BY <1>1, <1>2, <1>3 DEF Types, RestType
<1>5. RoundOK'
  BY <1>1, <1>2 DEF RoundOK, Alone
<1>6. LegsOK'
  BY <1>1 DEF LegsOK
<1>7. ReadsOK' /\ BalanceOK'
  BY <1>2 DEF ReadsOK, BalanceOK
<1> QED
  BY <1>4, <1>5, <1>6, <1>7 DEF Parts

LEMMA EndsKeepParts ==
  ASSUME Parts, EndRound \/ ReadFails \/ \E p \in Pairs : BalanceFails(p)
  PROVE  Parts'
<1>1. /\ running = "execute" /\ LeaveRound /\ UNCHANGED <<config, orders>>
      /\ failures' = failures \/ (failures < MaxFailures /\ failures' = failures + 1)
  BY DEF EndRound, ReadFails, BalanceFails
<1>2. /\ Types /\ failures \in 0..MaxFailures /\ orders["execute"] = {}
      /\ orders'["execute"] = {}
  BY <1>1, RunningFacts DEF Types, RestType
<1>3. failures' \in 0..MaxFailures /\ failures' \in {failures, failures + 1}
  BY <1>1, <1>2
<1>4. CASE UNCHANGED holdings
  <2>1. HoldingsType'
    BY <1>2, <1>4 DEF holdings, Types, HoldingsType
  <2>2. LegsOK' /\ HedgeOK' /\ SidesOK'
    BY <1>1, <1>3, <1>4, NothingTraded
  <2> QED
    BY <1>1, <1>3, <2>1, <2>2, LeavingKeepsParts
<1>5. CASE ~UNCHANGED holdings
  <2>1. PICK p \in Pairs : BalanceFails(p)
    BY <1>5 DEF EndRound, ReadFails
  <2> DEFINE legs == BalancingLegs(p, seen["execute"].spot[p], seen["execute"].perp[p])
  <2>2. /\ phase["execute"] = "balance" /\ p \in todo["execute"] /\ failures' = failures + 1
        /\ \E leg \in legs : Execute(leg)
    BY <1>5, <2>1 DEF BalanceFails
  <2> HIDE DEF legs
  <2>3. HoldingsType'
    BY <1>2, <2>2, BalancingHoldings DEF legs
  <2>4. HedgeOK'
    BY <1>2, <2>2 DEF HedgeOK
  <2>5. SidesOK'
    <3> SUFFICES ASSUME Careful'
                 PROVE  \A q \in Pairs : ~Reversed(q)'
      BY <1>2 DEF SidesOK
    <3>1. Careful /\ Alone
      BY <1>1, <1>2, <2>2 DEF Careful, Alone
    <3>2. UpToDate(p)
      BY <2>2, <3>1 DEF Parts, BalanceOK
    <3>3. /\ \A q \in Pairs \ {p} : spot'[q] = spot[q] /\ perp'[q] = perp[q]
          /\ ~Reversed(p) => ~Reversed(p)'
      BY <1>2, <2>2, <3>2, BalancingEvens DEF legs
    <3>4. \A q \in Pairs : ~Reversed(q)
      BY <3>1 DEF Parts, SidesOK
    <3> QED
      BY <3>3, <3>4 DEF Reversed
  <2> QED
    BY <1>1, <1>3, <2>3, <2>4, <2>5, LeavingKeepsParts
<1> QED
  BY <1>4, <1>5

LEMMA StartKeepsParts ==
  ASSUME Parts, StartRound
  PROVE  Parts'
<1>1. /\ running = "none" /\ phase["execute"] = "idle" /\ running' = "execute"
      /\ phase' = [phase EXCEPT !["execute"] = "increase"]
      /\ level' \in Levels
      /\ UNCHANGED <<config, holdings, todo, seen, decreased, orders, failed, failures>>
  BY DEF StartRound, Levels
<1>2. /\ Types /\ RoundOK /\ phase \in [Jobs -> Phases] /\ {"execute", "collect"} = Jobs
      /\ orders["execute"] = {}
  BY <1>1 DEF Parts, Types, RestType, OrdersType, Jobs
<1>3. /\ phase' \in [Jobs -> Phases] /\ phase'["execute"] = "increase"
      /\ phase'["collect"] = phase["collect"]
  BY <1>1, <1>2 DEF Phases
<1>4. OrdersType'
  BY <1>1, <1>2, <1>3 DEF Types, OrdersType
<1>5. Types'
  BY <1>1, <1>2, <1>3, <1>4 DEF Types, HoldingsType, RestType, holdings
<1>6. todo'["execute"] = {}
  BY <1>1, <1>2 DEF RoundOK
<1>7. RoundOK'
  BY <1>1, <1>2, <1>3, <1>6 DEF RoundOK, Alone
<1>8. LegsOK' /\ HedgeOK' /\ SidesOK'
  BY <1>1, NothingTraded
<1>9. ReadsOK' /\ BalanceOK'
  BY <1>3, <1>6 DEF ReadsOK, BalanceOK
<1> QED
  BY <1>5, <1>7, <1>8, <1>9 DEF Parts

\* A pair that was always-decreased keeps the round from decreasing another one of the
\* same collection, unless an order has failed.
LEMMA ResumeKeepsParts ==
  ASSUME Parts, ResumeRound
  PROVE  Parts'
<1>1. /\ running = "none" /\ phase["execute"] # "idle" /\ orders["execute"] = {}
      /\ running' = "execute"
      /\ decreased' = (decreased \/ (phase["execute"] = "always_decrease" /\ ~failed["execute"]))
      /\ UNCHANGED <<config, holdings, phase, todo, seen, level, orders, failed, failures>>
  BY DEF ResumeRound
<1>2. /\ Types /\ RoundOK /\ {"execute", "collect"} = Jobs
  BY DEF Parts, Jobs
<1>3. decreased' \in BOOLEAN
  BY <1>1
<1>4. Types'
  BY <1>1, <1>2, <1>3 DEF Types, HoldingsType, RestType, OrdersType, holdings
<1>5. RoundOK'
  BY <1>1, <1>2 DEF RoundOK, Alone
<1>6. LegsOK' /\ HedgeOK' /\ SidesOK'
  BY <1>1, NothingTraded
<1>7. ReadsOK'
  <2>1. Careful /\ "decrease" \in config /\ phase["execute"] = "always_decrease" => decreased'
    <3> SUFFICES ASSUME Careful, "decrease" \in config, phase["execute"] = "always_decrease"
                 PROVE  decreased'
      OBVIOUS
    <3>1. "always_decrease" \in config
      BY <1>1, <1>2 DEF RoundOK
    <3>2. ~failed["execute"]
      BY <1>2, <3>1 DEF Careful, RoundOK
    <3> QED
      BY <1>1, <3>2
  <2>2. Careful' = Careful /\ UNCHANGED <<spot, perp>>
    BY <1>1 DEF Careful, Alone, holdings
  <2>3. Careful => \A p \in todo["execute"] :
                     UpToDate(p)' /\ \A leg \in orders'["execute"] : leg.pair # p
    BY <1>1, <2>2 DEF Parts, ReadsOK, UpToDate
  <2> QED
    BY <1>1, <2>1, <2>2, <2>3 DEF ReadsOK
<1>8. BalanceOK'
  BY <1>1, <1>2 DEF RoundOK, BalanceOK
<1> QED
  BY <1>4, <1>5, <1>6, <1>7, <1>8 DEF Parts

-----------------------------------------------------------------------------
(* The theorems.                                                           *)

LEMMA InitEstablishes == Init => Parts
<1> SUFFICES ASSUME Init PROVE Parts
  OBVIOUS
<1>1. /\ spot \in [Pairs -> 0..MaxSize] /\ perp = [p \in Pairs |-> -spot[p]]
      /\ failures = 0
  BY DEF Init
<1>2. \A p \in Pairs : spot[p] \in 0..MaxSize /\ perp[p] = -spot[p]
  BY <1>1
<1>3. spot \in [Pairs -> Int] /\ perp \in [Pairs -> Int]
  <2>1. \A p \in Pairs : -spot[p] \in Int
    BY <1>2
  <2> QED
    BY <1>1, <2>1
<1>4. NotRead \in Sizes
  BY DEF NotRead, Sizes
<1>5. /\ phase = [j \in Jobs |-> "idle"] /\ orders = [j \in Jobs |-> {}]
      /\ todo = [j \in Jobs |-> {}] /\ seen = [j \in Jobs |-> NotRead]
      /\ failed = [j \in Jobs |-> FALSE] /\ running = "none"
  BY DEF Init
<1>6. RestType
  <2>1. seen \in [Jobs -> Sizes] /\ todo \in [Jobs -> SUBSET Pairs]
    BY <1>4, <1>5
  <2>2. phase \in [Jobs -> Phases] /\ failed \in [Jobs -> BOOLEAN]
    BY <1>5 DEF Phases
  <2>3. level \in Levels /\ decreased \in BOOLEAN /\ config \in Configs
    BY DEF Init, Levels
  <2>4. failures \in 0..MaxFailures
    BY <1>1
  <2> QED
    BY <1>5, <2>1, <2>2, <2>3, <2>4 DEF RestType
<1>7. OrdersType
  BY <1>5 DEF OrdersType, Jobs
<1>8. /\ phase["execute"] = "idle" /\ phase["collect"] = "idle" /\ todo["execute"] = {}
      /\ orders["execute"] = {} /\ failed["execute"] = FALSE
  BY <1>5 DEF Jobs
<1>9. RoundOK /\ LegsOK /\ ReadsOK /\ BalanceOK
  BY <1>8 DEF RoundOK, LegsOK, ReadsOK, BalanceOK
<1>10. HedgeOK /\ SidesOK
  <2>1. \A p \in Pairs : spot[p] + perp[p] = 0 /\ ~Reversed(p)
    BY <1>2 DEF Reversed
  <2> QED
    BY <1>8, <2>1 DEF HedgeOK, SidesOK
<1> QED
  BY <1>3, <1>6, <1>7, <1>9, <1>10 DEF Parts, Types, HoldingsType

LEMMA StutterKeepsParts ==
  ASSUME Parts, UNCHANGED vars
  PROVE  Parts'
<1> UNCHANGED <<config, spot, perp, phase, todo, seen, level, decreased, running, orders,
                failed, failures>>
  BY DEF vars
<1>1. Types' /\ RoundOK'
  BY DEF Parts, Types, HoldingsType, RestType, OrdersType, RoundOK, Alone
<1>2. LegsOK' /\ HedgeOK' /\ SidesOK'
  BY DEF Parts, LegsOK, HedgeOK, SidesOK, Careful, Alone, Reversed
<1>3. ReadsOK' /\ BalanceOK'
  BY DEF Parts, ReadsOK, BalanceOK, Careful, Alone, UpToDate, Uneven, SameSide, Reversed
<1> QED
  BY <1>1, <1>2, <1>3 DEF Parts

LEMMA NextKeepsParts ==
  ASSUME Parts, [Next]_vars
  PROVE  Parts'
<1>1. CASE Round
  BY <1>1, StartKeepsParts, ResumeKeepsParts, EndsKeepParts, AfterKeepsParts,
     AfterCloseKeepsParts, IncreaseKeepsParts, DecreaseKeepsParts, SkipDecreaseKeepsParts,
     BalanceKeepsParts DEF Round
<1>2. CASE Collection \/ \E ps \in SUBSET Pairs : StartCollect(ps)
  BY <1>2, CollectionKeepsParts
<1>3. CASE Ordering
  BY <1>3, OrderingKeepsParts
<1>4. CASE UNCHANGED vars
  BY <1>4, StutterKeepsParts
<1> QED
  BY <1>1, <1>2, <1>3, <1>4 DEF Next

\* For any pairs, sizes and configuration: while nothing has failed and the collection is
\* off, every pair without an order under way is hedged; and the reasons for that, among
\* them that what a round has read of a pair still holds when it trades it.
THEOREM Invariance == Spec => []IInv
<1>1. Init => Parts
  BY InitEstablishes
<1>2. Parts /\ [Next]_vars => Parts'
  BY NextKeepsParts
<1>3. Parts => IInv
  BY TypeInParts, HedgeFollows, Zenon DEF Parts, IInv
<1> QED
  BY <1>1, <1>2, <1>3, PTL DEF Spec

\* No pair is held the reverse way, but for the two stale reads of the code: the garbage
\* collection crossing a round, and the second decrease after a failed order.
THEOREM ReversedByStaleRead == Spec => []ReversedOnlyByStaleRead
<1>1. IInv => ReversedOnlyByStaleRead
  <2> SUFFICES ASSUME IInv PROVE ReversedOnlyByStaleRead
    OBVIOUS
  <2>1. SidesOK /\ failures \in Nat
    BY InParts DEF Parts, Types, RestType
  <2> QED
    BY <2>1 DEF SidesOK, Careful, Alone, ReversedOnlyByStaleRead
<1> QED
  BY <1>1, Invariance, PTL

\* A round that ends without an error leaves no pair uneven that balance_pair trades.
THEOREM EndsBalanced == Spec => RoundEndsBalanced
<1>1. IInv /\ [Next]_vars =>
        [phase["execute"] = "balance" /\ phase'["execute"] = "idle" /\ failures' = failures =>
           \A p \in Pairs : Uneven(p)' => SameSide(p)' \/ "garbage_collect" \in config]_vars
  <2> SUFFICES ASSUME IInv, Next, phase["execute"] = "balance", phase'["execute"] = "idle",
                      failures' = failures, "garbage_collect" \notin config
               PROVE  \A p \in Pairs : Uneven(p)' => SameSide(p)'
    OBVIOUS
  <2>1. Parts /\ Types /\ RoundOK /\ BalanceOK /\ LegsOK
    BY InParts DEF Parts
  <2>2. /\ running = "execute" /\ phase["collect"] = "idle" /\ orders["execute"] = {}
        /\ orders["collect"] = {} /\ failures \in Nat /\ phase \in [Jobs -> Phases]
        /\ {"execute", "collect"} = Jobs
    BY <2>1, RunningFacts DEF RoundOK, Alone, Types, OrdersType, Jobs
  <2>3. EndRound
    <3>1. ~Collection /\ ~Ordering /\ ~\E ps \in SUBSET Pairs : StartCollect(ps)
      BY <2>2 DEF Collection, ResumeCollect, EndCollect, Collect, Ordering, StartCollect
    <3>2. Round
      BY <3>1 DEF Next
    <3>3. /\ ~StartRound /\ ~ResumeRound /\ ~ReadFails /\ ~AfterIncrease
          /\ ~AfterAlwaysDecrease /\ ~AfterDecrease /\ ~AfterClose
          /\ \A p \in Pairs : /\ \A size \in 1..MaxSize : ~Increase(p, size) /\ ~Decrease(p, size)
                              /\ ~SkipDecrease(p) /\ ~Balance(p) /\ ~BalanceFails(p)
      BY <2>2 DEF StartRound, ResumeRound, ReadFails, AfterIncrease, AfterAlwaysDecrease,
                  AfterDecrease, AfterClose, Increase, Decrease, SkipDecrease, Balance,
                  BalanceFails
    <3> QED
      BY <3>2, <3>3 DEF Round
  <2>4. todo["execute"] = {} /\ UNCHANGED <<spot, perp>>
    BY <2>3 DEF EndRound, holdings
  <2>5. \A p \in Pairs : Uneven(p) => SameSide(p)
    BY <2>1, <2>4 DEF BalanceOK, Alone
  <2> QED
    BY <2>4, <2>5 DEF Uneven, SameSide, Reversed
<1> QED
  BY <1>1, Invariance, PTL DEF Spec, RoundEndsBalanced

=============================================================================
