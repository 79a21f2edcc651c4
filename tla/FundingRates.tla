---------------------------- MODULE FundingRates ----------------------------
(***************************************************************************)
(* At what rate and for how long money is offered on Bitfinex: a window of *)
(* rates seen in the books, its mean, and the rules of a strategy.  Rates  *)
(* are in percent a year, times the length of the window; the code keeps   *)
(* daily ones and divides those of the strategy by 36500.                  *)
(***************************************************************************)
EXTENDS Integers, Sequences

CONSTANTS
  InitialRate,   \* 25.55, meant as a yearly rate, among daily ones
  WindowSize,    \* 12 in the code
  Strategies,
  Rules,         \* their rate_to_period_rules
  Books,         \* answers for the R0 and the P1 book: bids, then asks
  BookLength,    \* 100, how many are asked for of each side
  Updates        \* how often the books are looked at

Entry == [rate : Nat, amount : Int]

ASSUME RatesAssumption ==
  /\ InitialRate \in Nat /\ WindowSize \in Nat \ {0} /\ BookLength \in Nat /\ Updates \in Nat
  /\ \A s \in Strategies : s.minRate \in Nat /\ s.maxRate \in Nat
  /\ Books \subseteq [r0 : Seq(Entry), p1 : Seq(Entry)]
  /\ \A i \in DOMAIN Rules : Rules[i].gte \in Nat /\ Rules[i].lt \in Nat /\ Rules[i].period \in Nat

\* What an end user starts from.
DefaultRules ==
  <<[gte |-> 0, lt |-> 9, period |-> 2],
    [gte |-> 9, lt |-> 12, period |-> 7],
    [gte |-> 12, lt |-> 20, period |-> 14],
    [gte |-> 20, lt |-> 30, period |-> 30],
    [gte |-> 30, lt |-> 50, period |-> 60],
    [gte |-> 50, lt |-> 100, period |-> 90],
    [gte |-> 100, lt |-> 2555, period |-> 120]>>

DefaultStrategy ==
  [enabled |-> FALSE, hold |-> 0, min |-> 50, max |-> 500, minRate |-> 0, maxRate |-> 2555]

Larger(a, b) == IF a > b THEN a ELSE b
Smaller(a, b) == IF a < b THEN a ELSE b

\* get_book: bids are taken to be as many as were asked for.
AskSide(data) == SubSeq(data, BookLength + 1, Len(data))

\* The first of the largest amounts.
ArgMaxAskAmount(book) ==
  CHOOSE i \in DOMAIN book :
    \A k \in DOMAIN book : book[k].amount < book[i].amount \/ (book[k].amount = book[i].amount /\ i <= k)

\* The ask before the largest one.
BeforeLargest(book) == Larger(1, ArgMaxAskAmount(book) - 1)

\* Both indices are used on the R0 book, which may be too short for that of the other.
IndexError(r0, p1) ==
  r0 = <<>> \/ p1 = <<>> \/ BeforeLargest(p1) \notin DOMAIN r0

BestAskRate(r0, p1) == Larger(r0[BeforeLargest(r0)].rate, r0[BeforeLargest(p1)].rate)

\* The window after a look at the books; an exception leaves it as it was.
CalculateRecommendedFundingRate(window, b) ==
  LET r0 == AskSide(b.r0)
      p1 == AskSide(b.p1)
  IN  IF IndexError(r0, p1) THEN window ELSE Append(Tail(window), BestAskRate(r0, p1))

InitialWindow == [i \in 1..WindowSize |-> InitialRate]

\* The windows after so many looks.
Windows[n \in 0..Updates] ==
  IF n = 0 THEN {InitialWindow}
  ELSE Windows[n - 1] \cup
       {CalculateRecommendedFundingRate(w, b) : w \in Windows[n - 1], b \in Books}

\* The sums of the first of n numbers.
Sums(f, n) ==
  LET sumTo[i \in 0..n] == IF i = 0 THEN 0 ELSE f[i] + sumTo[i - 1]
  IN  sumTo

\* statistics.mean, times WindowSize
RecommendedAskRate(window) == Sums(window, WindowSize)[WindowSize]

AskRates == {RecommendedAskRate(w) : w \in Windows[Updates]}

OfferRate(ask, strategy) ==
  Smaller(Larger(ask, WindowSize * strategy.minRate), WindowSize * strategy.maxRate)

\* The period of the first rule that has the rate; both ends of a rule are in it.
PeriodOf(rate) ==
  LET matching == {i \in DOMAIN Rules :
                     WindowSize * Rules[i].gte <= rate /\ rate <= WindowSize * Rules[i].lt}
  IN  IF matching = {} THEN 2
      ELSE Rules[CHOOSE i \in matching : \A k \in matching : i <= k].period

\* Mutant: the period of the rate that is asked for, before it is limited.
OfferPeriodOfAsk(ask, strategy) == PeriodOf(ask)

OfferPeriod(ask, strategy) == PeriodOf(OfferRate(ask, strategy))

\* The rules follow each other without a gap, from 0 up to the highest rate of the
\* strategies, and their periods do not fall.
RulesRise ==
  /\ Rules \in Seq([gte : Nat, lt : Nat, period : Nat]) /\ Rules # <<>> /\ Rules[1].gte = 0
  /\ \A i, k \in DOMAIN Rules : i <= k => Rules[i].period <= Rules[k].period
  /\ \A i \in DOMAIN Rules : i # 1 => Rules[i].gte = Rules[i - 1].lt
  /\ \A s \in Strategies : s.maxRate <= Rules[Len(Rules)].lt

\* By these strategies, of any two rates the market can show, the higher one is never
\* offered for the shorter period.
FairStrategies ==
  {strategy \in Strategies : \A a, b \in AskRates :
     OfferRate(a, strategy) < OfferRate(b, strategy) =>
       OfferPeriod(a, strategy) <= OfferPeriod(b, strategy)}
=============================================================================
