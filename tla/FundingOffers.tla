--------------------------- MODULE FundingOffers ---------------------------
(***************************************************************************)
(* The Bitfinex lending bot.  Every quarter of an hour the scheduler       *)
(* publishes a job for an end user who has given a pair of keys and a      *)
(* strategy; a worker cancels the account's funding offers and lends the   *)
(* money of the funding wallet anew.  The wallet is read before the offers *)
(* are cancelled.  Two workers may do two jobs of one end user at once,    *)
(* while the end user changes the configuration, cancels offers and moves  *)
(* money, and borrowers take offers and pay back.                          *)
(*                                                                         *)
(* The rate and the period of an offer depend on the message and on the    *)
(* strategy alone, and nothing reads them again: they are in FundingRates. *)
(***************************************************************************)
EXTENDS FundingRates

CONSTANTS
  Jobs,          \* jobs that are in the queue or with a worker at a time
  Keys,          \* Bitfinex keys, each with its secret
  FullKeys,      \* those that may write offers
  None,          \* a value that is not given
  Patches,       \* what end users send to PATCH /configs/bitfinex
  MaxOffers,     \* offers there are at a time
  ExchangeMin,   \* the smallest offer Bitfinex accepts
  Total,         \* money inside and outside the account
  MaxFaults      \* lost requests and dead workers altogether

ASSUME FundingAssumption ==
  /\ FullKeys \subseteq Keys /\ None \notin Keys \cup Strategies
  /\ Patches \subseteq [key : Keys \cup {None}, secret : Keys \cup {None},
                       strategy : Strategies \cup {None}]
  /\ ExchangeMin \in Nat \ {0} /\ MaxOffers \in Nat /\ Total \in Nat /\ MaxFaults \in Nat
  /\ \A s \in Strategies : s.enabled \in BOOLEAN /\ {s.hold, s.min, s.max} \subseteq Nat

VARIABLES
  config,   \* end_user_bitfinex_config, and whether the pair was checked as one
  free,     \* available_balance of the funding wallet
  offers,   \* amounts by id, 0 where there is no offer
  jobs,
  faults

fundingVars == <<config, free, offers, jobs, faults>>
account == <<free, offers>>

Unconfigured == [key |-> None, secret |-> None, strategy |-> None, checked |-> FALSE]

Job(at) ==
  [at |-> at, strategy |-> None, credentials |-> <<None, None>>, checked |-> FALSE,
   available |-> 0, todo |-> {}, came |-> FALSE, left |-> FALSE]

FundingInit ==
  /\ config = Unconfigured
  /\ free = Total /\ offers = [o \in 1..MaxOffers |-> 0]
  /\ jobs = [j \in Jobs |-> Job("none")]
  /\ faults = 0

-----------------------------------------------------------------------------
(* The exchange.                                                           *)

\* A request is signed with the secret of its key.
IsSigned(c) == c[1] = c[2] /\ c[1] # None
MayWrite(c) == IsSigned(c) /\ c[1] \in FullKeys

\* What the other jobs have not seen of the wallet they read.
Noted(js, delta) ==
  [j \in Jobs |-> IF js[j].at \in {"none", "queued"} THEN js[j]
                  ELSE [js[j] EXCEPT !.came = @ \/ delta > 0, !.left = @ \/ delta < 0]]

Open == {o \in 1..MaxOffers : offers[o] # 0}
Listed == UNION {jobs[j].todo : j \in Jobs}
NewIds == 1..MaxOffers \ (Open \cup Listed)

\* A borrower takes an offer.
Take(o) ==
  /\ offers' = [offers EXCEPT ![o] = 0]
  /\ UNCHANGED <<config, free, jobs, faults>>

Outside == Total - free - Sums(offers, MaxOffers)[MaxOffers]

\* Borrowers pay back, or the end user deposits money.
ComesIn ==
  /\ Outside > 0
  /\ free' = free + Outside
  /\ jobs' = Noted(jobs, Outside)
  /\ UNCHANGED <<config, offers, faults>>

Withdraw ==
  /\ free > 0
  /\ free' = 0
  /\ jobs' = Noted(jobs, -free)
  /\ UNCHANGED <<config, offers, faults>>

-----------------------------------------------------------------------------
(* The web server.                                                         *)

\* Mutant: asks for the permission to read only.
PermittedToRead(p) ==
  p.key # None /\ p.secret # None => IsSigned(<<p.key, p.secret>>)

\* The permissions are asked for when both are given.
Permitted(p) ==
  p.key # None /\ p.secret # None => MayWrite(<<p.key, p.secret>>)

Given(new, old) == IF new # None THEN new ELSE old

Patched(p) ==
  [key |-> Given(p.key, config.key),
   secret |-> Given(p.secret, config.secret),
   strategy |-> Given(p.strategy, config.strategy),
   checked |-> IF p.key = None /\ p.secret = None THEN config.checked
               ELSE p.key # None /\ p.secret # None]

UpdateBitfinexConfig ==
  /\ \E p \in Patches : Permitted(p) /\ config' = Patched(p)
  /\ UNCHANGED <<account, jobs, faults>>

\* POST /funding/offers/{offer_id}/cancel
CancelFundingOffer(o) ==
  /\ MayWrite(<<config.key, config.secret>>)
  /\ offers' = [offers EXCEPT ![o] = 0]
  /\ free' = free + offers[o]
  /\ jobs' = Noted(jobs, offers[o])
  /\ UNCHANGED <<config, faults>>

-----------------------------------------------------------------------------
(* The jobs.                                                               *)

IsComplete == config.key # None /\ config.secret # None /\ config.strategy # None

IsFree(j) == jobs[j].at = "none"

\* The cron job.
Publish(j) ==
  /\ IsComplete
  /\ IsFree(j) /\ j = CHOOSE i \in Jobs : IsFree(i)
  /\ jobs' = [jobs EXCEPT ![j] = Job("queued")]
  /\ UNCHANGED <<config, account, faults>>

\* The configuration is read, then the wallets.
Begin(j) ==
  /\ jobs[j].at = "queued"
  /\ jobs' = [jobs EXCEPT ![j] =
       IF ~config.strategy.enabled \/ ~IsSigned(<<config.key, config.secret>>) THEN Job("none")
       ELSE [@ EXCEPT !.at = "list", !.strategy = config.strategy,
                      !.credentials = <<config.key, config.secret>>,
                      !.checked = config.checked, !.available = free]]
  /\ UNCHANGED <<config, account, faults>>

ListOffers(j) ==
  /\ jobs[j].at = "list"
  /\ jobs' = [jobs EXCEPT ![j].at = "work", ![j].todo = Open]
  /\ UNCHANGED <<config, account, faults>>

CancelOffer(j) ==
  /\ jobs[j].at = "work"
  /\ MayWrite(jobs[j].credentials)
  /\ \E o \in jobs[j].todo \cap Open :
       /\ offers' = [offers EXCEPT ![o] = 0]
       /\ free' = free + offers[o]
       /\ jobs' = [Noted(jobs, offers[o]) EXCEPT ![j].todo = @ \ {o}]
  /\ UNCHANGED <<config, faults>>

\* Mutant: > for >=.
HasMoreStrictly(job) == job.available - job.strategy.hold > job.strategy.min

\* The loop's condition.
HasMore(job) == job.available - job.strategy.hold >= job.strategy.min

OfferAmount(job) == Smaller(job.available - job.strategy.hold, job.strategy.max)

\* Mutant: the balance is not counted down.
AfterOfferUncounted(job) == job.available

AfterOffer(job) == job.available - OfferAmount(job)

IsAccepted(job) ==
  /\ MayWrite(job.credentials)
  /\ ExchangeMin <= OfferAmount(job) /\ OfferAmount(job) <= free

SubmitOffer(j) ==
  LET job == jobs[j]
  IN  /\ job.at = "work" /\ job.todo = {} /\ HasMore(job)
      /\ IsAccepted(job)
      /\ \E id \in NewIds :
           /\ \A other \in NewIds : id <= other
           /\ offers' = [offers EXCEPT ![id] = OfferAmount(job)]
      /\ free' = free - OfferAmount(job)
      /\ jobs' = [i \in Jobs |-> IF i = j THEN [job EXCEPT !.available = AfterOffer(job)]
                                 ELSE Noted(jobs, -OfferAmount(job))[i]]
      /\ UNCHANGED <<config, faults>>

EndRound(j) ==
  /\ jobs[j].at = "work" /\ jobs[j].todo = {} /\ ~HasMore(jobs[j])
  /\ jobs' = [jobs EXCEPT ![j] = Job("none")]
  /\ UNCHANGED <<config, account, faults>>

\* A request the exchange answers with an error: the job is rolled back and
\* acknowledged, what it has done at the exchange stays.
Refused(j) ==
  /\ jobs[j].at = "work"
  /\ \/ \E o \in jobs[j].todo : o \notin Open \/ ~MayWrite(jobs[j].credentials)
     \/ jobs[j].todo = {} /\ HasMore(jobs[j]) /\ ~IsAccepted(jobs[j])
  /\ jobs' = [jobs EXCEPT ![j] = Job("none")]
  /\ UNCHANGED <<config, account, faults>>

\* A request or its answer is lost.
Fail(j) ==
  /\ jobs[j].at \in {"queued", "list", "work"} /\ faults < MaxFaults
  /\ jobs' = [jobs EXCEPT ![j] = Job("none")]
  /\ faults' = faults + 1
  /\ UNCHANGED <<config, account>>

\* The worker dies and the broker delivers the job again.
Redeliver(j) ==
  /\ jobs[j].at \in {"list", "work"} /\ faults < MaxFaults
  /\ jobs' = [jobs EXCEPT ![j] = Job("queued")]
  /\ faults' = faults + 1
  /\ UNCHANGED <<config, account>>

JobStep(j) ==
  Begin(j) \/ ListOffers(j) \/ CancelOffer(j) \/ SubmitOffer(j) \/ EndRound(j) \/ Refused(j)

FundingNext ==
  \/ \E o \in Open : Take(o) \/ CancelFundingOffer(o)
  \/ ComesIn \/ Withdraw
  \/ UpdateBitfinexConfig
  \/ \E j \in Jobs : Publish(j) \/ JobStep(j) \/ Fail(j) \/ Redeliver(j)

FundingSpec == FundingInit /\ [][FundingNext]_fundingVars

\* The scheduler goes on, and so do the workers.
Fairness ==
  /\ WF_fundingVars(\E j \in Jobs : Publish(j))
  /\ \A j \in Jobs : WF_fundingVars(JobStep(j))

FundingFairSpec == FundingSpec /\ Fairness

-----------------------------------------------------------------------------
(* Properties.                                                             *)

Config ==
  [key : Keys \cup {None}, secret : Keys \cup {None}, strategy : Strategies \cup {None},
   checked : BOOLEAN]

Round ==
  [at : {"none", "queued", "list", "work"}, strategy : Strategies \cup {None},
   credentials : (Keys \cup {None}) \X (Keys \cup {None}), checked : BOOLEAN,
   available : 0..Total, todo : SUBSET (1..MaxOffers), came : BOOLEAN, left : BOOLEAN]

IsUnderWay(job) == job.at \in {"list", "work"}

FundingTypeOK ==
  /\ config \in Config
  /\ free \in 0..Total /\ offers \in [1..MaxOffers -> 0..Total]
  /\ jobs \in [Jobs -> Round]
  /\ faults \in 0..MaxFaults

\* A job knows what is free in the wallet, but for what has come or left since.
WalletOK(job) ==
  IsUnderWay(job) =>
    /\ job.strategy \in Strategies
    /\ ~job.left => job.available <= free
    /\ ~job.came => free <= job.available

\* A job is only there when the configuration is complete, and a pair of keys that was
\* checked may write offers.
ConfigOK ==
  /\ \A j \in Jobs : IsFree(j) \/ IsComplete
  /\ config.checked => MayWrite(<<config.key, config.secret>>)
  /\ \A j \in Jobs : jobs[j].checked => MayWrite(jobs[j].credentials)

\* The types; no money is offered twice; what jobs have read of the wallet is so, or
\* they know of a cause; and keys that were checked as a pair can be used as one.
MoneyOK ==
  /\ FundingTypeOK
  /\ Outside >= 0
  /\ \A j \in Jobs : WalletOK(jobs[j])
  /\ ConfigOK

\* A job lends by a strategy that never offers the higher of two rates the market can show
\* for the shorter period, though rates are limited and rules are looked up in turn.
HigherIsLonger == \A j \in Jobs : IsUnderWay(jobs[j]) => jobs[j].strategy \in FairStrategies

\* The type invariant; jobs know the wallet they lend from and hold keys that fit; and by
\* rules that rise, such as the default ones, they lend the higher rate for longer.
FundingInv == MoneyOK /\ (RulesRise => HigherIsLonger)

\* An offer leaves less than is to be held in the wallet only if, since the job read
\* it, money has left the wallet: withdrawn, or offered by another job.
HoldBrokenOnlyIfMoneyLeft ==
  [][free' < free /\ offers' # offers =>
       \A j \in Jobs :
         jobs[j].at = "work" /\ jobs'[j].at = "work" /\ ~jobs'[j].left =>
           free' >= jobs[j].strategy.hold]_fundingVars

\* Money that could be offered is left over by a round only for a reason: offers were
\* cancelled, or money came in, after the wallet was read.  And a round is refused
\* by the exchange only if the pair of keys was never checked as a pair, an offer it
\* had listed was gone, money had left the wallet, or the strategy's largest offer is
\* below what the exchange accepts.
ShortOnlyForCause ==
  [][\A j \in Jobs :
       LET job == jobs[j]
       IN  /\ job.at = "work" /\ job.todo = {} /\ ~HasMore(job) /\ jobs'[j].at = "none" =>
                free - job.strategy.hold < job.strategy.min \/ job.came
           /\ Refused(j) =>
                \/ ~job.checked \/ job.left
                \/ \E o \in job.todo : o \notin Open
                \/ Smaller(job.strategy.min, job.strategy.max) < ExchangeMin]_fundingVars

IsReady ==
  /\ config.checked /\ IsComplete /\ config.strategy.enabled
  /\ ExchangeMin <= Smaller(config.strategy.min, config.strategy.max)

\* While the configuration stays usable, money does not lie idle for ever: again and
\* again there are offers, or too little is left to make one.
MoneyIsOffered ==
  <>[]IsReady =>
    []<>(Open # {} \/ (config.strategy # None
                         /\ free - config.strategy.hold < config.strategy.min))
=============================================================================
