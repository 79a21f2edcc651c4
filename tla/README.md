# Specifications of lation

lation is one Python code base run as two applications, **coin** (funding-rate
bots and their subscriptions) and **stock** (stock tools), and as a bot,
**spot_perp_bot**. Every application is a FastAPI web server (gunicorn, one
worker process, `gunicorn_config.py`), a cron scheduler, a job worker, a
PostgreSQL database and a RabbitMQ broker. This directory holds the TLA+
modules that model its core logic, the TLC configurations that check them, and
the proofs that TLAPS checks.

## 1. Inventory

What the code has, what state each part keeps, and what would make it wrong.
Paths are relative to `src/lation`. The last column is what is modelled.

| Part | State | Operations | Correct when | Model |
|---|---|---|---|---|
| Orders and payment (`modules/customer/models/{product,payment}.py`, `routers/{product,payment}.py`, `modules/base/models/payment.py`, `core/orm.py`) | tables order, order_plan, payment, payment_gateway_trade | create, charge, callback of ECPay, cron job and job that ask ECPay | nothing is handed out without money; an order is decided once and the trade tells the same; what ECPay decided arrives | `Checkout`, `OrderMachine`, `OrderLifecycle` |
| Subscriptions (`modules/{coin,stock}/models/product.py`, `modules/customer/routers/subscription.py`) | table subscription | hook on a successful charge, subscribe, unsubscribe | paid time is added and not lost; what was bought ahead has no gap | `Subscription` |
| Sessions of the web server (`core/database/database.py`, `modules/base_fastapi/{dependencies,decorators}.py`) | a session per pool thread, a pool of connections | open, commit, roll back, close | a request that failed stores nothing, one that succeeded stores its rows, no request waits for ever | `RequestSessions` |
| Market feed (`modules/spot_perp_bot/{websocket_manager,ftx}.py`) | current websocket, lock, subscriptions, tickers | connect, send, reconnect, callbacks | no deadlock, reconnects, is heard on the current websocket | `MarketFeed` |
| Arbitrage strategy (`modules/spot_perp_bot/ftx.py`) | balances and positions at the exchange | execute, garbage collection, balancing | hedged, evened after failures, never reversed | `Arbitrage` |
| Accounts of the bot (`modules/spot_perp_bot/{ftx,models/job,routers/ftx}.py`) | a configuration per account; pairs, funding rates and their time, shared by all | rounds over the accounts, funding-rate update, PATCH of a configuration, alarms | rates are fresh, every account has its turn, the owner is told | `BotAccounts` |
| Job queue (`modules/base/models/{job,message_queue}.py`) | broker queues | publish, receive, acknowledge | a job is tried before it is acknowledged, and none is lost | `JobPipeline`, `AtLeastOnce`; its use by payment in `Checkout` |
| Cron and interval schedulers (`modules/base/models/job.py`) | cron_job rows, logs | run every due job; run coroutines at intervals | jobs run once at their times, one failing does not stop others | `JobPipeline` (cron); interval jobs in `Arbitrage` and `BotAccounts` |
| Login and tokens (`modules/customer/{oauth,dependencies,models/oauth_user}.py`, `routers/{oauth,user}.py`) | end users, emails, accounts at providers, tokens; the browser's cookie | callbacks of Google and LINE, requests with cookie or header, log out | one end user per person | `Login` |
| Bitfinex offers (`modules/coin/models/{end_user,job,config}.py`, `routers/user.py`) | the keys and strategy of an end user; a window of rates; wallet and offers at the exchange | PATCH, publish, cancel, submit, look at the books | what is to be held is held, money is offered, higher rates for longer | `FundingOffers`, `FundingRates` |
| Data installation (`core/database/database.py`) | tables, lation_data, sequences | install | tables are as the files say, ids are kept, nothing refuses without cause | `InstallData` |
| File storage (`modules/base/{google_drive_storage,file_system}.py`) | items on Google Drive, local files | create, delete, upload, download | paths lead where they say, nothing is doubled or left out | `DriveStorage` |
| Rate limiter (`core/utils.py`) | call times, a queue | wait, note | no more calls than allowed | left out: section 8 |
| FTX REST client, reports, module loader, vault, notifications, caches, word cloud, ECPay SDK, combo and Flask, deployment | | | | left out: section 8 |

How they interact: web handlers and jobs share only the database. The web
server publishes jobs through the broker, as do the schedulers; a worker takes
one job at a time and acknowledges it after its commit. ECPay calls the web
server back and is asked by jobs; so are Google, LINE and Bitfinex. The bot's
interval jobs run on one event loop, place orders in threads of its executor,
and read tickers that the callback threads of the websocket write. Data is
installed by a command of its own, beside the running services. The Drive
commands share nothing but the drive.

What is hard: callback and job racing on one order; repeated callbacks;
redelivered jobs; a crash between commit and acknowledgement; sessions that two
requests share; an event loop that waits for a database connection; threads
that write `self.ws` without the lock; coroutines that act on balances read
before an `await`; orders of which one leg fails or whose answer is lost; an
exception of one account that ends a job for all; rows that two modules install
into one table; logins in any order; folders looked for and then created. Each
is listed with its line under `hazards` in `PROJECT.json`, with the properties
about it, or why there is none.

## 2. Modules and the code

    OrderMachine <- Checkout <- MCCheckout          CheckoutProofs extends Checkout
                 <- OrderLifecycle  (abstract, INSTANCEd by Checkout)
                 <- Subscription <- MCSubscription
    FundingRates <- FundingOffers <- MCFundingOffers    CoinProofs extends Subscription, FundingOffers
    RequestSessions
    Login <- MCLogin                                WebProofs extends Login, RequestSessions
    MarketFeed                                      FeedProofs extends MarketFeed
    JobPipeline <- MCJobPipeline                    PipelineProofs extends JobPipeline
                 <- AtLeastOnce     (abstract, INSTANCEd by JobPipeline)
    Arbitrage                                       ArbitrageProofs extends Arbitrage
    BotAccounts                                     BotProofs extends BotAccounts
    InstallData <- MCInstallData
    DriveStorage <- MCDriveStorage                  StorageProofs extends InstallData, DriveStorage

Where one module of proofs extends two that have nothing to do with each other,
the second one's definitions carry a prefix (`FundingSpec`, `SessionsInv`,
`DriveNext`).

`map` in `PROJECT.json` names the lines of every definition.

**OrderMachine** is the table `Order.machine` and the two questions
`Machine.bind_action` asks after it has run an action's body: may the action be
applied, which state follows.

**Checkout**. A variable per column some decision reads: the order's state,
buyer, plan and charge times; how many payment and subscription rows it has;
the trade's order, result code and message (the reference is set with them).
`gateway`, `deliveries` and `acked` are what ECPay knows (external).
`gatewayJobs` and `jobs` are the two queues. `txn[p]` is the
`handle_payment_result` process `p` is in the middle of. Creating and charging
an order are single actions, since the web server runs them on one event loop
without a suspension and no other process writes the rows they read. Handling
a result is cut where the database orders it against another process: the job
loads its trade (`TakeJob`), asks ECPay (`QueryGateway`), the order is loaded
(`Verify`), the changed trade is flushed, which locks its row (`Flush`), and
the order's action runs and everything is committed (`Settle`). `Crash`,
`SettleThenCrash`, `QueryFails`, `SyncPaymentFails` are the failures. As in the
code, the body of a refused action has its effects, and they are committed.

**OrderLifecycle** says what an order promises: drafted, charged once, decided
once, by what the gateway says. `Checkout` implements it with the web server
alone (`ImplementsLifecycle`, under the mapping `StatusOf`), not with a worker
(section 7).

**Subscription** looks inside charge_success and charge_fail. A payment result
reads the order (`Load`). On a success coin's hook reads the end user's
subscriptions in force, latest due time first, `FOR UPDATE`, and appends the new
one after the latest (`BeginCharge`, `LockRow`, `CommitCharge`: the query, the
wait for the lock, the commit). Rows that changed while it waited are looked at
again, rows committed since are not. A query that finds no row locks none;
`since` remembers how many rows there were at the query, for the property alone.
`FailCharge` is a sync job's "unpaid" that is older than the payment, over an
order that has been paid: its subscriptions stay, and give no access. A success
for an order that has been failed leaves a row that gives none either. The end
user's own endpoints to subscribe and unsubscribe interleave; stock's hook is
the case of a duration of 0, no due time. Every order stands for one that is
paid: a declined one gets no row from the hook.

**RequestSessions**. The dependency `get_session` is a synchronous generator,
which FastAPI runs in its thread pool; the session it yields is the one
scoped_session keeps for that *thread*. `Arrive`, `Enter`, `Resume`, `Load`,
`AddRows`, `Commit`/`Fail`/`PoolTimeout`, `Leave`, `Close` follow one request.
A handler holds the event loop from `Resume` to its answer, while `Enter` and
`Close` of other requests run in pool threads. Two endpoints are plain `def`
functions (`logout`, `get_me`) and run in the pool throughout; they add no rows
a property speaks of and are left out.

**MarketFeed** cuts `WebsocketManager` at every read or write of `self.ws` that
another thread can come between, and models the strategy's thread and one
thread per websocket. `get_ticker`, the sending and the noting of a
subscription are the part of `FtxWebsocketClient` the bot uses.

**Arbitrage** is `execute` and `decrease_negative_funding_payment_pairs` of one
account as two coroutines, `running` saying which has the event loop. It is
given up only in `make_pair`, where both orders are awaited; `OrderSucceeds`
and `OrderFails` are the executor's threads. `seen` is what a coroutine has read
and still acts on. Prices, spreads, ranks and rates are free choices; sizes are
whole increments. One configuration holds for a behaviour.

**BotAccounts** is the process around it: strategies constructed one after the
other (each waits, with the event loop, for the ticker of every pair), the
interval jobs that go through the accounts, the class attributes all accounts
share (`rated`, `lastUpdate`), and the PATCH of a configuration, which may set a
section to null. `account` and `phase` are where `execute` is, `collecting`
where the garbage collection is. What an account trades is left open, and since
any step may trade and so give the loop away, jobs take turns after every step.
Spreads, leverages and the order of the pairs are free choices. `funded` are
the accounts whose wallet lists USD; one that is to increase pairs and is not
among them raises in every round. An exception ends the job, and the scheduler
starts it again with the first account (`Raise`). Other requests fail a bounded
number of times: one that FTX refuses for good is outside the model.

**JobPipeline** is the scheduler's `run_forever`, the broker's queue and the
worker's `on_receive_job`, joined where a cron job publishes. Time is counted
in minutes: the scheduler's own steps fall within one, a cron job may take any
number (`Tick` while `executing`). `Execute`, `Publish`, `Finish`, `Raise` are
one cron job; `Sleep` is the 61 seconds less the current one; `WakeBlind` is a
round for which `get_cron_jobs` swallowed an exception; `SchedulerDies` is also
the commit of a log that raises. The worker receives a job, tries it (`Try`:
the method with its commit or rollback) and acknowledges it (`Ack`), which does
nothing once the connection it came by is gone; `HandOutAgain` is the broker
(external). A job without a row is held, unacknowledged. `DeleteRow` is an
installation of data. `started`, `disturbed`, `published`, `tried` and `settled`
are history, read by no guard other than bounds. Every cron job is registered;
rows of the log are left out.

**AtLeastOnce** is what the queue promises: no job is settled that was not
published and tried, none is tried that is not open.

**Login**. A callback of Google or LINE finds the account, or an end user with
the same email, or creates one, stores tokens, commits and sets the cookie: one
step, since the handler is a plain function that the flow calls on the event
loop, and its failure rolls everything back. The answer reaches the browser in a step of
its own (`SetAccessToken`), any time later or, if the handler's reload after the
commit fails, never (`LoginUnanswered`). The browser gives a cookie up when it
likes (`Logout`). What a provider says of an account (email, verified) is chosen
anew at each login. `answer` is the last request that login_required let pass,
which looks at no expiration. Time is counted in units of ten days, in which a
token lives one and LINE's token three.

**InstallData** installs one file of a module after the other. `rows` and
`known` (lation_data) are committed, `work` is what the session sees of them;
`InstallFile` upserts the rows of one file, refreshes the ids, deletes what no
file has any more, and sets the sequence. The commit comes with a module's last
file. Sequences are not rolled back (`Abandon`), nor are the ids given by a
flush that is. An entry names the entries its foreign keys lead to, as many as
it has (`ForeignOf`). The models' relationships decide what becomes of a row when
one it refers to is deleted: it goes along (`Cascades`: a product's plans), its
key is set to NULL (`Nullifies`: a plan's prices), or it is left alone and
PostgreSQL refuses, unless it is deleted in the same flush. Beside the
installation, running services add rows that refer to installed ones (`Use`: logs
of cron jobs, orders of plans, trades of gateways; `Referred` has their tables)
and make PostgreSQL refuse too. `Release` deploys other files. `lagging` is
history: the tables in which this installation found a sequence behind the ids
of lation_data.

**FundingRates** are pure functions: the window of rates over the looks at the
books, its mean, the limits of a strategy and the rules for periods. Nothing
reads the rate or period of an offer again, so they are checked here, over all
windows that four looks can lead to, and are not in the offers of
**FundingOffers**, which is the rest: the configuration and its PATCHes, the job
that reads the wallet, lists the offers, cancels one by one, and submits, with
the exchange, borrowers and the end user moving under it. Offers are amounts by
id, 0 where there is none. `came` and `left`
remember that money came into or left the wallet since a job has read it. Jobs
are redelivered when a worker dies. That the end user has subscribed to the
product is assumed when the cron job looks.

**DriveStorage** is the commands on a Google Drive folder, cut at every query:
`Look` finds the next name of a path, `CreateFolder` creates what is missing,
then the command does its own. Queries have a parent, or none for the working
directory. Files are uploaded before the subdirectories. A download walks each
path twice, the first time only to raise if it leads nowhere; the model has the
walk it lists from, and `Interrupt` the other's exception. The pages of a
listing are one query: what Drive says to a page token while a folder changes is
not in the code. Nobody moves or trashes items by hand.

## 3. Runs

| Run | Checks | Instance, and why it is enough |
|---|---|---|
| checkout_web | `ResultMatchesOrder`, `ImplementsLifecycle`: with no worker, stored results and order states agree, and the tables implement the lifecycle | 2 orders, 2 trades, 3 callbacks per trade, 1 crash, a free plan with a quota and a priced one. Three callbacks cover first, repeated, and repeated after a crash |
| checkout_sync | `IInv`, `MoneyBeforeGoods`, `PaidIsUndoneOnlyByStaleSync`, `FinishedTradeIsSettled`, with job workers | 1 order, 1 trade, 2 workers, 2 callbacks, 1 queued job, 1 failure: two jobs, a callback and its repetition, or a redelivery, race over one trade. Trades meet only in the order they share, and the web server alone makes a second one; run checkout_web has two. No symmetry, since it has liveness |
| subscription | `IInv`, `PaidTimeLostOnlyByRace` | 3 orders of 2 end users with lengths 1, 2, 3; web server and 1 worker; 3 rows, 1 of them made or ended by hand; a clock of 2 units, so that a plan runs out while others are charged. Three rows let a plan follow another and be failed while a third is charged |
| sessions | `SessionsInv`, `LostOnlyBySharing`, `EveryRequestIsAnswered` | 3 requests, 2 threads, 1 connection: sharing, and a wait for the connection the other session has, both happen |
| feed | `IInv`, `DeafOnlyAfterReconnect`, `ConnectReturns`, `StaysConnected` | 2 markets, 5 websockets, 2 faults. A fault can cost two websockets, so five are never used up and the bound takes no behaviour away |
| arbitrage | `IInv`, `ReversedOnlyByStaleRead`, `RoundEndsBalanced`, `UnevenIsRepaired` | 1 pair, 4 configurations (all of execute's parts, both always-parts, decrease, decrease with collection), sizes to 4 with a minimum of 1, 2 failures: one for each leg. Pairs meet only in `decreased`, in the order of `todo` and in a round that an exception ends for all; a second pair multiplies the states by some hundred. Rounds over several accounts and pairs are in run bot |
| pipeline | `IInv`, `MissedOnlyIfDisturbed`, `ImplementsAtLeastOnce`, `EveryJobIsSettled` | 2 cron jobs, one that publishes every other minute and one that runs every minute and at the start; 2 rows; minutes 0 to 3, so that a round can be overtaken by its next and a scheduler start again; 2 jobs per row, so that one is handed out again beside another; 1 failure of any kind |
| login | `IInv`, `JoinedByEmail` | 2 accounts at each provider, 2 emails, 1 browser, 3 logins, 4 units of ten days: three logins are enough to join two accounts in every order and to make a third, and in four units LINE's token runs out. Accounts of a provider, and emails, are symmetric |
| install | `IInv`, `LostOnlyIfShared`, `RaisesOnlyForCause` | 8 entries in 6 files of 3 modules (base, customer, coin), of which two install cron jobs; two plans that go with a product each; a price with a key to its plan, set to NULL, and one to its currency, which refuses; 5 deployed versions that lack a product, its plan, the cron jobs, or the currency with its price; 3 installations, ids to 8: install, lose an entry, get it back or get another one, and a crash anywhere |
| funding | `FundingInv`, `HoldBrokenOnlyIfMoneyLeft`, `ShortOnlyForCause`, `MoneyIsOffered` | 2 jobs, money of 3, offers of 1 (which are as many as there is money for), a strategy that holds 1 and the default one, which is switched off; a key that may write and one that may not, 1 fault; the default rules, which rise; windows of 3 rates, 4 looks at 5 books, among them those that raise |
| drive | `DriveInv`, `DoubledOnlyByRace`, `DownloadIsComplete` | 2 people, 3 commands of 6 (create, delete, upload a file or a directory in a directory, download either), 6 items; the name of the working directory may also be that of a folder below it |
| bot | `IInv`, `RankedByFreshRates`, `EveryAccountHasItsTurn`, `OwnerIsTold` | 2 accounts, 2 pairs, days of 2 hours and hours 0 to 3, so that there is an hour within a date and a midnight; 1 fault: a failed request, a restart, a future without rates, a wallet without USD, or a PATCH away from the defaults |

Every bound is a constant in a guard: `MaxDeliveries`, `MaxJobs`,
`MaxFailures` (Checkout), `MaxRows`, `MaxByHand`, `MaxTime` (Subscription), `MaxConns`,
`MaxFaults` (MarketFeed), `MaxSize`, `MaxFailures` (Arbitrage), `MaxMinute`,
`MaxPublished`, `MaxFailures` (JobPipeline), `MaxTokens`, `MaxTime` (Login),
`MaxRuns`, `MaxId` (InstallData), `MaxOffers`, `Total`, `MaxFaults`, `Updates`
(FundingOffers and FundingRates), `MaxItems`, `MaxCommands` (DriveStorage),
`MaxHour`, `MaxFaults` (BotAccounts). Deadlock is checked in checkout_sync,
arbitrage and bot, whose cron or interval jobs never end. Elsewhere the run may
stop: all requests are answered, all callbacks delivered, every market
subscribed, all commands done, the clock at its bound, or the end user without
a configuration.

Each property has a mutant in `PROJECT.json`: a plausible slip in a mapped
definition that makes TLC report that property violated in the same run. The
mutated definitions stand above the originals, marked `Mutant`, and nothing
else uses them.

## 4. Fairness

*Checkout*: a process that has begun goes on, so its steps are weakly fair. The compose files
(`deploy/*/docker-compose.prod.yml`) name no restart policy: a process that
died is started again by the next deployment, and the result is about runs in
which that happens. The broker hands out a queue in order and
PostgreSQL grants row locks in order, so `TakeJob`, `SyncPayment` and `Flush`
are strongly fair. The gateway's callbacks, the end user, and ECPay's decision
get none. Nor does the cron job sync_payment, which is installed switched off
(`is_active` false in its data): that it is on, and fires every 15 minutes, is the
hypothesis `WF_vars(CronSyncPayment)` of `FinishedTradeIsSettled`, not part of
the specification.

*RequestSessions*: the event loop takes ready callbacks in the order they
became ready, so a request is strongly fair on it; the thread pool's queue is
in order, so pool steps are weakly fair. That `PoolTimeout` fires is
SQLAlchemy's `pool_timeout`.

*MarketFeed*: threads of one process are scheduled, so each is weakly fair, and
a dialled connection opens unless it is lost. Faults have none and are bounded:
`StaysConnected` says what holds when they stop.

*Arbitrage*: interval jobs are started again without end, ready coroutines are
taken in order (strong fairness of `Round` and of `Collection`), and every
order is answered.

*JobPipeline*: `run_forever` of the worker dials again every five seconds
(`Reconnect`), and a job in hand is tried and acknowledged: weakly fair. The
queue is in order, so `Receive` is strongly fair for each row. The scheduler
gets none: its properties are about safety. `EveryJobIsSettled` starts from a
job in the queue.

*FundingOffers*: the cron job, installed switched on, publishes every so often (`Publish`),
and every job in hand is carried on (`JobStep`), each weakly fair. That a request
ends is an assumption: `http_client.py` sets no timeout. The end user, borrowers
and faults get none.

*BotAccounts*: `CoroutineScheduler` starts the three interval jobs again
whatever they raise, and nothing disables their steps for good, so weak fairness
of `Round`, `Collect` and `Alarms` is the event loop's. Tickers arrive and
strategies are constructed. Failures, PATCHes, the clock and leverages get none,
and faults are bounded.

Login, InstallData, DriveStorage and Subscription have safety properties only.

## 5. Proofs

| Theorem | Module | Says, for every value of the constants |
|---|---|---|
| `Invariance` | CheckoutProofs | `Spec => []IInv` |
| `TypeCorrect`, `MoneyFirst`, `SettledDecided`, `SingleTrade`, `AckedDecided` | CheckoutProofs | parts of `IInv` by name: types, no goods without money, a settled trade's order is decided, one trade per order, `1|OK` for decided orders only |
| `UndoneByStaleSync` | CheckoutProofs | `Spec => PaidIsUndoneOnlyByStaleSync`, an action property |
| `ResultMatches` | CheckoutProofs | `Workers = {}`: `Spec => []ResultMatchesOrder`, trade and order agree on the result |
| `CheckoutImplements` | CheckoutProofs | `Workers = {}`: `Spec => ImplementsLifecycle`, the refinement |
| `AccessInvariant` | CoinProofs | `IInv` of Subscription: rows bought ahead have no gap, and give access but for orders that were failed after they had been paid |
| `WholePlanOrRaced` | CoinProofs | `Spec => PaidTimeLostOnlyByRace`, an action property |
| `SessionsInvariant`, `FailureIsClean`, `LossIsSharing` | WebProofs | `SessionsInv` of RequestSessions, and the two safety properties |
| `FeedInvariant`, `LockDiscipline` | FeedProofs | `IInv` of MarketFeed, and who holds the lock |
| `DeafAfterReconnect` | FeedProofs | `Spec => []DeafOnlyAfterReconnect` |
| `PipelineInvariant` | PipelineProofs | `IInv` of JobPipeline |
| `OncePerMinute`, `MissedIsDisturbed`, `JobsAreConserved` | PipelineProofs | no cron job twice for a minute, none missed without cause, no job lost |
| `PipelineImplements` | PipelineProofs | `Spec => ImplementsAtLeastOnce`, the refinement |
| `Invariance`, `RankedFresh` | BotProofs | `IInv` of BotAccounts, and `RankedByFreshRates`, an action property |
| `Invariance`, `OneUserOneEmail` | WebProofs | `IInv` of Login, and `JoinedByEmail` |
| `Invariance`, `ReversedByStaleRead`, `EndsBalanced` | ArbitrageProofs | `IInv` of Arbitrage, `ReversedOnlyByStaleRead`, and `RoundEndsBalanced`, an action property |
| `FundingInvariant` | CoinProofs | `FundingSpec => []FundingInv`: money is offered once, jobs know their wallet, keys that were checked fit, and by rules that rise higher rates are for longer |
| `HoldIsKept`, `ShortForCause` | CoinProofs | `HoldBrokenOnlyIfMoneyLeft`, `ShortOnlyForCause`, action properties |
| `InstallInvariant`, `InstalledIsWritten` | StorageProofs | `IInv` of InstallData, and what an installation that returned has left |
| `RowsAreKept`, `RaisesForCause` | StorageProofs | `LostOnlyIfShared`, `RaisesOnlyForCause`, action properties |
| `DriveInvariant` | StorageProofs | `DriveSpec => []DriveInv`: ids, folders, and walks that arrive where they were sent |
| `DoubledByRace`, `DownloadsAreComplete` | StorageProofs | `DoubledOnlyByRace`, `DownloadIsComplete`, action properties |

Assumptions are the named ones of each module (`ConstantsAssumption`,
`SubscriptionAssumption`, `SessionsAssumption`, `FeedAssumption`,
`PipelineAssumption`, `BotAssumption`, `LoginAssumption`, `ArbitrageAssumption`,
`InstallAssumption`, `DriveAssumption`, `FundingAssumption`, `RatesAssumption`),
which mostly say that constants are of their kind, that bounds are positive
where time must pass, and that the null values are none of the real ones. Two
theorems have the hypothesis `Workers = {}` besides: there `Checkout` is the web
server alone, as the run `CheckoutWeb` checks it.

Three say more, and what the code gives for it:

- `InstallAssumption`: there are finitely many entries, each in one file; a
  module's files stand together and each is installed once, as the module loader
  orders them; an entry has a key per table at most, and what it names is
  installed before it, by one module only; what is deleted along with a row takes
  nothing along itself. An entry may have any number of keys, of any of the three
  kinds. The data files with two are plan_price, platform_payment_gateway and
  payment_gateway_currency; the one table that two modules install into is
  cron_job, which no file refers to.
- `FundingAssumption`: the amounts of a strategy are natural numbers. The code
  does not look; section 7 says what other numbers lead to.
- `RulesRise`, a hypothesis inside `FundingInv`: the rules for periods follow each
  other from 0 without a gap, up to the strategy's highest rate, and their periods
  do not fall. Rules are what the end user stores; `DefaultRulesRise` is the proof
  that those everyone starts from are so.

*Checkout.* `MoneyBeforeGoods`, `SettledTradeIsDecided` and `AckedIsDecided` are
not inductive: `Settle` acts on a code and a state that were read steps ago.
`ResultUnderWayIsSound` carries them over: a final result at hand is the
gateway's, whose word does not change; the web server has no other; an order
seen as decided stays decided, though the race may change *which* way.
`UnopenedIsEmpty` keeps fresh orders and trades out of old facts. For
`UndoneByStaleSync` it follows that a commit that undoes a paid order cannot
have a refusal at hand, since the order's one trade is paid. The proof has a
lemma per action; the conjuncts an action does not touch go to shared lemmas
about unchanged tables.

Without workers more holds. `WebInv` adds that a result the server has at hand
finds the order, once loaded, as the table has it: nobody else writes between
`Verify` and `Settle`. So what a trade records and the state of its order change
together, and each action is a step of `OrderLifecycle` under `StatusOf`, or a
stutter. With a worker neither is true, by the race `UndoneByStaleSync` names,
so the hypothesis is needed and not a convenience.

*Subscription.* `NoInterruption` speaks of days and the commit of one row, so
`RowsGiveAccess` and `SoundCharge` connect the two: the rows of an owner make up
his access; up to the start a process has chosen for its new row every day is in
a row of the owner (`IsSubscribed`, or `IsFailedTime` if that row's order was
failed since), and no row that was there at its query, and still gives access,
goes beyond it. Failing an order turns the one into the other and so leaves no
gap, but a charge may have waited for the row: it then starts where an earlier one
ends, which is why `SoundQuery` speaks of all rows found, not only of the locked
one. A row committed since may go beyond (`Overtaken`), and that is the race of
`PaidTimeLostOnlyByRace`. That
the query finds a row, the latest by due time, whenever there is one, needs an
induction over a set of naturals; it rests on the library's theorem that `<` is
well founded.

*RequestSessions.* The strengthening says that rows are pending only for the
handler that has the event loop, in its own session, so a commit never stores
rows of a request that has failed, however sessions are shared; and that rows
it misses were closed by a request with the same session.

*MarketFeed.* `CurrentIsWatched` needs that the thread of a websocket that was
never dialled is idle, and that a thread ends only when its websocket is not
the current one. Sockets are numbers, and a new one is dialled each time.
`DeafOnlyAfterReconnect` follows from `SentIsTraced`: a subscription that is
noted was sent on some websocket, none is later than the current one, and
without a fault no thread is on a path of trouble (`Troubled`) and the current
websocket is the only one there ever was.

*JobPipeline.* The invariant has two halves, the clock's and the queue's, which
share only `Publish`; each half is preserved by the other's steps because they
leave its variables alone. `RoundIsSound` is what makes the clock's half
inductive: what a round has not yet looked at was not started in this minute,
what it has looked at was, unless the minute is disturbed, and a sleeping
scheduler is never overslept. For the queue, `NoJobLost` alone does not bound
settling: `WorkIsOpen` says that the job at hand is still open, also after it
was handed out again, and `SettledWasTried` that it was tried more often than
settled. The refinement then maps `Publish`, `Try` and `Ack` to the abstract
steps of their row, and everything else to a stutter.

*BotAccounts.* `RatesAreOfLastUpdate` says that rates are of the hour of the last
update or the one before. That is not enough for a round that ranks pairs by
them: an update that fails half way leaves rates of two updates. `OfOneUpdate`
closes this: in the hour in which an update was noted, all rates are of it,
since the hour is noted after the last pair, and an hour that was not noted
leads to a new update before anything is ranked. The code compares the hour of
the day alone, so both need that the day has not changed; the theorem carries
that exception.

*Login.* Rows are unique by user and, apart, by email and verdict. `one_or_none`
is a cardinality of at most one, which follows from "any two members are equal".
Joining then keeps both: an account is attached to the user of its email and
verdict, or to a new one with that pair.

*Arbitrage.* The hedge and the sides are each kept by `make_pair` only if the
balances a coroutine acts on are still those of the account. `ReadsOK` says for
which pairs they are: those still to do, as long as no garbage collection
interleaves and, if both kinds of decrease are on, no order has failed
(`Careful`); the first decrease trades pairs that the second has read.
`LegsOK` and `HedgeOK` say what is under way: the two opposite legs of one pair,
or one of them with the pair uneven by just that leg. `SidesOK` keeps sides also
for an order still to be executed. `BalanceOK` is the loop invariant of the
balance phase: pairs it is done with are even, or of one side and so refused.
What a failed order leaves is taken up in the proof action by action.

*FundingOffers.* `HoldBrokenOnlyIfMoneyLeft` and `ShortOnlyForCause` compare a
balance that was read once, and counted down, with the wallet as it is now.
`WalletOK` is the connection: unless money has left since, a job counts on no
more than there is, and unless money has come, on no less. Every step that moves
money moves it for the others and notes it in them; a job's own cancellations
count as money that came. `Outside >= 0` needs that one offer's change changes
the sum of all by as much (`SumsChange`), an induction over the ids. `ConfigOK`
carries the check of a pair of keys from the PATCH to the job. That higher rates
are for longer is pure: limiting keeps the order of rates, and the *first* rule
that has a rate is monotone if the rules rise; that the best ask rate is a number,
so that rates are ordered at all, needs that a largest amount is found in a book.

*InstallData.* The promise is about an installation that returned; the invariant
says what each pass has left on the way. `RowsOK` holds of what is committed and
of what the session sees: ids and entries are keys, lation_data does not take
one row for another, and foreign keys are NULL or lead to the rows their entries
name. `PassedOK` is the loop's invariant: entries of files passed have their id
and row, the row has its keys, and rows that no file has are gone. `WorkOK` says what the session still
has of the committed rows: that decides at the commit which ids are kept, and
after an abandoned pass whether the sequences still fit the rows that came back.
`SequencesOK` cannot hold of every table: a deleted parent takes its children
along, setval of the children's table then sees fewer rows, and if the pass is
abandoned those rows come back above the sequence; so it speaks of the other
tables, and `lagging` remembers where it mattered. The proof has one section for
a file's pass: what `Upsert` inserts, what is deleted after it, and what that does
to rows that refer to it. `DoomedFacts` is the point of the latter: a row that is
deleted along, or that loses its key, named an entry that is gone. If the row's
entry stays it is of a file still to come, whose pass inserts it anew or raises,
since files come after those they refer to.

*DriveStorage.* Where a path leads is a function over its length, what is below
a folder one over the depth. That such functions exist is shown by induction
over the set of numbers at which they do not, which has a least member since `<`
is well founded. `WalkOK` says that the folder reached is one the names walked
so far lead to, as long as it exists; others may add folders, which only makes
paths lead to more, and a deletion takes all that is below (`Below`), so what is
left of a path still leads to what is left. `MissingOK` keeps what a client has
not found out of the folder except for what came later. For the download,
`IsAhead` says of every file that was there at the beginning that it is written,
listed, or at the end of the rest of the walk.

Only model-checked: the liveness properties (`EveryRequestIsAnswered`,
`ConnectReturns`, `StaysConnected`, `FinishedTradeIsSettled`,
`EveryJobIsSettled`, `UnevenIsRepaired`, `EveryAccountHasItsTurn`, `OwnerIsTold`,
`MoneyIsOffered`), since fairness and ENABLED are out of the prover's reach.
Everything else the runs check is proved. Inductions over sums, paths and
depths are over concrete sets of naturals, from the library's theorem that `<`
is well founded: its induction theorems take an operator as a parameter, which
the installed provers cannot instantiate.

## 6. What the properties say

In words, the results a reader of the code should take away:

- However callbacks and jobs race, repeat and crash, an order that is effective,
  billed or subscribed is free or has been paid; a trade that sync_payment no
  longer looks at has a decided order; ECPay is answered `1|OK` for decided
  orders only. With the job on, a decided trade reaches its order even if all
  callbacks are lost, unless a job that had asked before the payment has failed
  the order. A paid order is undone in one way only, by such a job.
- The days an end user has bought in advance have no gap, however many orders are
  charged at once, and each gives access unless its own order was failed by such
  a job. An order adds the whole length of its plan, unless another row was
  committed after its query.
- A request that fails stores nothing. Rows are lost only through a shared
  session.
- The connect lock is always released, connect() always returns, and once
  connections stop failing the client has one. A market whose ticker was asked
  for is deaf only after a reconnection.
- A pair is turned round (coin short or future long) in two ways only, both
  through balances read before an `await`; in all other configurations an
  account is hedged between orders, and a leg that was lost is evened by the
  next undisturbed round.
- Within a date, pairs are ranked by rates of one update that is at most an hour
  old, whichever account made it and whatever failed half way. Every account has
  its turn unless one before it keeps raising, for a section that is null or a
  wallet without USD, or a future has no rates; and the owner is told of
  an account above its leverage unless an alarm section is null.
- No cron job is started twice for a minute, and it misses one only if the
  scheduler was down or blind in it, or busy with a cron job around it. Jobs are
  neither lost nor multiplied by connections and workers that fail, none is
  settled untried, and each is settled in the end unless its row is gone.
- In whatever order people log in, accounts share an end user only if their
  providers named the same email with the same verdict, and no login is refused
  because of earlier ones, unless LINE gives no email.
- An installation that returns leaves the tables as the files say, keeps the ids
  of rows that stay, and raises only for a cause; except where two modules install
  into one table, or an abandoned installation has left a sequence behind. Among
  the causes is an installed row in the way of one whose entry is gone.
- A lending job leaves what is to be held unless money has left the wallet under
  it; a round ends short, or is refused, only for a reason that can be named;
  with a usable configuration money is offered again and again. Of any two rates
  the market can show, the higher is never lent for the shorter period, by the
  default rules or any others that rise.
- Commands on the drive arrive at the directory they were given; a folder is
  doubled only by two commands at once; a directory download has every file
  directly in the directory that was there throughout.

## 7. Where code and its words disagree

No run expects a violation: each disagreement below is either what a property
names as the only exception, or so in every run.

Named by a property, which says that nothing else leads there:

- A job that loaded the order before the callback committed writes
  PAYMENT_FAILED over EFFECTIVE, an arrow the state table does not have
  (`customer/models/payment.py:45`): `PaidIsUndoneOnlyByStaleSync`. The
  subscriptions of that order stay and give no access (`IsFailedTime` in
  `NoInterruption`).
- "Unpaid" is stored as a result like any other, with a reference, and
  sync_payment passes over trades that have one (`base/models/payment.py:196-199`).
  If a job asks before the money comes and the callbacks are lost, nobody asks
  again: the order stays failed though it was paid: `HasReached` in
  `FinishedTradeIsSettled`.
- `with_for_update` locks the rows it finds. Two first orders charged at once
  find none and overlap, and the time of one is lost, though the lock is there
  "to prevent race condition" (`coin/models/product.py:13`):
  `PaidTimeLostOnlyByRace`.
- `_on_open`, which clears the list of subscriptions, is never handed to
  `WebSocketApp` (`spot_perp_bot/ftx.py:732`); after a reconnection tickers stay
  as they were: `DeafOnlyAfterReconnect`.
- `managed_transaction` says the session is not closed there, "or you won't be
  able to response" (`base_fastapi/decorators.py:23`). A request that arrives in
  the same pool thread closes it all the same; the one about to commit then
  answers with success and its rows are gone: `LostOnlyBySharing`.
- No pair is to be traded the reverse way; the collection beside execute, and
  the decrease after a failed always-decrease, do it: `ReversedOnlyByStaleRead`.
- `should_update_funding_rate` compares hours on the same date, under a comment
  that only means "within the same hour" (`spot_perp_bot/ftx.py:168`). After
  midnight rates stay as they are until the process is started again:
  `RankedByFreshRates`.
- A PATCH that sets a section to null, a wallet without USD
  (`balance_map['USD']`, `spot_perp_bot/ftx.py:193`; the list leaves out what is
  zero) and a pair at its smallest size in the garbage collection raise in every
  round, for all accounts that come after: `EveryAccountHasItsTurn`. Alarms of earlier accounts are lost with them
  (`spot_perp_bot/models/job.py:91`): `OwnerIsTold`.
- The pass for a module deletes rows that another one installed into the same
  table, such as cron_job, whose logs then make PostgreSQL refuse
  (`core/database/database.py:233`): `LostOnlyIfShared`, `RaisesOnlyForCause`.
  setval of an abandoned installation is not rolled back either. The next one then
  takes ids that are in use and raises; or it gives a new row an id that lation_data
  still has for an entry that is gone, takes the row for that entry's, and deletes
  it in the same pass. It returns without a word and the entry has no row:
  `lagging` in `InstalledAsWritten`. A row of a later file that names this entry
  then leads nowhere, and its flush raises.
- An entry that is removed together with those that refer to it, by a key that is
  neither cascaded nor set to NULL, is refused on every installation from then on
  (`core/database/database.py:253`): what is referred to comes first. So it is with
  a payment gateway and its platform_payment_gateway and
  payment_gateway_currency rows, and with a currency and its prices: `InTheWay` in
  `RaisesOnlyForCause`.
- Wallets are read before the offers are cancelled (`coin/models/end_user.py:21`),
  so what they release idles for a round; and key and secret from two PATCHes
  are never checked as a pair: `ShortOnlyForCause`. Two jobs of one end user
  offer the same balance: `HoldBrokenOnlyIfMoneyLeft`.
- Two Google accounts whose email is not verified are one end user if it is the
  same email: `JoinedByEmail`.
- Folders are created after a look that another command also had:
  `DoubledOnlyByRace`.

So in every run, or outside what a property speaks of:

- `bind_action` (`core/orm.py:59`) runs the body before it looks at the state. A
  repeated callback is refused, and its second payment and subscription rows are
  committed.
- A commit of a cron job's log that raises is not caught: the scheduler ends
  until it is deployed again (`base/models/job.py:179`).
- The quota of a plan is tested when an order is drafted; two drafts of the free
  trial can both become effective (`customer/routers/product.py:68`).
- A job that asks ECPay while the buyer still fills in the form gets "unpaid"
  and fails the order; the later callback stores a payment and a subscription
  for an order that stays PAYMENT_FAILED.
- A token is accepted for as long as it is active, and nothing deactivates it:
  `login_required` does not look at its expiration
  (`customer/dependencies.py:32`) and logging out takes only the cookie. The
  cookie's age counts from when the browser has the answer, the token's life from
  before the commit (`base_fastapi/models/end_user.py:18`), and max_age is written
  with a fraction, so the model promises nothing about when a session ends.
- Whoever wants may post a callback: `CheckMacValue` and `SimulatePaid` are
  received and never looked at (`customer/routers/payment.py`). `Checkout` assumes
  that callbacks are ECPay's.
- A wallet list without a funding wallet raises StopIteration
  (`coin/models/end_user.py:42`) after the offers were cancelled; the model's end
  users have one.
- stock's hook adds a subscription beside one made by hand, after which
  `one_or_none` raises (`stock/models/product.py:14`).
- `reconnect()` reads `self.ws` again and can hand None to an assertion, which
  ends that callback; `CallbackEnds` models it, and the client recovers.
- `close` in `execute` passes the smaller of balance and position and asks that
  both be strictly larger, so no pair is ever closed
  (`spot_perp_bot/ftx.py:389`). In `Arbitrage` this is `Accepts`.
- The window of recommended rates starts with 25.55, a yearly rate among daily
  ones: until it has left the window, offers are at the strategy's largest rate
  and for its longest period. The web application and the scheduler each keep
  their own. Both indices are used on the R0 book (`coin/models/job.py:37`).
  Ends of the rules for periods belong to both neighbours.
- Strategies are not validated: a largest offer of 0 has every round refused
  after its cancellations, a negative one never ends.
- The summary of funding payments divides by their number, which may be 0.
- Drive: `not_mime_type` puts `mime_type` into its query, and `isinstance(...,
  list)` is asked of the wrong value; the working directory is looked for
  anywhere, so that a folder of its name below makes every command refuse; a
  file uploaded twice can never be downloaded by its name; one directly in the
  working directory cannot be either; `list` needs `--name`.

## 8. Not modelled, and why

- Start-up code, module loading, table definitions, Alembic: sequential, and
  over before anything runs.
- The rate limiter: threads poll two lists by wall-clock time; whether its limit
  holds is decided by sleeps of fractions of a second, which a model would have
  to invent.
- The FTX and Bitfinex clients, reports and summaries: requests that are signed
  and read; their exceptions are failures of the actions that call them.
- The vault (one local file), notifications, crawlers and the caches: I/O
  without shared state.
- Export and dropping of data: single commands.
- ECPay's SDK is third-party; ECPay, PostgreSQL, SQLAlchemy, FastAPI,
  websocket-client, FTX, Bitfinex, Google and LINE are modelled as far as `src`
  uses them, and marked external in `map`.
- Amounts, currencies, plan texts and percentages, checksums.
- The publisher's thirty retries (`message_queue.py:43`): a job is published once,
  or the cron job raises; a second copy that a retry makes is left out.
- One worker process per application and one scheduler are what the deployment
  has. The invariants of `Checkout` are proved for any
  number of workers.

## 9. Plan

Modelled: `Checkout`, `Subscription`, `RequestSessions`, `MarketFeed`,
`Arbitrage`, `JobPipeline`, `InstallData`, `FundingOffers`, `Login`,
`DriveStorage`, `BotAccounts`, with what each composes. None of them declares a
recursive operator. Proved are the invariants of all of them, both refinements and
every safety property the runs check (section 5). What could come next:

1. The rate limiter with time as a choice, for whether a call is ever noted twice.
2. Two trading pairs of one account in `Arbitrage`, in a run of its own.
3. `Checkout` and `Subscription` composed, so that an order that becomes effective
   and the subscription it adds are one commit of one model.
