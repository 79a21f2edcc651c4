---------------------------- MODULE BotAccounts ----------------------------
(***************************************************************************)
(* The accounts of the trading bot.  One process trades for all of them:   *)
(* execute, the garbage collection and the alarms are interval jobs on its *)
(* event loop that go through the accounts in order, and the endpoints     *)
(* change their configurations in between.  The map of pairs with the      *)
(* funding rates learnt, and the time they were learnt at, belong to the   *)
(* class and so to all accounts.                                           *)
(*                                                                         *)
(* What an account trades is in Arbitrage.  Here a trade is where a job    *)
(* may give way, and since any step may trade, jobs take turns after every *)
(* step.  Spreads and leverages are left open.  Hours are counted in UTC   *)
(* from the first; the loop over the pairs takes them in some order.       *)
(***************************************************************************)
EXTENDS Integers, FiniteSets

CONSTANTS
  Pairs,
  AccountCount,   \* strategies, in the order they are constructed
  HoursPerDay,    \* 24
  MaxHour,        \* the clock stops here
  MaxFaults       \* failed requests, futures without rates, accounts out of funds,
                  \* crashes, PATCHes

ASSUME BotAssumption ==
  /\ AccountCount \in Nat \ {0} /\ HoursPerDay \in Nat \ {0}
  /\ MaxHour \in Nat /\ MaxFaults \in Nat

Accounts == 1..AccountCount
Nobody == 0
Never == -1

Sections == {"alarm", "increase_pair", "always_increase_pair", "decrease_pair",
             "always_decrease_pair", "close_pair", "garbage_collect"}

VARIABLES
  hour,
  quoted,        \* pairs both whose tickers have arrived
  built,         \* accounts constructed since the process was started
  config,        \* account -> section -> "on", "off" or "null"
  rated,         \* pair -> hour whose funding rates it was given
  lastUpdate,    \* hour of last_funding_rate_update_time
  listed,        \* pairs whose future has a funding rate of the last six hours
  funded,        \* accounts that hold USD, and whose wallet is worth something
  account,       \* the account execute is at
  phase,         \* and where in its round
  collecting,    \* the account the garbage collection is at
  over,          \* accounts above their alarm's leverage
  told,          \* those among them the owner was told of
  faults

rates == <<rated, lastUpdate>>
process == <<quoted, built, config>>
executing == <<account, phase>>
alarms == <<over, told>>
vars == <<hour, process, rates, listed, funded, executing, collecting, alarms, faults>>

Day(h) == h \div HoursPerDay

\* default_strategy_config, which all accounts start with
DefaultConfig == [s \in Sections |-> IF s = "garbage_collect" THEN "off" ELSE "on"]

DefaultConfigs == [a \in Accounts |-> DefaultConfig]
NoRates == [p \in Pairs |-> Never]

Init ==
  /\ hour = 0
  /\ quoted = {} /\ built = 0 /\ config = DefaultConfigs
  /\ rated = NoRates /\ lastUpdate = Never
  /\ account = Nobody /\ phase = "idle" /\ collecting = Nobody
  /\ listed = Pairs /\ funded = Accounts /\ over = {} /\ told = {} /\ faults = 0

Fault == faults < MaxFaults /\ faults' = faults + 1

-----------------------------------------------------------------------------
(* The process.  Each account reads the markets and waits, with the event  *)
(* loop, until the ticker of every pair is there; only then is the next    *)
(* constructed, and after the last the jobs are started.                   *)

Ticker(p) ==
  /\ built > 0 /\ p \notin quoted
  /\ quoted' = quoted \cup {p}
  /\ UNCHANGED <<hour, built, config, rates, listed, funded, executing, collecting, alarms, faults>>

Construct ==
  /\ built < AccountCount
  /\ built > 0 => quoted = Pairs
  /\ built' = built + 1
  /\ UNCHANGED <<hour, quoted, config, rates, listed, funded, executing, collecting, alarms, faults>>

Running == built = AccountCount /\ quoted = Pairs

\* Everything learnt and every PATCH is gone.
Restart ==
  /\ Fault
  /\ quoted' = {} /\ built' = 0 /\ config' = DefaultConfigs
  /\ rated' = NoRates /\ lastUpdate' = Never
  /\ account' = Nobody /\ phase' = "idle" /\ collecting' = Nobody
  /\ UNCHANGED <<hour, listed, funded, alarms>>

\* deep_update: null replaces a section; an object is merged with it, or with its
\* defaults if it was null.
UpdateConfig(a, s, v) ==
  /\ Running
  /\ v # config[a][s] /\ (s = "close_pair" => v # "off")
  /\ IF v = DefaultConfig[s] THEN UNCHANGED faults ELSE Fault
  /\ config' = [config EXCEPT ![a][s] = v]
  /\ UNCHANGED <<hour, quoted, built, rates, listed, funded, executing, collecting, alarms>>

-----------------------------------------------------------------------------
(* execute, for one account after the other.                               *)

Is(v, s) == config[account][s] = v

\* Mutant: the job ends for good.
RaiseForGood == account' = Nobody /\ phase' = "ended"

\* The interval job prints the exception and starts anew at the first account.
Raise == account' = Nobody /\ phase' = "idle"

GoOn(to) == account' = account /\ phase' = to

StartRound ==
  /\ Running /\ phase = "idle"
  /\ account' = 1 /\ phase' = "leverage"
  /\ UNCHANGED <<hour, process, rates, listed, funded, collecting, alarms, faults>>

ReadLeverage ==
  /\ phase = "leverage"
  /\ IF Is("null", "increase_pair") \/ (Is("off", "increase_pair") /\ Is("null", "decrease_pair"))
     THEN Raise ELSE GoOn("increase")
  /\ UNCHANGED <<hour, process, rates, listed, funded, collecting, alarms, faults>>

\* Mutant: whatever the date.
ShouldUpdateAnyHour == lastUpdate = Never

ShouldUpdateFundingRate ==
  lastUpdate = Never \/ (Day(hour) = Day(lastUpdate) /\ hour # lastUpdate)

\* The rates are asked for at one hour, and the time noted may be of the next.
UpdateFundingRate ==
  /\ Pairs \subseteq listed
  /\ hour' \in {hour, hour + 1} /\ hour' <= MaxHour
  /\ rated' = [p \in Pairs |-> hour]
  /\ lastUpdate' = hour'

\* Mutant: the time is noted before the loop over the pairs.
UpdateHalfNoted ==
  /\ ~ Pairs \subseteq listed
  /\ \E done \in SUBSET (Pairs \cap listed) :
       rated' = [p \in Pairs |-> IF p \in done THEN hour ELSE rated[p]]
  /\ lastUpdate' = hour /\ UNCHANGED hour

\* The mean of no rate at all raises: pairs before that one have their rates.
UpdateHalf ==
  /\ ~ Pairs \subseteq listed
  /\ \E done \in SUBSET (Pairs \cap listed) :
       rated' = [p \in Pairs |-> IF p \in done THEN hour ELSE rated[p]]
  /\ UNCHANGED <<hour, lastUpdate>>

\* get_sorted_pairs_from_market; then the round goes on with the pairs it ranked.
Rank(to) ==
  \/ ~ShouldUpdateFundingRate /\ GoOn(to) /\ UNCHANGED <<hour, rates>>
  \/ ShouldUpdateFundingRate /\ UpdateFundingRate /\ GoOn(to)
  \/ ShouldUpdateFundingRate /\ UpdateHalf /\ Raise

Increases(a) == \E s \in {"always_increase_pair", "increase_pair"} : config[a][s] = "on"

\* get_too_much_currencies looks up the USD of the account, which the wallet lists if
\* there are any, and divides by what the wallet is worth.
CanBeWeighed(a) == a \in funded

\* The account is weighed before the pairs are ranked.
Increase ==
  /\ phase = "increase"
  /\ IF \/ Is("null", "always_increase_pair")
        \/ Is("off", "always_increase_pair") /\ Is("null", "increase_pair")
        \/ Increases(account) /\ ~CanBeWeighed(account)
     THEN Raise /\ UNCHANGED <<hour, rates>>
     ELSE IF Increases(account)
     THEN Rank("increasing")
     ELSE GoOn("decrease") /\ UNCHANGED <<hour, rates>>
  /\ UNCHANGED <<process, listed, funded, collecting, alarms, faults>>

Decrease ==
  /\ phase = "decrease"
  /\ IF \/ Is("null", "always_decrease_pair")
        \/ Is("off", "always_decrease_pair") /\ Is("null", "decrease_pair")
     THEN Raise /\ UNCHANGED <<hour, rates>>
     ELSE IF Is("on", "always_decrease_pair") \/ Is("on", "decrease_pair")
     THEN Rank("decreasing")
     ELSE GoOn("close") /\ UNCHANGED <<hour, rates>>
  /\ UNCHANGED <<process, listed, funded, collecting, alarms, faults>>

\* always_decrease_pair is read for each pair, after the trade of the one before.
\* decrease_pair is not read once a pair was always-decreased, nor close_pair below
\* the leverage.
Decreased ==
  /\ phase = "decreasing"
  /\ \/ GoOn("close")
     \/ /\ \/ Is("null", "always_decrease_pair") \/ Is("null", "decrease_pair")
           \/ Is("on", "decrease_pair") /\ Is("null", "close_pair")
        /\ Raise
  /\ UNCHANGED <<hour, process, rates, listed, funded, collecting, alarms, faults>>

Close ==
  /\ phase = "close"
  /\ IF Is("null", "close_pair") THEN Raise /\ UNCHANGED <<hour, rates>>
     ELSE Rank("closing") \/ (GoOn("balance") /\ UNCHANGED <<hour, rates>>)
  /\ UNCHANGED <<process, listed, funded, collecting, alarms, faults>>

\* What these trade, and the errors of their orders, do not matter here.
Increased ==
  /\ phase = "increasing" /\ GoOn("decrease")
  /\ UNCHANGED <<hour, process, rates, listed, funded, collecting, alarms, faults>>

Closed ==
  /\ phase = "closing" /\ GoOn("balance")
  /\ UNCHANGED <<hour, process, rates, listed, funded, collecting, alarms, faults>>

\* Then it is the next account's turn.
Balance ==
  /\ phase = "balance"
  /\ IF account < AccountCount THEN account' = account + 1 /\ phase' = "leverage" ELSE Raise
  /\ UNCHANGED <<hour, process, rates, listed, funded, collecting, alarms, faults>>

\* No error of the requests that read the exchange is caught.
RequestFails ==
  /\ \/ phase = "leverage" /\ (Is("on", "increase_pair") \/ Is("on", "decrease_pair"))
     \/ phase = "increase" /\ Increases(account)
     \/ phase = "decrease" /\ (Is("on", "always_decrease_pair") \/ Is("on", "decrease_pair"))
     \/ phase \in {"close", "balance"}
  /\ Fault /\ Raise
  /\ UNCHANGED <<hour, process, rates, listed, funded, collecting, alarms>>

Round ==
  \/ StartRound \/ ReadLeverage \/ Increase \/ Increased \/ Decrease \/ Decreased
  \/ Close \/ Closed \/ Balance

-----------------------------------------------------------------------------
(* The other interval jobs.                                                *)

\* decrease_negative_funding_payment_pairs of one account.  An error of it, a pair
\* too small to decrease among them, ends the job for the accounts after it.
Collect ==
  /\ Running
  /\ IF collecting = Nobody THEN collecting' = 1
     ELSE \/ /\ config[collecting]["garbage_collect"] # "null"
             /\ collecting' = IF collecting < AccountCount THEN collecting + 1 ELSE Nobody
          \/ /\ config[collecting]["garbage_collect"] # "off"
             /\ collecting' = Nobody
  /\ UNCHANGED <<hour, process, rates, listed, funded, executing, alarms, faults>>

Alarmed(a) == a \in over /\ config[a]["alarm"] = "on"

\* Mutant: the job returns at the first account that needs no alarm.
AlarmsReturn ==
  /\ Running
  /\ \A a \in Accounts : config[a]["alarm"] # "null"
  /\ told' = told \cup {a \in Accounts : \A b \in 1..a : Alarmed(b)}
  /\ UNCHANGED <<hour, process, rates, listed, funded, executing, collecting, over, faults>>

\* One message for all accounts, after the last was asked.  Where one raises there is
\* none, so a section that is null keeps the job from any effect.
Alarms ==
  /\ Running
  /\ \A a \in Accounts : config[a]["alarm"] # "null"
  /\ told' = told \cup {a \in Accounts : Alarmed(a)}
  /\ UNCHANGED <<hour, process, rates, listed, funded, executing, collecting, over, faults>>

\* A leverage is not answered, or LINE does not take the message.
AlarmsFail ==
  /\ Running /\ Fault
  /\ UNCHANGED <<hour, process, rates, listed, funded, executing, collecting, alarms>>

-----------------------------------------------------------------------------
(* The world.                                                              *)

Tick ==
  /\ hour < MaxHour
  /\ hour' = hour + 1
  /\ UNCHANGED <<process, rates, listed, funded, executing, collecting, alarms, faults>>

\* A future is new, or is not traded any more.
LosesRates(p) ==
  /\ p \in listed /\ Fault
  /\ listed' = listed \ {p}
  /\ UNCHANGED <<hour, process, rates, funded, executing, collecting, alarms>>

GetsRates(p) ==
  /\ p \notin listed
  /\ listed' = listed \cup {p}
  /\ UNCHANGED <<hour, process, rates, funded, executing, collecting, alarms, faults>>

\* The last USD of an account are spent, or its debts are as large as its holdings.
SpendsFunds(a) ==
  /\ a \in funded /\ Fault
  /\ funded' = funded \ {a}
  /\ UNCHANGED <<hour, process, rates, listed, executing, collecting, alarms>>

GetsFunds(a) ==
  /\ a \notin funded
  /\ funded' = funded \cup {a}
  /\ UNCHANGED <<hour, process, rates, listed, executing, collecting, alarms, faults>>

LeverageMoves(a) ==
  /\ over' = IF a \in over THEN over \ {a} ELSE over \cup {a}
  /\ told' = told \ {a}
  /\ UNCHANGED <<hour, process, rates, listed, funded, executing, collecting, faults>>

Next ==
  \/ Construct \/ Restart \/ Round \/ RequestFails \/ Collect \/ Alarms \/ AlarmsFail \/ Tick
  \/ \E p \in Pairs : Ticker(p) \/ LosesRates(p) \/ GetsRates(p)
  \/ \E a \in Accounts :
       \/ LeverageMoves(a) \/ SpendsFunds(a) \/ GetsFunds(a)
       \/ \E s \in Sections, v \in {"on", "off", "null"} : UpdateConfig(a, s, v)

Spec == Init /\ [][Next]_vars

\* Tickers arrive, and the three jobs of a process that runs are started again and again.
FairSpec ==
  /\ Spec
  /\ WF_vars(Construct) /\ \A p \in Pairs : WF_vars(Ticker(p))
  /\ WF_vars(Round) /\ WF_vars(Collect) /\ WF_vars(Alarms)

-----------------------------------------------------------------------------
(* Properties.                                                             *)

\* Types; the owner was told of accounts above their leverage only.
TypeOK ==
  /\ hour \in 0..MaxHour
  /\ quoted \subseteq Pairs /\ listed \subseteq Pairs /\ funded \subseteq Accounts
  /\ built \in 0..AccountCount
  /\ config \in [Accounts -> [Sections -> {"on", "off", "null"}]]
  /\ rated \in [Pairs -> Never..MaxHour] /\ lastUpdate \in Never..MaxHour
  /\ account \in 0..AccountCount /\ collecting \in 0..AccountCount
  /\ phase \in {"idle", "leverage", "increase", "increasing", "decrease", "decreasing",
                "close", "closing", "balance"}
  /\ over \subseteq Accounts /\ told \subseteq over
  /\ faults \in 0..MaxFaults

\* Rates are of the hour noted or of the one before it, unless an update has failed
\* half way since; and what is learnt is never of a later hour than the clock's.
RatesAreOfLastUpdate ==
  /\ \A p \in Pairs : rated[p] <= hour
  /\ lastUpdate # Never =>
       /\ lastUpdate <= hour
       /\ \A p \in Pairs : rated[p] >= lastUpdate - 1 /\ rated[p] # Never

\* All rates are of one update, which ended at the hour noted or began in the one before.
OfOneUpdate == \E h \in {hour - 1, hour} : \A p \in Pairs : rated[p] = h

\* The inductive invariant: types; a job is at an account only while the process runs;
\* and what is known of the rates, which are of one update in the hour it was noted in.
IInv ==
  /\ TypeOK
  /\ phase = "idle" <=> account = Nobody
  /\ account # Nobody \/ collecting # Nobody \/ lastUpdate # Never => Running
  /\ RatesAreOfLastUpdate
  /\ lastUpdate = hour => OfOneUpdate

\* The comment on should_update_funding_rate (ftx.py:168) allows rates an hour old.
\* Whenever a round ranks the pairs, every rate is that recent and all are of one
\* update, whichever account made it, even after updates that failed half way; but
\* not when the date has changed since the last complete update.
RankedByFreshRates ==
  [][phase' \in {"increasing", "decreasing", "closing"} /\ phase' # phase =>
       \/ Day(lastUpdate') < Day(hour')
       \/ \E h \in {hour' - 1, hour'} : \A p \in Pairs : rated'[p] = h]_vars

\* A future has no rates; or the round of an account before a cannot get to its end: a
\* trading section is null, or the account is to increase a pair and has no USD.
Held(a) ==
  \/ listed # Pairs
  \/ \E b \in 1..(a - 1) : Increases(b) /\ ~CanBeWeighed(b)
  \/ \E b \in 1..(a - 1), s \in Sections \ {"alarm", "garbage_collect"} : config[b][s] = "null"

\* Every account has its turn in execute again and again, unless what another one
\* raises keeps it from it; in the garbage collection, if that is off before it.
EveryAccountHasItsTurn ==
  \A a \in Accounts :
    /\ []<>(account = a \/ Held(a))
    /\ []<>(collecting = a \/ \E b \in 1..(a - 1) : config[b]["garbage_collect"] # "off")

\* The owner is told of an account above its alarm's leverage, for as long as it is,
\* unless the alarm section of some account is null.
OwnerIsTold ==
  \A a \in Accounts :
    Alarmed(a) ~> \/ ~Alarmed(a) \/ a \in told
                  \/ \E b \in Accounts : config[b]["alarm"] = "null"
=============================================================================
