----------------------------- MODULE BotProofs -----------------------------
(***************************************************************************)
(* Proofs about the accounts of the trading bot, for any number of         *)
(* accounts and pairs and for days of any length: the inductive invariant, *)
(* and that a round never ranks the pairs by rates of different updates or *)
(* by rates more than an hour old, except on the days after the update.    *)
(***************************************************************************)
EXTENDS BotAccounts, TLAPS

USE BotAssumption

\* Hours that come later are of a later day or of the same.
LEMMA DayMonotone ==
  ASSUME NEW m \in Nat, NEW n \in Nat, m <= n
  PROVE  Day(m) \in Nat /\ Day(n) \in Nat /\ Day(m) <= Day(n)
BY SMTT(30) DEF Day

-----------------------------------------------------------------------------
(* The inductive invariant.  What it says of the rates and what it says of *)
(* the jobs are disturbed by different actions.                            *)

Busy == {"leverage", "increase", "increasing", "decrease", "decreasing",
         "close", "closing", "balance"}

RatesOK ==
  /\ hour \in 0..MaxHour
  /\ rated \in [Pairs -> Never..MaxHour] /\ lastUpdate \in Never..MaxHour
  /\ RatesAreOfLastUpdate
  /\ lastUpdate = hour => OfOneUpdate

JobsOK ==
  /\ quoted \subseteq Pairs /\ listed \subseteq Pairs /\ funded \subseteq Accounts
  /\ built \in 0..AccountCount
  /\ config \in [Accounts -> [Sections -> {"on", "off", "null"}]]
  /\ account \in 0..AccountCount /\ collecting \in 0..AccountCount
  /\ phase \in Busy \cup {"idle"}
  /\ over \subseteq Accounts /\ told \subseteq over
  /\ faults \in 0..MaxFaults
  /\ phase = "idle" <=> account = Nobody
  /\ account # Nobody \/ collecting # Nobody \/ lastUpdate # Never => Running

LEMMA InTwoParts ==
  /\ IInv <=> RatesOK /\ JobsOK
  /\ IInv' <=> RatesOK' /\ JobsOK'
<1>1. IInv <=> RatesOK /\ JobsOK
  BY Zenon DEF IInv, TypeOK, RatesOK, JobsOK, Busy
<1>2. IInv' <=> RatesOK' /\ JobsOK'
  BY Zenon DEF IInv, TypeOK, RatesOK, JobsOK, Busy
<1> QED
  BY <1>1, <1>2

LEMMA SameRates ==
  ASSUME RatesOK, UNCHANGED <<hour, rates>>
  PROVE  RatesOK'
<1> UNCHANGED <<hour, rated, lastUpdate>>
  BY DEF rates
<1> QED
  BY DEF RatesOK, RatesAreOfLastUpdate, OfOneUpdate

\* Later, the rates may be of more hours ago; none is of the last update's hour.
LEMMA TickKeepsRates ==
  ASSUME RatesOK, Tick
  PROVE  RatesOK'
<1> /\ hour < MaxHour /\ hour' = hour + 1
    /\ UNCHANGED <<rated, lastUpdate>>
  BY DEF Tick, rates
<1>1. hour' \in 0..MaxHour
  BY DEF RatesOK
<1>2. RatesAreOfLastUpdate'
  BY DEF RatesOK, RatesAreOfLastUpdate, Never
<1>3. lastUpdate' # hour'
  <2>1. lastUpdate # Never => lastUpdate <= hour
    BY DEF RatesOK, RatesAreOfLastUpdate
  <2> QED
    BY <2>1 DEF RatesOK, Never
<1> QED
  BY <1>1, <1>2, <1>3 DEF RatesOK

LEMMA UpdateKeepsRates ==
  ASSUME RatesOK, UpdateFundingRate
  PROVE  RatesOK' /\ OfOneUpdate'
<1>1. /\ hour \in 0..MaxHour /\ hour' \in {hour, hour + 1} /\ hour' <= MaxHour
      /\ lastUpdate' = hour'
  BY DEF UpdateFundingRate, RatesOK
<1>2. rated' = [p \in Pairs |-> hour]
  BY DEF UpdateFundingRate
<1>3. \A p \in Pairs : rated'[p] = hour
  BY <1>2
<1>4. hour \in {hour' - 1, hour'}
  <2>1. hour \in Int /\ (hour' = hour \/ hour' = hour + 1)
    BY <1>1
  <2> QED
    BY <2>1
<1>5. OfOneUpdate'
  BY <1>3, <1>4 DEF OfOneUpdate
<1>6. rated' \in [Pairs -> Never..MaxHour]
  BY <1>1, <1>2 DEF Never
<1>7. RatesAreOfLastUpdate'
  BY <1>1, <1>3 DEF RatesAreOfLastUpdate, Never
<1> QED
  BY <1>1, <1>5, <1>6, <1>7 DEF RatesOK, Never

\* An update is due only when the hour is not the one noted.
LEMMA HalfUpdateKeepsRates ==
  ASSUME RatesOK, ShouldUpdateFundingRate, UpdateHalf
  PROVE  RatesOK'
<1>1. hour \in 0..MaxHour /\ UNCHANGED <<hour, lastUpdate>>
  BY DEF UpdateHalf, RatesOK
<1>2. PICK done \in SUBSET (Pairs \cap listed) :
        rated' = [p \in Pairs |-> IF p \in done THEN hour ELSE rated[p]]
  BY Zenon DEF UpdateHalf
<1>3. \A p \in Pairs : rated'[p] \in {hour, rated[p]}
  BY <1>2
<1>4. \A p \in Pairs : rated[p] \in Never..MaxHour
  BY DEF RatesOK
<1>5. rated' \in [Pairs -> Never..MaxHour]
  <2>1. \A p \in Pairs :
          (IF p \in done THEN hour ELSE rated[p]) \in Never..MaxHour
    BY <1>1, <1>4 DEF Never
  <2> QED
    BY <1>2, <2>1
<1>6. RatesAreOfLastUpdate'
  <2>1. \A p \in Pairs : rated'[p] <= hour
    BY <1>1, <1>3 DEF RatesOK, RatesAreOfLastUpdate
  <2>2. lastUpdate # Never =>
          \A p \in Pairs : rated'[p] >= lastUpdate - 1 /\ rated'[p] # Never
    BY <1>1, <1>3 DEF RatesOK, RatesAreOfLastUpdate, Never
  <2> QED
    BY <1>1, <2>1, <2>2 DEF RatesOK, RatesAreOfLastUpdate
<1>7. lastUpdate # hour
  BY <1>1 DEF ShouldUpdateFundingRate, Never
<1> QED
  BY <1>1, <1>5, <1>6, <1>7 DEF RatesOK

\* A step of execute: it goes on with its account or gives the round up.
LEMMA StepKeepsJobs ==
  ASSUME JobsOK, account # Nobody,
         Raise \/ \E to \in Busy : GoOn(to),
         UNCHANGED <<process, listed, funded, collecting, alarms>>, faults' \in 0..MaxFaults
  PROVE  JobsOK'
<1> UNCHANGED <<quoted, built, config, listed, funded, collecting, over, told>>
  BY DEF process, alarms
<1>1. Running'
  BY DEF JobsOK, Running
<1>2. /\ account' \in 0..AccountCount /\ phase' \in Busy \cup {"idle"}
      /\ phase' = "idle" <=> account' = Nobody
  BY DEF JobsOK, Raise, GoOn, Busy, Nobody
<1> QED
  BY <1>1, <1>2 DEF JobsOK

\* A step that neither updates rates nor moves a job.
LEMMA AsideKeepsJobs ==
  ASSUME JobsOK, UNCHANGED <<built, quoted, lastUpdate, executing, collecting>>,
         listed' \subseteq Pairs, funded' \subseteq Accounts, faults' \in 0..MaxFaults,
         config' \in [Accounts -> [Sections -> {"on", "off", "null"}]],
         over' \subseteq Accounts, told' \subseteq over'
  PROVE  JobsOK'
<1> UNCHANGED <<account, phase>>
  BY DEF executing
<1>1. Running' = Running
  BY DEF Running
<1> QED
  BY <1>1 DEF JobsOK

-----------------------------------------------------------------------------

LEMMA InitEstablishes == Init => IInv
<1> SUFFICES ASSUME Init PROVE IInv
  OBVIOUS
<1>1. hour = 0 /\ lastUpdate = Never /\ rated = [p \in Pairs |-> Never]
  BY DEF Init, NoRates
<1>2. RatesOK
  BY <1>1 DEF RatesOK, RatesAreOfLastUpdate, Never
<1>3. config \in [Accounts -> [Sections -> {"on", "off", "null"}]]
  BY DEF Init, DefaultConfigs, DefaultConfig
<1>4. JobsOK
  BY <1>3 DEF Init, JobsOK, Busy, Nobody
<1> QED
  BY <1>2, <1>4, InTwoParts

LEMMA StartsKeepIInv ==
  ASSUME IInv, Construct \/ Restart \/ StartRound \/ \E p \in Pairs : Ticker(p)
  PROVE  IInv'
<1>1. RatesOK /\ JobsOK
  BY InTwoParts
<1>2. CASE \E p \in Pairs : Ticker(p)
  <2>1. PICK p \in Pairs : Ticker(p)
    BY <1>2
  <2>2. /\ p \notin quoted /\ quoted' = quoted \cup {p}
        /\ UNCHANGED <<hour, built, config, rates, listed, funded, executing, collecting, over, told, faults>>
    BY <2>1 DEF Ticker, alarms
  <2>3. ~Running
    BY <2>2 DEF Running
  <2>4. JobsOK'
    BY <1>1, <2>2, <2>3 DEF JobsOK, executing, rates
  <2> QED
    BY <1>1, <2>2, <2>4, SameRates, InTwoParts
<1>3. CASE Construct
  <2>1. /\ built < AccountCount /\ built' = built + 1
        /\ UNCHANGED <<hour, quoted, config, rates, listed, funded, executing, collecting, over, told, faults>>
    BY <1>3 DEF Construct, alarms
  <2>2. ~Running /\ built' \in 0..AccountCount
    BY <1>1, <2>1 DEF Running, JobsOK
  <2>3. JobsOK'
    BY <1>1, <2>1, <2>2 DEF JobsOK, executing, rates
  <2> QED
    BY <1>1, <2>1, <2>3, SameRates, InTwoParts
<1>4. CASE Restart
  <2>1. /\ hour' = hour /\ lastUpdate' = Never /\ rated' = [p \in Pairs |-> Never]
        /\ hour \in 0..MaxHour
    BY <1>1, <1>4 DEF Restart, NoRates, RatesOK
  <2>2. RatesOK'
    BY <2>1 DEF RatesOK, RatesAreOfLastUpdate, Never
  <2>3. config' \in [Accounts -> [Sections -> {"on", "off", "null"}]]
    BY <1>4 DEF Restart, DefaultConfigs, DefaultConfig
  <2>4. faults' \in 0..MaxFaults
    BY <1>1, <1>4 DEF Restart, Fault, JobsOK
  <2>5. JobsOK'
    BY <1>1, <1>4, <2>3, <2>4 DEF Restart, JobsOK, Busy, Nobody, alarms
  <2> QED
    BY <2>2, <2>5, InTwoParts
<1>5. CASE StartRound
  <2>1. /\ Running /\ account' = 1 /\ phase' = "leverage"
        /\ UNCHANGED <<hour, process, rates, listed, funded, collecting, alarms, faults>>
    BY <1>5 DEF StartRound
  <2>2. JobsOK'
    <3>1. Running'
      BY <2>1 DEF Running, process
    <3> QED
      BY <1>1, <2>1, <3>1 DEF JobsOK, Busy, Nobody, process, alarms
  <2> QED
    BY <1>1, <2>1, <2>2, SameRates, InTwoParts
<1> QED
  BY <1>2, <1>3, <1>4, <1>5

\* The part of a round that asks for the ranking.
LEMMA RankKeepsIInv ==
  ASSUME IInv, account # Nobody, NEW to \in Busy, Rank(to),
         UNCHANGED <<process, listed, funded, collecting, alarms, faults>>
  PROVE  IInv'
<1>1. RatesOK /\ JobsOK
  BY InTwoParts
<1>2. RatesOK'
  <2>1. CASE UNCHANGED <<hour, rates>>
    BY <1>1, <2>1, SameRates
  <2>2. CASE UpdateFundingRate
    BY <1>1, <2>2, UpdateKeepsRates
  <2>3. CASE ShouldUpdateFundingRate /\ UpdateHalf
    BY <1>1, <2>3, HalfUpdateKeepsRates
  <2> QED
    BY <2>1, <2>2, <2>3 DEF Rank
<1>3. Raise \/ \E other \in Busy : GoOn(other)
  BY DEF Rank
<1>4. JobsOK'
  <2>1. faults' \in 0..MaxFaults
    BY <1>1 DEF JobsOK
  <2> QED
    BY <1>1, <1>3, <2>1, StepKeepsJobs
<1> QED
  BY <1>2, <1>4, InTwoParts

\* A step of a round that does not.
LEMMA MoveKeepsIInv ==
  ASSUME IInv, account # Nobody, Raise \/ \E to \in Busy : GoOn(to),
         UNCHANGED <<hour, process, rates, listed, funded, collecting, alarms>>,
         faults' \in 0..MaxFaults
  PROVE  IInv'
<1>1. RatesOK /\ JobsOK
  BY InTwoParts
<1>2. RatesOK'
  BY <1>1, SameRates
<1>3. JobsOK'
  BY <1>1, StepKeepsJobs
<1> QED
  BY <1>2, <1>3, InTwoParts

LEMMA RoundKeepsIInv ==
  ASSUME IInv, Round \/ RequestFails
  PROVE  IInv'
<1>1. JobsOK /\ (phase \in Busy <=> account # Nobody) /\ faults \in 0..MaxFaults
  BY InTwoParts DEF JobsOK, Busy
<1> DEFINE Same == UNCHANGED <<hour, process, rates, listed, funded, collecting, alarms, faults>>
           Moved == Same /\ (Raise \/ \E to \in Busy : GoOn(to))
           Ranked == /\ \E to \in Busy : Rank(to)
                     /\ UNCHANGED <<process, listed, funded, collecting, alarms, faults>>
<1>2. ASSUME account # Nobody, Moved \/ Ranked PROVE IInv'
  <2>1. faults' \in 0..MaxFaults
    BY <1>1, <1>2
  <2> QED
    BY <1>2, <2>1, MoveKeepsIInv, RankKeepsIInv
<1>3. CASE StartRound
  BY <1>3, StartsKeepIInv
<1>4. CASE ReadLeverage
  BY <1>1, <1>2, <1>4 DEF ReadLeverage, Busy
<1>5. CASE Increase
  BY <1>1, <1>2, <1>5 DEF Increase, Busy
<1>6. CASE Increased
  BY <1>1, <1>2, <1>6 DEF Increased, Busy
<1>7. CASE Decrease
  BY <1>1, <1>2, <1>7 DEF Decrease, Busy
<1>8. CASE Decreased
  BY <1>1, <1>2, <1>8 DEF Decreased, Busy
<1>9. CASE Close
  BY <1>1, <1>2, <1>9 DEF Close, Busy
<1>10. CASE Closed
  BY <1>1, <1>2, <1>10 DEF Closed, Busy
<1>11. CASE Balance
  <2>1. account # Nobody /\ account \in 0..AccountCount
    BY <1>1, <1>11 DEF Balance, Busy, JobsOK
  <2>2. CASE account < AccountCount
    <3>1. /\ account' = account + 1 /\ phase' = "leverage"
          /\ UNCHANGED <<hour, process, rates, listed, funded, collecting, alarms, faults>>
      BY <1>11, <2>2 DEF Balance
    <3>2. RatesOK'
      BY <3>1, InTwoParts, SameRates
    <3>3. Running'
      BY <1>1, <2>1, <3>1 DEF JobsOK, Running, process
    <3>4. account' \in 0..AccountCount /\ account' # Nobody
      BY <2>1, <2>2, <3>1 DEF Nobody
    <3>5. JobsOK'
      BY <1>1, <3>1, <3>3, <3>4 DEF JobsOK, Busy, process, alarms
    <3> QED
      BY <3>2, <3>5, InTwoParts
  <2>3. CASE ~(account < AccountCount)
    BY <1>2, <1>11, <2>1, <2>3 DEF Balance
  <2> QED
    BY <2>2, <2>3
<1>12. CASE RequestFails
  <2>1. /\ phase \in Busy /\ Raise /\ faults < MaxFaults /\ faults' = faults + 1
        /\ UNCHANGED <<hour, process, rates, listed, funded, collecting, alarms>>
    BY <1>12 DEF RequestFails, Busy, Fault
  <2>2. faults' \in 0..MaxFaults
    BY <1>1, <2>1
  <2> QED
    BY <1>1, <2>1, <2>2, MoveKeepsIInv
<1> QED
  BY <1>3, <1>4, <1>5, <1>6, <1>7, <1>8, <1>9, <1>10, <1>11, <1>12 DEF Round

LEMMA OthersKeepIInv ==
  ASSUME IInv,
         \/ Collect \/ Alarms \/ AlarmsFail \/ Tick
         \/ \E p \in Pairs : LosesRates(p) \/ GetsRates(p)
         \/ \E a \in Accounts :
              \/ LeverageMoves(a) \/ SpendsFunds(a) \/ GetsFunds(a)
              \/ \E s \in Sections, v \in {"on", "off", "null"} : UpdateConfig(a, s, v)
  PROVE  IInv'
<1>1. RatesOK /\ JobsOK
  BY InTwoParts
<1>2. /\ faults \in 0..MaxFaults /\ listed \subseteq Pairs /\ funded \subseteq Accounts
      /\ config \in [Accounts -> [Sections -> {"on", "off", "null"}]]
      /\ over \subseteq Accounts /\ told \subseteq over
  BY <1>1 DEF JobsOK
<1>3. CASE Collect
  <2>1. Running /\ UNCHANGED <<hour, process, rates, listed, funded, executing, alarms, faults>>
    BY <1>3 DEF Collect
  <2>2. collecting' \in 0..AccountCount
    BY <1>1, <1>3 DEF Collect, JobsOK, Nobody
  <2>3. UNCHANGED <<quoted, built, config, listed, funded, account, phase, over, told, faults>>
    BY <2>1 DEF process, executing, alarms
  <2>4. Running'
    BY <2>1, <2>3 DEF Running
  <2>5. JobsOK'
    BY <1>1, <2>2, <2>3, <2>4 DEF JobsOK
  <2> QED
    BY <1>1, <2>1, <2>5, SameRates, InTwoParts
<1>4. CASE Alarms
  <2>1. /\ told' = told \cup {a \in Accounts : Alarmed(a)}
        /\ UNCHANGED <<hour, process, rates, listed, funded, executing, collecting, over, faults>>
    BY <1>4 DEF Alarms
  <2>2. told' \subseteq over
    BY <1>2, <2>1 DEF Alarmed
  <2>3. UNCHANGED <<hour, rates, built, quoted, lastUpdate, config, executing, collecting>>
    BY <2>1 DEF process, rates
  <2>4. JobsOK'
    BY <1>1, <1>2, <2>1, <2>2, <2>3, AsideKeepsJobs
  <2> QED
    BY <1>1, <2>3, <2>4, SameRates, InTwoParts
<1>5. CASE AlarmsFail
  <2>1. /\ faults < MaxFaults /\ faults' = faults + 1
        /\ UNCHANGED <<hour, rates, built, quoted, lastUpdate, config, executing, collecting,
                       listed, funded, over, told>>
    BY <1>5 DEF AlarmsFail, Fault, process, rates, alarms
  <2>2. faults' \in 0..MaxFaults
    BY <1>2, <2>1
  <2>3. JobsOK'
    BY <1>1, <1>2, <2>1, <2>2, AsideKeepsJobs
  <2> QED
    BY <1>1, <2>1, <2>3, SameRates, InTwoParts
<1>6. CASE Tick
  <2>1. UNCHANGED <<rates, built, quoted, lastUpdate, config, executing, collecting,
                    listed, funded, over, told, faults>>
    BY <1>6 DEF Tick, process, rates, alarms
  <2>2. JobsOK'
    BY <1>1, <1>2, <2>1, AsideKeepsJobs
  <2> QED
    BY <1>1, <1>6, <2>2, TickKeepsRates, InTwoParts
<1>7. CASE \E p \in Pairs : LosesRates(p) \/ GetsRates(p)
  <2>1. PICK p \in Pairs : LosesRates(p) \/ GetsRates(p)
    BY <1>7
  <2>2. UNCHANGED <<hour, rates, built, quoted, lastUpdate, config, executing, collecting,
                    funded, over, told>>
    BY <2>1 DEF LosesRates, GetsRates, process, rates, alarms
  <2>3. faults' \in 0..MaxFaults /\ listed' \subseteq Pairs
    BY <1>2, <2>1 DEF LosesRates, GetsRates, Fault
  <2>4. JobsOK'
    BY <1>1, <1>2, <2>2, <2>3, AsideKeepsJobs
  <2> QED
    BY <1>1, <2>2, <2>4, SameRates, InTwoParts
<1>8. CASE \E a \in Accounts : LeverageMoves(a)
  <2>1. PICK a \in Accounts : LeverageMoves(a)
    BY <1>8
  <2>2. UNCHANGED <<hour, rates, built, quoted, lastUpdate, config, executing, collecting,
                    listed, funded, faults>>
    BY <2>1 DEF LeverageMoves, process, rates
  <2>3. over' \subseteq Accounts /\ told' \subseteq over'
    BY <1>2, <2>1 DEF LeverageMoves
  <2>4. JobsOK'
    BY <1>1, <1>2, <2>2, <2>3, AsideKeepsJobs
  <2> QED
    BY <1>1, <2>2, <2>4, SameRates, InTwoParts
<1>9. CASE \E a \in Accounts, s \in Sections, v \in {"on", "off", "null"} :
             UpdateConfig(a, s, v)
  <2>1. PICK a \in Accounts, s \in Sections, v \in {"on", "off", "null"} :
               UpdateConfig(a, s, v)
    BY <1>9
  <2>2. /\ UNCHANGED <<hour, rates, built, quoted, lastUpdate, executing, collecting,
                       listed, funded, over, told>>
        /\ config' = [config EXCEPT ![a][s] = v]
    BY <2>1 DEF UpdateConfig, rates, alarms
  <2>3. faults' \in 0..MaxFaults
    BY <1>2, <2>1 DEF UpdateConfig, Fault
  <2>4. config' \in [Accounts -> [Sections -> {"on", "off", "null"}]]
    BY <1>2, <2>1, <2>2
  <2>5. JobsOK'
    BY <1>1, <1>2, <2>2, <2>3, <2>4, AsideKeepsJobs
  <2> QED
    BY <1>1, <2>2, <2>5, SameRates, InTwoParts
<1>10. CASE \E a \in Accounts : SpendsFunds(a) \/ GetsFunds(a)
  <2>1. PICK a \in Accounts : SpendsFunds(a) \/ GetsFunds(a)
    BY <1>10
  <2>2. UNCHANGED <<hour, rates, built, quoted, lastUpdate, config, executing, collecting,
                    listed, over, told>>
    BY <2>1 DEF SpendsFunds, GetsFunds, process, rates, alarms
  <2>3. faults' \in 0..MaxFaults /\ funded' \subseteq Accounts
    BY <1>2, <2>1 DEF SpendsFunds, GetsFunds, Fault
  <2>4. JobsOK'
    BY <1>1, <1>2, <2>2, <2>3, AsideKeepsJobs
  <2> QED
    BY <1>1, <2>2, <2>4, SameRates, InTwoParts
<1> QED
  BY <1>3, <1>4, <1>5, <1>6, <1>7, <1>8, <1>9, <1>10

LEMMA NextKeepsIInv ==
  ASSUME IInv, [Next]_vars
  PROVE  IInv'
<1>1. CASE UNCHANGED vars
  <2>1. UNCHANGED <<hour, rates, built, quoted, lastUpdate, config, executing, collecting,
                    listed, funded, over, told, faults>>
    BY <1>1 DEF vars, process, rates, alarms
  <2>2. RatesOK /\ JobsOK
    BY InTwoParts
  <2>3. JobsOK'
    <3>1. /\ listed \subseteq Pairs /\ funded \subseteq Accounts /\ faults \in 0..MaxFaults
          /\ config \in [Accounts -> [Sections -> {"on", "off", "null"}]]
          /\ over \subseteq Accounts /\ told \subseteq over
      BY <2>2 DEF JobsOK
    <3> QED
      BY <2>1, <2>2, <3>1, AsideKeepsJobs
  <2> QED
    BY <2>1, <2>2, <2>3, SameRates, InTwoParts
<1>2. CASE Next
  BY <1>2, StartsKeepIInv, RoundKeepsIInv, OthersKeepIInv DEF Next
<1> QED
  BY <1>1, <1>2

\* Types; a job is at an account only while the process runs; the rates are of the hour
\* last noted or the one before, unless an update has failed half way since, and all of
\* one update in the hour it was noted in: for any number of accounts and pairs.
THEOREM Invariance == Spec => []IInv
<1>1. Init => IInv
  BY InitEstablishes
<1>2. IInv /\ [Next]_vars => IInv'
  BY NextKeepsIInv
<1> QED
  BY <1>1, <1>2, PTL DEF Spec

-----------------------------------------------------------------------------
(* Ranking.                                                                *)

\* A round is about to trade what it has ranked only after Rank, and Rank either
\* updated all rates, or found the hour to be the one noted or of a later day.
LEMMA RankIsFresh ==
  ASSUME IInv, NEW to, to # "idle", Rank(to), phase' = to
  PROVE  \/ Day(lastUpdate') < Day(hour')
         \/ OfOneUpdate'
<1>1. RatesOK /\ hour \in Nat /\ lastUpdate \in Nat \cup {Never}
  BY InTwoParts DEF RatesOK, Never
<1>2. CASE ~ShouldUpdateFundingRate /\ UNCHANGED <<hour, rates>>
  <2>1. UNCHANGED <<hour, rated, lastUpdate>>
    BY <1>2 DEF rates
  <2>2. /\ lastUpdate # Never
        /\ Day(hour) # Day(lastUpdate) \/ hour = lastUpdate
    BY <1>2 DEF ShouldUpdateFundingRate
  <2>3. lastUpdate \in Nat /\ lastUpdate <= hour
    BY <1>1, <2>2 DEF RatesOK, RatesAreOfLastUpdate
  <2>4. CASE hour = lastUpdate
    BY <1>1, <2>1, <2>4 DEF RatesOK, OfOneUpdate
  <2>5. CASE Day(hour) # Day(lastUpdate)
    <3>1. /\ Day(lastUpdate) \in Nat /\ Day(hour) \in Nat
          /\ Day(lastUpdate) <= Day(hour)
      BY <1>1, <2>3, DayMonotone
    <3>2. Day(lastUpdate) < Day(hour)
      BY <2>5, <3>1
    <3> QED
      BY <2>1, <3>2 DEF Day
  <2> QED
    BY <2>2, <2>4, <2>5
<1>3. CASE UpdateFundingRate
  BY <1>1, <1>3, UpdateKeepsRates
<1>4. CASE Raise
  BY <1>4 DEF Raise
<1> QED
  BY <1>2, <1>3, <1>4 DEF Rank

LEMMA OnlyRankStartsTrading ==
  ASSUME Next, phase' \in {"increasing", "decreasing", "closing"}, phase' # phase
  PROVE  Rank(phase')
<1>1. Increase \/ Decrease \/ Close
  BY Zenon DEF Next, Round, Construct, Restart, StartRound, ReadLeverage, Increased, Decreased,
     Closed, Balance, RequestFails, Collect, Alarms, AlarmsFail, Tick, Ticker, LosesRates,
     GetsRates, SpendsFunds, GetsFunds, LeverageMoves, UpdateConfig, Raise, GoOn, executing
<1>2. CASE Increase
  BY <1>2 DEF Increase, Raise, GoOn, Rank
<1>3. CASE Decrease
  BY <1>3 DEF Decrease, Raise, GoOn, Rank
<1>4. CASE Close
  BY <1>4 DEF Close, Raise, GoOn, Rank
<1> QED
  BY <1>1, <1>2, <1>3, <1>4

\* Whenever a round ranks the pairs, all rates are of one update which ended in this
\* hour or began in the one before, whichever account made it and whatever failed half
\* way; or the date has changed since the last complete update.
THEOREM RankedFresh == Spec => RankedByFreshRates
<1>1. IInv /\ [Next]_vars =>
        [phase' \in {"increasing", "decreasing", "closing"} /\ phase' # phase =>
           \/ Day(lastUpdate') < Day(hour')
           \/ \E h \in {hour' - 1, hour'} : \A p \in Pairs : rated'[p] = h]_vars
  <2> SUFFICES ASSUME IInv, Next,
                      phase' \in {"increasing", "decreasing", "closing"}, phase' # phase
               PROVE  \/ Day(lastUpdate') < Day(hour')
                      \/ \E h \in {hour' - 1, hour'} : \A p \in Pairs : rated'[p] = h
    OBVIOUS
  <2>1. Rank(phase') /\ phase' # "idle"
    BY OnlyRankStartsTrading
  <2>2. Day(lastUpdate') < Day(hour') \/ OfOneUpdate'
    BY <2>1, RankIsFresh
  <2> QED
    BY <2>2, Zenon DEF OfOneUpdate
<1> QED
  BY <1>1, Invariance, PTL DEF Spec, RankedByFreshRates

=============================================================================
