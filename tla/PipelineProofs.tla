--------------------------- MODULE PipelineProofs ---------------------------
(***************************************************************************)
(* For any cron jobs, schedules, rows and number of failures: IInv is      *)
(* inductive, and job queue and worker implement AtLeastOnce.  Scheduler   *)
(* and worker touch each other only in Publish, so each half of IInv is    *)
(* proved from the steps of its own side.                                  *)
(***************************************************************************)
EXTENDS JobPipeline, TLAPS

ClockInv == StartedOncePerMinute /\ MissedOnlyIfDisturbed /\ RoundIsSound
QueueInv == NoJobLost /\ SettledWasTried /\ WorkIsOpen

\* TypeOK, side by side.
ClockTypes ==
  /\ minute \in Minutes /\ wake \in Nat
  /\ sched \in {"down", "initial", "round", "sleep"}
  /\ todo \subseteq CronJobs
  /\ executing \in CronJobs \cup {None}
  /\ left \subseteq Rows
  /\ started \in [CronJobs -> [Minutes -> Nat]]
  /\ disturbed \subseteq Nat

QueueTypes ==
  /\ exists \subseteq Rows
  /\ ready \in [Rows -> Nat] /\ held \in [Rows -> Nat]
  /\ worker \in {"idle", "working", "tried"}
  /\ current \in Rows \cup {None}
  /\ delivered \in BOOLEAN /\ connected \in BOOLEAN
  /\ published \in [Rows -> Nat] /\ tried \in [Rows -> Nat] /\ settled \in [Rows -> Nat]

LEMMA TypesSplit ==
  /\ TypeOK <=> ClockTypes /\ QueueTypes /\ failures \in Nat
  /\ TypeOK' <=> ClockTypes' /\ QueueTypes' /\ failures' \in Nat
BY DEF TypeOK, ClockTypes, QueueTypes

LEMMA MinutesAreNat == /\ 0 \in Minutes
                       /\ \A m \in Minutes : m \in Nat
                       /\ \A m \in Minutes : m < MaxMinute => m + 1 \in Minutes
BY PipelineAssumption DEF Minutes

LEMMA InitIInv == Init => IInv
<1> SUFFICES ASSUME Init PROVE IInv
  OBVIOUS
<1>1. ClockTypes
  BY MinutesAreNat DEF Init, ClockTypes
<1>2. QueueTypes
  BY DEF Init, QueueTypes, Zero
<1>3. TypeOK
  BY <1>1, <1>2, TypesSplit DEF Init
<1>4. ClockInv
  BY MinutesAreNat
  DEF Init, ClockInv, StartedOncePerMinute, MissedOnlyIfDisturbed, RoundIsSound
<1>5. QueueInv
  BY PipelineAssumption
  DEF Init, QueueInv, NoJobLost, SettledWasTried, WorkIsOpen, InWork, Zero
<1> QED
  BY <1>3, <1>4, <1>5 DEF IInv, ClockInv, QueueInv

LEMMA FailureKeepsType ==
  ASSUME failures \in Nat, Failure \/ UNCHANGED failures
  PROVE  failures' \in Nat
BY DEF Failure

LEMMA SchedulingKeepsTypes == TypeOK /\ Scheduling => TypeOK'
<1> SUFFICES ASSUME ClockTypes, QueueTypes, failures \in Nat, Scheduling
             PROVE  ClockTypes' /\ QueueTypes' /\ failures' \in Nat
  BY TypesSplit
<1>1. CASE StartScheduler \/ Sleep \/ Wake \/ WakeBlind \/ SchedulerDies
  <2>0. minute \in Nat /\ minute + 1 \in Nat
    BY MinutesAreNat DEF ClockTypes
  <2>1. ClockTypes'
    <3>1. CASE StartScheduler \/ Sleep \/ Wake
      BY <3>1, <2>0 DEF ClockTypes, StartScheduler, Sleep, Wake
    <3>2. CASE WakeBlind \/ SchedulerDies
      BY <3>2, <2>0 DEF ClockTypes, WakeBlind, SchedulerDies
    <3> QED
      BY <1>1, <3>1, <3>2
  <2>2. UNCHANGED queueVars /\ (Failure \/ UNCHANGED failures)
    BY <1>1 DEF StartScheduler, Sleep, Wake, WakeBlind, SchedulerDies
  <2> QED
    BY <2>1, <2>2, FailureKeepsType DEF queueVars, brokerVars, workerVars, QueueTypes
<1>2. CASE Finish \/ Raise
  <2>1. ClockTypes'
    BY <1>2 DEF ClockTypes, Finish, Raise, EndExecution
  <2>2. UNCHANGED queueVars /\ (Failure \/ UNCHANGED failures)
    BY <1>2 DEF Finish, Raise, EndExecution
  <2> QED
    BY <2>1, <2>2, FailureKeepsType DEF queueVars, brokerVars, workerVars, QueueTypes
<1>3. CASE Tick
  <2>1. ClockTypes'
    BY <1>3, MinutesAreNat DEF ClockTypes, Tick
  <2>2. UNCHANGED queueVars /\ UNCHANGED failures
    BY <1>3 DEF Tick
  <2> QED
    BY <2>1, <2>2 DEF queueVars, brokerVars, workerVars, QueueTypes
<1>4. ASSUME NEW j \in CronJobs, Execute(j) \/ Skip(j)
      PROVE  ClockTypes' /\ QueueTypes' /\ failures' \in Nat
  <2>1. left' \subseteq Rows
    BY <1>4, PipelineAssumption DEF Execute, Skip, ClockTypes
  <2>2. started' \in [CronJobs -> [Minutes -> Nat]]
    BY <1>4 DEF Execute, Skip, ClockTypes
  <2>3. ClockTypes'
    BY <1>4, <2>1, <2>2 DEF Execute, Skip, ClockTypes
  <2>4. UNCHANGED queueVars /\ UNCHANGED failures
    BY <1>4 DEF Execute, Skip
  <2> QED
    BY <2>3, <2>4 DEF queueVars, brokerVars, workerVars, QueueTypes
<1>5. ASSUME NEW r \in Rows, Publish(r)
      PROVE  ClockTypes' /\ QueueTypes' /\ failures' \in Nat
  <2>1. ClockTypes'
    BY <1>5 DEF Publish, ClockTypes
  <2>2. QueueTypes'
    BY <1>5 DEF Publish, QueueTypes, workerVars
  <2> QED
    BY <1>5, <2>1, <2>2 DEF Publish
<1> QED
  BY <1>1, <1>2, <1>3, <1>4, <1>5 DEF Scheduling

LEMMA HandOutKeepsTypes ==
  ASSUME QueueTypes, HandOutAgain
  PROVE  /\ ready' \in [Rows -> Nat] /\ held' \in [Rows -> Nat]
         /\ delivered' \in BOOLEAN /\ connected' \in BOOLEAN
<1>1. \A r \in Rows : ready[r] + held[r] + (IF delivered /\ current = r THEN 1 ELSE 0) \in Nat
  BY DEF QueueTypes
<1> QED
  BY <1>1 DEF HandOutAgain, Zero

LEMMA WorkingKeepsTypes == TypeOK /\ WorkIsOpen /\ Working => TypeOK'
<1> SUFFICES ASSUME ClockTypes, QueueTypes, failures \in Nat, WorkIsOpen, Working
             PROVE  ClockTypes' /\ QueueTypes' /\ failures' \in Nat
  BY TypesSplit
<1>1. UNCHANGED clockVars /\ (Failure \/ UNCHANGED failures)
  BY DEF Working, Try, Ack, LoseConnection, WorkerDies, Reconnect, Receive, DeleteRow
<1>2. ClockTypes' /\ failures' \in Nat
  BY <1>1, FailureKeepsType DEF clockVars, ClockTypes
<1>3. CASE Try
  BY <1>2, <1>3 DEF Try, WorkIsOpen, QueueTypes, brokerVars
<1>4. CASE Ack
  <2>1. current \in Rows
    BY <1>4 DEF Ack, WorkIsOpen
  <2>2. settled' \in [Rows -> Nat]
    <3>1. [settled EXCEPT ![current] = @ + 1] \in [Rows -> Nat]
      BY <2>1 DEF QueueTypes
    <3> QED
      BY <1>4, <3>1 DEF Ack, QueueTypes
  <2> QED
    BY <1>2, <1>4, <2>2 DEF Ack, QueueTypes
<1>5. CASE LoseConnection \/ WorkerDies
  BY <1>2, <1>5, HandOutKeepsTypes DEF LoseConnection, WorkerDies, QueueTypes, workerVars
<1>6. CASE Reconnect
  BY <1>2, <1>6 DEF Reconnect, QueueTypes, workerVars
<1>7. ASSUME NEW r \in Rows, Receive(r)
      PROVE  QueueTypes'
  <2>1. ready[r] - 1 \in Nat /\ held[r] + 1 \in Nat
    BY <1>7 DEF Receive, QueueTypes
  <2>2. ready' \in [Rows -> Nat] /\ held' \in [Rows -> Nat]
    BY <1>7, <2>1 DEF Receive, QueueTypes
  <2> QED
    BY <1>7, <2>2 DEF Receive, QueueTypes, workerVars
<1>8. ASSUME NEW r \in Rows, DeleteRow(r)
      PROVE  QueueTypes'
  BY <1>8 DEF DeleteRow, QueueTypes, workerVars, brokerVars
<1> QED
  BY <1>2, <1>3, <1>4, <1>5, <1>6, <1>7, <1>8 DEF Working

-----------------------------------------------------------------------------
(* The scheduler.                                                          *)

\* The worker's steps, and publications, leave the clock's half alone.
LEMMA ClockUnchanged ==
  ASSUME ClockInv,
         UNCHANGED <<minute, sched, wake, todo, executing, started, disturbed>>,
         left' = left \/ executing # None
  PROVE  ClockInv'
BY DEF ClockInv, StartedOncePerMinute, MissedOnlyIfDisturbed, RoundIsSound

\* One more start of cron job i in minute n.
LEMMA OneMore ==
  ASSUME NEW J, NEW M, NEW f \in [J -> [M -> Nat]], NEW i \in J, NEW n \in M,
         NEW g, g = [f EXCEPT ![i][n] = @ + 1]
  PROVE  /\ g[i][n] = f[i][n] + 1
         /\ \A k \in J, m \in M : k # i \/ m # n => g[k][m] = f[k][m]
OBVIOUS

LEMMA ExecuteKeepsClock ==
  ASSUME TypeOK, ClockInv, NEW j \in CronJobs, Execute(j)
  PROVE  ClockInv'
<1> USE DEF TypeOK, ClockInv, Minutes
<1>1. CASE sched = "initial"
  BY <1>1, PipelineAssumption
  DEF Execute, InRound, StartedOncePerMinute, MissedOnlyIfDisturbed, RoundIsSound
<1>2. CASE sched = "round"
  <2>1. started[j][minute] = 0 /\ minute \in Schedule[j]
    BY <1>2 DEF Execute, InRound, Due, RoundIsSound
  <2>2. /\ started'[j][minute] = 1
        /\ \A i \in CronJobs, m \in Minutes :
             i # j \/ m # minute => started'[i][m] = started[i][m]
    <3>1. started' = [started EXCEPT ![j][minute] = @ + 1]
      BY <1>2 DEF Execute
    <3>2. started \in [CronJobs -> [Minutes -> Nat]] /\ minute \in Minutes
      OBVIOUS
    <3> HIDE DEF Minutes, TypeOK, ClockInv
    <3>3. /\ started'[j][minute] = started[j][minute] + 1
          /\ \A i \in CronJobs, m \in Minutes :
               i # j \/ m # minute => started'[i][m] = started[i][m]
      BY <3>1, <3>2, OneMore
    <3> QED
      BY <2>1, <3>3
  <2> HIDE DEF TypeOK
  <2>3. StartedOncePerMinute'
    <3> SUFFICES ASSUME NEW i \in CronJobs, NEW m \in Minutes
                 PROVE  started'[i][m] <= 1
      BY DEF StartedOncePerMinute
    <3>1. started[i][m] <= 1
      BY DEF StartedOncePerMinute
    <3> QED
      BY <2>2, <3>1
  <2>4. MissedOnlyIfDisturbed'
    BY <2>2 DEF MissedOnlyIfDisturbed, Execute
  <2>5. RoundIsSound'
    <3>1. /\ sched' = "round" /\ minute' = minute /\ executing' = j /\ j # None
          /\ todo' = todo \ {j} /\ disturbed' = disturbed
      BY <1>2, PipelineAssumption DEF Execute
    <3>2. \A i \in CronJobs, m \in Minutes : m > minute => started'[i][m] = 0
      <4> SUFFICES ASSUME NEW i \in CronJobs, NEW m \in Minutes, m > minute
                   PROVE  started'[i][m] = 0
        OBVIOUS
      <4>1. started[i][m] = 0 /\ m # minute
        BY MinutesAreNat DEF RoundIsSound, TypeOK
      <4> QED
        BY <2>2, <4>1
    <3>3. \A i \in todo \ {j} : started'[i][minute] = 0
      BY <1>2, <2>2 DEF RoundIsSound, TypeOK
    <3>4. ASSUME minute \notin disturbed, NEW i \in CronJobs, i \notin todo \ {j},
                 minute \in Schedule[i]
          PROVE  started'[i][minute] > 0
      <4>1. CASE i = j
        BY <2>2, <4>1
      <4>2. CASE i # j
        <5>1. started[i][minute] > 0
          BY <1>2, <3>4, <4>2 DEF RoundIsSound
        <5> QED
          BY <2>2, <4>2, <5>1 DEF TypeOK
      <4> QED
        BY <4>1, <4>2
    <3> QED
      BY <3>1, <3>2, <3>3, <3>4 DEF RoundIsSound
  <2> QED
    BY <2>3, <2>4, <2>5
<1> QED
  BY <1>1, <1>2 DEF Execute, InRound

\* The clock goes on: the minute that ends is disturbed, or the scheduler sleeps
\* and has looked at every cron job in it.
LEMMA TickKeepsClock ==
  ASSUME TypeOK, ClockInv, Tick
  PROVE  ClockInv'
<1> USE DEF TypeOK, ClockInv, Minutes
<1>1. minute' = minute + 1 /\ started' = started /\ minute \in Nat
  BY PipelineAssumption DEF Tick
<1>2. StartedOncePerMinute'
  BY <1>1 DEF StartedOncePerMinute
<1>3. ASSUME NEW j \in CronJobs, minute \in Schedule[j], started[j][minute] = 0
      PROVE  minute \in disturbed'
  BY <1>3 DEF Tick, RoundIsSound
<1>4. MissedOnlyIfDisturbed'
  <2> SUFFICES ASSUME NEW j \in CronJobs, NEW m \in Minutes, m < minute + 1,
                      m \in Schedule[j], started[j][m] = 0
               PROVE  m \in disturbed'
    BY <1>1 DEF MissedOnlyIfDisturbed
  <2>1. CASE m = minute
    BY <2>1, <1>3
  <2>2. CASE m < minute
    BY <2>2 DEF MissedOnlyIfDisturbed, Tick
  <2> QED
    BY <2>1, <2>2, <1>1
<1>5. \A j \in CronJobs : started[j][minute + 1] = 0
  BY <1>1, PipelineAssumption DEF RoundIsSound, Tick
<1>6. RoundIsSound'
  <2>1. CASE sched = "sleep"
    BY <2>1, <1>1, <1>5, PipelineAssumption DEF RoundIsSound, Tick
  <2>2. CASE sched # "sleep"
    <3>1. minute' \in disturbed'
      BY <2>2 DEF Tick
    <3> QED
      BY <2>2, <3>1, <1>1, <1>5, PipelineAssumption DEF RoundIsSound, Tick
  <2> QED
    BY <2>1, <2>2
<1> QED
  BY <1>2, <1>4, <1>6

LEMMA SchedulingKeepsClock == TypeOK /\ ClockInv /\ Scheduling => ClockInv'
<1> SUFFICES ASSUME TypeOK, ClockInv, Scheduling PROVE ClockInv'
  OBVIOUS
<1>1. CASE StartScheduler \/ SchedulerDies \/ WakeBlind
  BY <1>1 DEF StartScheduler, SchedulerDies, WakeBlind, TypeOK, Minutes,
              ClockInv, StartedOncePerMinute, MissedOnlyIfDisturbed, RoundIsSound
<1>2. CASE Sleep \/ Wake
  BY <1>2 DEF Sleep, Wake, InRound, TypeOK, Minutes,
              ClockInv, StartedOncePerMinute, MissedOnlyIfDisturbed, RoundIsSound
<1>3. CASE Finish \/ Raise
  BY <1>3 DEF Finish, Raise, EndExecution, TypeOK,
              ClockInv, StartedOncePerMinute, MissedOnlyIfDisturbed, RoundIsSound
<1>4. CASE Tick
  BY <1>4, TickKeepsClock
<1>5. ASSUME NEW j \in CronJobs, Execute(j)
      PROVE  ClockInv'
  BY <1>5, ExecuteKeepsClock
<1>6. ASSUME NEW j \in CronJobs, Skip(j)
      PROVE  ClockInv'
  BY <1>6 DEF Skip, InRound, Due, TypeOK, Minutes,
              ClockInv, StartedOncePerMinute, MissedOnlyIfDisturbed, RoundIsSound
<1>7. ASSUME NEW r \in Rows, Publish(r)
      PROVE  ClockInv'
  <2>1. executing # None
    BY <1>7 DEF Publish, ClockInv, RoundIsSound
  <2> QED
    BY <1>7, <2>1, ClockUnchanged DEF Publish
<1> QED
  BY <1>1, <1>2, <1>3, <1>4, <1>5, <1>6, <1>7 DEF Scheduling

-----------------------------------------------------------------------------
(* Broker and worker.                                                      *)

LEMMA SchedulingKeepsQueue == TypeOK /\ QueueInv /\ Scheduling => QueueInv'
<1> SUFFICES ASSUME TypeOK, QueueInv, Scheduling PROVE QueueInv'
  OBVIOUS
<1>1. CASE UNCHANGED queueVars
  BY <1>1 DEF queueVars, brokerVars, workerVars, QueueInv, NoJobLost, SettledWasTried,
              WorkIsOpen, InWork
<1>2. ASSUME NEW r \in Rows, Publish(r)
      PROVE  QueueInv'
  <2>1. ASSUME NEW q \in Rows
        PROVE  /\ InWork(q)' = InWork(q) /\ InWork(q) \in Nat
               /\ \/ ready'[q] = ready[q] /\ published'[q] = published[q]
                  \/ ready'[q] = ready[q] + 1 /\ published'[q] = published[q] + 1
    BY <1>2 DEF Publish, workerVars, TypeOK, InWork
  <2>2. NoJobLost'
    BY <1>2, <2>1 DEF Publish, TypeOK, QueueInv, NoJobLost
  <2>3. SettledWasTried'
    BY <1>2 DEF Publish, workerVars, QueueInv, SettledWasTried
  <2>4. WorkIsOpen'
    BY <1>2, <2>1 DEF Publish, workerVars, TypeOK, QueueInv, WorkIsOpen
  <2> QED
    BY <2>2, <2>3, <2>4 DEF QueueInv
<1> QED
  BY <1>1, <1>2 DEF Scheduling, StartScheduler, Finish, Raise, EndExecution, Sleep, Wake,
                    WakeBlind, SchedulerDies, Tick, Execute, Skip

\* A job that is taken from the queue is open.
LEMMA ReceiveKeepsQueue ==
  ASSUME TypeOK, QueueInv, NEW r \in Rows, Receive(r)
  PROVE  QueueInv'
<1> USE DEF TypeOK, QueueInv, InWork
<1>1. ~delivered /\ ready[r] > 0 /\ published[r] = settled[r] + ready[r] + held[r]
  BY DEF Receive, NoJobLost, WorkIsOpen
<1>2. NoJobLost'
  <2>1. CASE r \in exists
    <3>1. delivered' /\ current' = r /\ held' = held
      BY <2>1 DEF Receive
    <3>2. ASSUME NEW q \in Rows
          PROVE  published'[q] = settled'[q] + ready'[q] + held'[q] + InWork(q)'
      BY <1>1, <3>1 DEF Receive, NoJobLost
    <3> QED
      BY <3>2 DEF NoJobLost
  <2>2. CASE r \notin exists
    <3>1. ~delivered' /\ held' = [held EXCEPT ![r] = @ + 1]
      BY <1>1, <2>2 DEF Receive
    <3>2. ASSUME NEW q \in Rows
          PROVE  published'[q] = settled'[q] + ready'[q] + held'[q] + InWork(q)'
      BY <1>1, <3>1 DEF Receive, NoJobLost
    <3> QED
      BY <3>2 DEF NoJobLost
  <2> QED
    BY <2>1, <2>2
<1>3. SettledWasTried' /\ WorkIsOpen'
  BY <1>1, PipelineAssumption DEF Receive, SettledWasTried, WorkIsOpen, workerVars
<1> QED
  BY <1>2, <1>3

LEMMA WorkingKeepsQueue == TypeOK /\ QueueInv /\ Working => QueueInv'
<1> SUFFICES ASSUME TypeOK, QueueInv, Working PROVE QueueInv'
  OBVIOUS
<1> USE PipelineAssumption DEF TypeOK, QueueInv, InWork, workerVars, brokerVars
<1>1. CASE Try
  BY <1>1 DEF Try, NoJobLost, SettledWasTried, WorkIsOpen
<1>2. CASE Ack
  BY <1>2 DEF Ack, NoJobLost, SettledWasTried, WorkIsOpen
<1>3. CASE LoseConnection
  BY <1>3 DEF LoseConnection, HandOutAgain, Zero, NoJobLost, SettledWasTried, WorkIsOpen
<1>4. CASE WorkerDies
  BY <1>4 DEF WorkerDies, HandOutAgain, Zero, NoJobLost, SettledWasTried, WorkIsOpen
<1>5. CASE Reconnect
  BY <1>5 DEF Reconnect, NoJobLost, SettledWasTried, WorkIsOpen
<1>6. ASSUME NEW r \in Rows, Receive(r)
      PROVE  QueueInv'
  BY <1>6, ReceiveKeepsQueue
<1>7. ASSUME NEW r \in Rows, DeleteRow(r)
      PROVE  QueueInv'
  BY <1>7 DEF DeleteRow, NoJobLost, SettledWasTried, WorkIsOpen
<1> QED
  BY <1>1, <1>2, <1>3, <1>4, <1>5, <1>6, <1>7 DEF Working

-----------------------------------------------------------------------------
LEMMA NextKeepsIInv == IInv /\ [Next]_vars => IInv'
<1> SUFFICES ASSUME TypeOK, ClockInv, QueueInv, [Next]_vars
             PROVE  TypeOK' /\ ClockInv' /\ QueueInv'
  BY DEF IInv, ClockInv, QueueInv
<1>1. CASE Scheduling
  BY <1>1, SchedulingKeepsTypes, SchedulingKeepsClock, SchedulingKeepsQueue
<1>2. CASE Working
  <2>1. UNCHANGED clockVars
    BY <1>2 DEF Working, Try, Ack, LoseConnection, WorkerDies, Reconnect, Receive, DeleteRow
  <2>2. ClockInv'
    BY <2>1, ClockUnchanged DEF clockVars
  <2> QED
    BY <1>2, <2>2, WorkingKeepsTypes, WorkingKeepsQueue DEF QueueInv
<1>3. CASE UNCHANGED vars
  BY <1>3 DEF vars, clockVars, brokerVars, workerVars, TypeOK, ClockInv, QueueInv,
              StartedOncePerMinute, MissedOnlyIfDisturbed, RoundIsSound,
              NoJobLost, SettledWasTried, WorkIsOpen, InWork
<1> QED
  BY <1>1, <1>2, <1>3 DEF Next

\* The invariant that the run on JobPipeline.cfg checks, for every instance.
THEOREM PipelineInvariant == Spec => []IInv
BY InitIInv, NextKeepsIInv, PTL DEF Spec

\* Scheduler.run_forever: a cron job is started at most once for a minute.
THEOREM OncePerMinute == Spec => []StartedOncePerMinute
<1>1. IInv => StartedOncePerMinute
  BY DEF IInv
<1> QED
  BY <1>1, PipelineInvariant, PTL

\* Scheduler.run_forever: a minute is missed only by a scheduler that was down, blind
\* or busy in it.
THEOREM MissedIsDisturbed == Spec => []MissedOnlyIfDisturbed
<1>1. IInv => MissedOnlyIfDisturbed
  BY DEF IInv
<1> QED
  BY <1>1, PipelineInvariant, PTL

\* JobWorker: no published job disappears or is multiplied.
THEOREM JobsAreConserved == Spec => []NoJobLost
<1>1. IInv => NoJobLost
  BY DEF IInv
<1> QED
  BY <1>1, PipelineInvariant, PTL

\* Every step of the pipeline is a step of AtLeastOnce or changes nothing there.
LEMMA StepImplements == IInv /\ [Next]_vars => [Promise!Next]_(Promise!vars)
<1> SUFFICES ASSUME IInv, [Next]_vars, ~ UNCHANGED Promise!vars
             PROVE  Promise!Next
  OBVIOUS
<1> USE DEF IInv, TypeOK, Promise!Next, Promise!vars
<1>1. ASSUME NEW r \in Rows, Publish(r)
      PROVE  Promise!Next
  BY <1>1 DEF Publish, Promise!Publish
<1>2. CASE Try
  <2>1. current \in Rows /\ settled[current] < published[current]
    BY <1>2 DEF Try, WorkIsOpen
  <2>2. Promise!Try(current)
    BY <1>2, <2>1 DEF Try, Promise!Try
  <2> QED
    BY <2>1, <2>2
<1>3. CASE Ack
  <2>1. /\ current \in Rows /\ settled[current] < published[current]
        /\ settled[current] < tried[current]
    BY <1>3 DEF Ack, WorkIsOpen, SettledWasTried
  <2>2. Promise!Settle(current)
    BY <1>3, <2>1 DEF Ack, Promise!Settle
  <2> QED
    BY <2>1, <2>2
<1>4. CASE UNCHANGED <<published, tried, settled>>
  BY <1>4
<1> QED
  BY <1>1, <1>2, <1>3, <1>4
  DEF Next, Scheduling, Working, vars, queueVars, StartScheduler, Finish, Raise,
      EndExecution, Sleep, Wake, WakeBlind, SchedulerDies, Tick, Execute, Skip,
      LoseConnection, WorkerDies, Reconnect, Receive, DeleteRow

\* Publisher, broker and worker implement AtLeastOnce, for any number of failures.
THEOREM PipelineImplements == Spec => ImplementsAtLeastOnce
<1>1. Init => Promise!Init
  BY DEF Init, Promise!Init, Zero
<1> QED
  BY <1>1, StepImplements, PipelineInvariant, PTL
  DEF Spec, ImplementsAtLeastOnce, Promise!Spec
=============================================================================
