----------------------------- MODULE JobPipeline -----------------------------
(***************************************************************************)
(* From the clock to a job that is done: the scheduler executes cron jobs  *)
(* at their minutes, some of which publish background jobs for rows of a   *)
(* table; the broker keeps these, and the worker does one at a time.       *)
(*                                                                         *)
(* Time is counted in minutes, the unit of a schedule.  The scheduler's    *)
(* own steps take no time to speak of, what a cron job does may take any.  *)
(* Cron jobs that are switched off have an empty schedule.  Jobs for the   *)
(* same row are not told apart, and the broker's queue is a bag; that it   *)
(* is in order is left to the fairness.                                    *)
(***************************************************************************)
EXTENDS Naturals, FiniteSets

CONSTANTS
  CronJobs,
  Schedule,      \* cron job -> minutes its cron expression matches
  Once,          \* those registered with execute_once_initialized
  Rows,          \* rows that jobs are published for
  Targets,       \* cron job -> rows it may publish a job for
  None,
  MaxMinute,     \* the clock stops here
  MaxPublished,  \* jobs per row
  MaxFailures    \* exceptions, lost connections and deaths altogether

Minutes == 0..MaxMinute

ASSUME PipelineAssumption ==
  /\ MaxMinute \in Nat /\ MaxPublished \in Nat /\ MaxFailures \in Nat
  /\ Schedule \in [CronJobs -> SUBSET Nat]
  /\ Once \subseteq CronJobs
  /\ Targets \in [CronJobs -> SUBSET Rows]
  /\ None \notin CronJobs /\ None \notin Rows

VARIABLES
  minute,     \* datetime.utcnow()
  sched,      \* where the scheduler is
  wake,       \* minute its sleep ends in
  todo,       \* cron jobs of the round it has not looked at
  executing,  \* the cron job it executes
  left,       \* rows this one has still to publish a job for
  started,    \* history: cron job -> minute -> times started by schedule
  disturbed,  \* history: minutes with a scheduler that was down, blind or busy
  exists,     \* rows that are in their table
  ready,      \* row -> jobs in the broker's queue
  held,       \* row -> jobs the worker has, left unacknowledged
  worker,     \* where the worker is
  current,    \* row of the job it is doing
  delivered,  \* that job is the worker's, as the broker sees it
  connected,
  published, tried, settled,  \* history: row -> jobs
  failures

clockVars == <<minute, sched, wake, todo, executing, left, started, disturbed>>
brokerVars == <<ready, held, delivered, connected>>
workerVars == <<worker, current>>
vars == <<clockVars, exists, brokerVars, workerVars, published, tried, settled, failures>>

queueVars == <<exists, brokerVars, workerVars, published, tried, settled>>

Zero == [r \in Rows |-> 0]

Init ==
  /\ minute = 0 /\ sched = "down" /\ wake = 0
  /\ todo = {} /\ executing = None /\ left = {}
  /\ started = [j \in CronJobs |-> [m \in Minutes |-> 0]]
  /\ disturbed = {0}
  /\ exists = Rows
  /\ ready = Zero /\ held = Zero
  /\ worker = "idle" /\ current = None /\ delivered = FALSE /\ connected = FALSE
  /\ published = Zero /\ tried = Zero /\ settled = Zero
  /\ failures = 0

Failure == failures < MaxFailures /\ failures' = failures + 1

-----------------------------------------------------------------------------
(* Scheduler.run_forever                                                   *)

\* The initial round looks at all cron jobs.
StartScheduler ==
  /\ sched = "down"
  /\ sched' = "initial"
  /\ todo' = CronJobs
  /\ UNCHANGED <<minute, wake, executing, left, started, disturbed, queueVars, failures>>

InRound == sched \in {"initial", "round"} /\ executing = None

\* should_execute looks at the clock anew for every cron job.
Due(j) == IF sched = "initial" THEN j \in Once ELSE minute \in Schedule[j]

Execute(j) ==
  /\ InRound /\ j \in todo /\ Due(j)
  /\ todo' = todo \ {j}
  /\ executing' = j
  /\ left' \in SUBSET Targets[j]
  /\ started' = IF sched = "round" THEN [started EXCEPT ![j][minute] = @ + 1] ELSE started
  /\ UNCHANGED <<minute, sched, wake, disturbed, queueVars, failures>>

Skip(j) ==
  /\ InRound /\ j \in todo /\ ~Due(j)
  /\ todo' = todo \ {j}
  /\ UNCHANGED <<minute, sched, wake, executing, left, started, disturbed, queueVars,
                 failures>>

\* A job is published at once, whatever becomes of the cron job's transaction.
Publish(r) ==
  /\ r \in left
  /\ published[r] < MaxPublished
  /\ left' = left \ {r}
  /\ ready' = [ready EXCEPT ![r] = @ + 1]
  /\ published' = [published EXCEPT ![r] = @ + 1]
  /\ UNCHANGED <<minute, sched, wake, todo, executing, started, disturbed, exists, held,
                 delivered, connected, workerVars, tried, settled, failures>>

EndExecution ==
  /\ executing # None
  /\ executing' = None
  /\ left' = {}
  /\ UNCHANGED <<minute, sched, wake, todo, started, disturbed, queueVars>>

\* The log is committed ...
Finish == left = {} /\ EndExecution /\ UNCHANGED failures

\* Mutant: the exception of a cron job ends the round.
RaiseEndsRound ==
  /\ Failure
  /\ executing # None
  /\ executing' = None /\ left' = {} /\ todo' = {}
  /\ UNCHANGED <<minute, sched, wake, started, disturbed, queueVars>>

\* ... also if the cron job raised: the rest is not published.
Raise == Failure /\ EndExecution

\* 61 seconds less the current one: a second of the next minute.
Sleep ==
  /\ InRound /\ todo = {}
  /\ sched' = "sleep"
  /\ wake' = minute + 1
  /\ UNCHANGED <<minute, todo, executing, left, started, disturbed, queueVars, failures>>

Wake ==
  /\ sched = "sleep" /\ minute >= wake
  /\ sched' = "round"
  /\ todo' = CronJobs
  /\ UNCHANGED <<minute, wake, executing, left, started, disturbed, queueVars, failures>>

\* get_cron_jobs catches the exception of its query: a round without cron jobs.
WakeBlind ==
  /\ sched = "sleep" /\ minute >= wake
  /\ Failure
  /\ sched' = "round"
  /\ disturbed' = disturbed \cup {minute}
  /\ UNCHANGED <<minute, wake, todo, executing, left, started, queueVars>>

\* The process is killed, or the commit of a log raises.
SchedulerDies ==
  /\ sched # "down"
  /\ Failure
  /\ sched' = "down"
  /\ todo' = {} /\ executing' = None /\ left' = {}
  /\ disturbed' = disturbed \cup {minute}
  /\ UNCHANGED <<minute, wake, started, queueVars>>

Tick ==
  /\ minute < MaxMinute
  /\ \/ sched = "down" \/ executing # None
     \/ sched = "sleep" /\ minute < wake
  /\ minute' = minute + 1
  /\ disturbed' = IF sched = "sleep" THEN disturbed
                                     ELSE disturbed \cup {minute, minute + 1}
  /\ UNCHANGED <<sched, wake, todo, executing, left, started, queueVars, failures>>

-----------------------------------------------------------------------------
(* Broker and worker (Subscriber, JobWorker.on_receive_job)                *)

\* Mutant: the message is acknowledged when it is received.
ReceiveAcked(r) ==
  /\ worker = "idle" /\ connected
  /\ ready[r] > 0
  /\ r \in exists
  /\ ready' = [ready EXCEPT ![r] = @ - 1]
  /\ worker' = "working" /\ current' = r
  /\ settled' = [settled EXCEPT ![r] = @ + 1]
  /\ UNCHANGED <<clockVars, exists, held, delivered, connected, published, tried, failures>>

\* A job whose row is gone is neither done nor acknowledged.
Receive(r) ==
  /\ worker = "idle" /\ connected
  /\ ready[r] > 0
  /\ ready' = [ready EXCEPT ![r] = @ - 1]
  /\ \/ /\ r \in exists
        /\ worker' = "working" /\ current' = r /\ delivered' = TRUE
        /\ UNCHANGED held
     \/ /\ r \notin exists
        /\ held' = [held EXCEPT ![r] = @ + 1]
        /\ UNCHANGED <<workerVars, delivered>>
  /\ UNCHANGED <<clockVars, exists, connected, published, tried, settled, failures>>

\* The method is called and its work committed, or rolled back if it raised.
Try ==
  /\ worker = "working"
  /\ worker' = "tried"
  /\ tried' = [tried EXCEPT ![current] = @ + 1]
  /\ UNCHANGED <<clockVars, exists, brokerVars, current, published, settled, failures>>

\* Mutant: an acknowledgement on a new connection is taken as good.
AckStale ==
  /\ worker = "tried"
  /\ settled' = [settled EXCEPT ![current] = @ + 1]
  /\ worker' = "idle" /\ current' = None /\ delivered' = FALSE
  /\ UNCHANGED <<clockVars, exists, ready, held, connected, published, tried, failures>>

\* message.ack(): raises if the connection it came by is gone.
Ack ==
  /\ worker = "tried"
  /\ settled' = IF delivered THEN [settled EXCEPT ![current] = @ + 1] ELSE settled
  /\ worker' = "idle" /\ current' = None /\ delivered' = FALSE
  /\ UNCHANGED <<clockVars, exists, ready, held, connected, published, tried, failures>>

\* Whatever was delivered and not acknowledged is handed out again.
HandOutAgain ==
  /\ ready' = [r \in Rows |->
                 ready[r] + held[r] + IF delivered /\ current = r THEN 1 ELSE 0]
  /\ held' = Zero
  /\ delivered' = FALSE /\ connected' = FALSE

\* The broker's connection is lost, or an exception that on_receive_job does not
\* catch (the load of the row failed) ends run() and closes it.
LoseConnection ==
  /\ connected
  /\ Failure
  /\ HandOutAgain
  /\ UNCHANGED <<clockVars, exists, workerVars, published, tried, settled>>

WorkerDies ==
  /\ Failure
  /\ HandOutAgain
  /\ worker' = "idle" /\ current' = None
  /\ UNCHANGED <<clockVars, exists, published, tried, settled>>

\* Mutant: an exception of run() ends run_forever.
ReconnectNever ==
  /\ ~connected /\ worker = "idle" /\ failures = 0
  /\ connected' = TRUE
  /\ UNCHANGED <<clockVars, exists, ready, held, delivered, workerVars, published, tried,
                 settled, failures>>

\* run_forever tries again after five seconds.
Reconnect ==
  /\ ~connected /\ worker = "idle"
  /\ connected' = TRUE
  /\ UNCHANGED <<clockVars, exists, ready, held, delivered, workerVars, published, tried,
                 settled, failures>>

\* A row is deleted, as an installation of data may do.
DeleteRow(r) ==
  /\ r \in exists
  /\ exists' = exists \ {r}
  /\ UNCHANGED <<clockVars, brokerVars, workerVars, published, tried, settled, failures>>

-----------------------------------------------------------------------------
Scheduling ==
  \/ StartScheduler \/ Finish \/ Raise \/ Sleep \/ Wake \/ WakeBlind
  \/ SchedulerDies \/ Tick
  \/ \E j \in CronJobs : Execute(j) \/ Skip(j)
  \/ \E r \in Rows : Publish(r)

Working ==
  \/ Try \/ Ack \/ LoseConnection \/ WorkerDies \/ Reconnect
  \/ \E r \in Rows : Receive(r) \/ DeleteRow(r)

Next == Scheduling \/ Working

Spec == Init /\ [][Next]_vars

\* The worker goes on and reconnects, and the queue is in order, so that no job in
\* it is passed over for ever.
FairSpec ==
  /\ Spec
  /\ WF_vars(Try) /\ WF_vars(Ack) /\ WF_vars(Reconnect)
  /\ \A r \in Rows : SF_vars(Receive(r))

-----------------------------------------------------------------------------
(* Properties.                                                             *)

\* The type invariant.
TypeOK ==
  /\ minute \in Minutes /\ wake \in Nat
  /\ sched \in {"down", "initial", "round", "sleep"}
  /\ todo \subseteq CronJobs
  /\ executing \in CronJobs \cup {None}
  /\ left \subseteq Rows
  /\ started \in [CronJobs -> [Minutes -> Nat]]
  /\ disturbed \subseteq Nat
  /\ exists \subseteq Rows
  /\ ready \in [Rows -> Nat] /\ held \in [Rows -> Nat]
  /\ worker \in {"idle", "working", "tried"}
  /\ current \in Rows \cup {None}
  /\ delivered \in BOOLEAN /\ connected \in BOOLEAN
  /\ published \in [Rows -> Nat] /\ tried \in [Rows -> Nat] /\ settled \in [Rows -> Nat]
  /\ failures \in Nat

\* The comment on the 61 seconds ("to prevent overlapping"): no cron job is started
\* twice for one minute, however long rounds take and whenever the scheduler is
\* started again.
StartedOncePerMinute ==
  \A j \in CronJobs, m \in Minutes : started[j][m] <= 1

\* A cron job misses one of its minutes only if the scheduler was down or blind in
\* it, or was executing a cron job at its beginning or end.
MissedOnlyIfDisturbed ==
  \A j \in CronJobs, m \in Minutes :
    m < minute /\ m \in Schedule[j] /\ started[j][m] = 0 => m \in disturbed

\* The rounds behind them: what a round has looked at in this minute, and what it
\* has not; a sleeping scheduler is never overslept.
RoundIsSound ==
  /\ \A j \in CronJobs, m \in Minutes : m > minute => started[j][m] = 0
  /\ sched = "round" => \A j \in todo : started[j][minute] = 0
  /\ sched = "sleep" =>
       \/ wake = minute + 1
       \/ wake = minute /\ \A j \in CronJobs : started[j][minute] = 0
  /\ sched \in {"down", "initial"} => minute \in disturbed
  /\ sched = "round" /\ minute \notin disturbed =>
       \A j \in CronJobs \ todo : minute \in Schedule[j] => started[j][minute] > 0
  /\ sched = "sleep" /\ wake = minute + 1 /\ minute \notin disturbed =>
       \A j \in CronJobs : minute \in Schedule[j] => started[j][minute] > 0
  /\ sched \in {"down", "sleep"} => todo = {} /\ executing = None
  /\ executing = None => left = {}

\* What is under way at the broker for the worker.
InWork(r) == IF delivered /\ current = r THEN 1 ELSE 0

\* No job is lost, and none multiplied, by lost connections and dying workers: what
\* was published is settled, queued, held by the worker or under work.
NoJobLost ==
  \A r \in Rows : published[r] = settled[r] + ready[r] + held[r] + InWork(r)

\* A job is acknowledged only after it was tried.
SettledWasTried ==
  /\ \A r \in Rows : settled[r] <= tried[r]
  /\ worker = "tried" => settled[current] < tried[current]

\* While the worker is at work its job is open: its own, or back in the queue.
WorkIsOpen ==
  /\ worker # "idle" <=> current \in Rows
  /\ worker = "idle" => ~delivered
  /\ worker # "idle" => settled[current] < published[current]

\* The inductive invariant of scheduler and queue.
IInv ==
  /\ TypeOK
  /\ StartedOncePerMinute /\ MissedOnlyIfDisturbed /\ RoundIsSound
  /\ NoJobLost /\ SettledWasTried /\ WorkIsOpen

\* Job queue and worker keep the promise of AtLeastOnce.
Promise == INSTANCE AtLeastOnce
ImplementsAtLeastOnce == Promise!Spec

\* Every published job is settled in the end, unless its row is gone: failures and
\* jobs without a row do not keep the others from being done.
EveryJobIsSettled ==
  \A r \in Rows : [](published[r] > 0 => <>(settled[r] = published[r] \/ r \notin exists))
=============================================================================
