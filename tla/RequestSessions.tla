-------------------------- MODULE RequestSessions --------------------------
(***************************************************************************)
(* Database sessions of the web server.  A request gets its session from   *)
(* the dependency get_session, a synchronous generator, which FastAPI runs *)
(* in a thread of its pool; Database.get_session returns the session that  *)
(* the scoped_session registry keeps for that THREAD, and closes it first. *)
(* Two requests served by one pool thread therefore share a session, which *)
(* either may close while the other is at work on the event loop.          *)
(*                                                                         *)
(* From its session on, a handler (login, body, commit, response) runs on  *)
(* the event loop without suspension; only pool threads run beside it.     *)
(* The dependency closes the session once more after the response.         *)
(*                                                                         *)
(* Sessions take connections from an engine pool of fixed size, and        *)
(* whoever waits for one waits ON the event loop.                          *)
(***************************************************************************)
EXTENDS Naturals, FiniteSets

CONSTANTS
  Requests,
  Threads,    \* of the pool; also names the session each thread is given
  PoolSize,   \* connections: pool_size and overflow together
  NoRequest, NoThread

ASSUME SessionsAssumption ==
  /\ NoRequest \notin Requests /\ NoThread \notin Threads
  /\ PoolSize \in Nat \ {0}

VARIABLES
  phase,    \* request -> how far it is
  session,  \* request -> the session it was given
  loop,     \* the request whose handler occupies the event loop
  pending,  \* session -> requests with rows in it that are not committed
  conns,    \* sessions that hold a connection
  stored,   \* requests whose rows are committed
  result    \* request -> its answer

sessionVars == <<phase, session, loop, pending, conns, stored, result>>

Phases == {"new", "entering", "entered", "waiting", "handling", "added",
           "answered", "leaving", "done"}

SessionsInit ==
  /\ phase = [r \in Requests |-> "new"]
  /\ session = [r \in Requests |-> NoThread]
  /\ loop = NoRequest
  /\ pending = [s \in Threads |-> {}]
  /\ conns = {}
  /\ stored = {}
  /\ result = [r \in Requests |-> "none"]

LoopFree == loop = NoRequest

\* Mutant: the connection goes back, the session keeps its rows.
CloseConnection(s) == conns' = conns \ {s} /\ UNCHANGED pending

\* session.close(): drops what is not committed and gives the connection back.
CloseSession(s) ==
  /\ pending' = [pending EXCEPT ![s] = {}]
  /\ conns' = conns \ {s}

\* A session that has none takes a connection when it first needs one.
CanConnect(s) == s \in conns \/ Cardinality(conns) < PoolSize

\* The event loop hands the dependency to the thread pool.
Arrive(r) ==
  /\ LoopFree
  /\ phase[r] = "new"
  /\ phase' = [phase EXCEPT ![r] = "entering"]
  /\ UNCHANGED <<session, loop, pending, conns, stored, result>>

\* Some pool thread runs get_session: the thread's session, closed.
Enter(r, t) ==
  /\ phase[r] = "entering"
  /\ phase' = [phase EXCEPT ![r] = "entered"]
  /\ session' = [session EXCEPT ![r] = t]
  /\ CloseSession(t)
  /\ UNCHANGED <<loop, stored, result>>

\* The event loop resumes the request: its first query wants a connection.
Resume(r) ==
  /\ LoopFree
  /\ phase[r] = "entered"
  /\ loop' = r
  /\ phase' = [phase EXCEPT ![r] = "waiting"]
  /\ UNCHANGED <<session, pending, conns, stored, result>>

Load(r) ==
  /\ phase[r] = "waiting"
  /\ CanConnect(session[r])
  /\ conns' = conns \cup {session[r]}
  /\ phase' = [phase EXCEPT ![r] = "handling"]
  /\ UNCHANGED <<session, loop, pending, stored, result>>

AddRows(r) ==
  /\ phase[r] = "handling"
  /\ pending' = [pending EXCEPT ![session[r]] = @ \cup {r}]
  /\ phase' = [phase EXCEPT ![r] = "added"]
  /\ UNCHANGED <<session, loop, conns, stored, result>>

Answer(r, answer) ==
  /\ phase' = [phase EXCEPT ![r] = "answered"]
  /\ result' = [result EXCEPT ![r] = answer]
  /\ loop' = NoRequest
  /\ UNCHANGED session

\* Mutant: the session is closed before it is committed.
CommitClosed(r) ==
  /\ phase[r] = "added"
  /\ CloseSession(session[r])
  /\ Answer(r, "ok")
  /\ UNCHANGED stored

\* session.commit().  Writing the response may load rows again, and so take the
\* connection anew.
Commit(r) ==
  LET s == session[r]
  IN  /\ phase[r] = "added"
      /\ pending[s] = {} \/ CanConnect(s)
      /\ stored' = stored \cup pending[s]
      /\ pending' = [pending EXCEPT ![s] = {}]
      /\ \/ conns' = conns \ {s}
         \/ CanConnect(s) /\ conns' = conns \cup {s}
      /\ Answer(r, "ok")

\* The handler raises, with or without rows added: session.rollback().
Fail(r) ==
  /\ phase[r] \in {"handling", "added"}
  /\ CloseSession(session[r])
  /\ Answer(r, "error")
  /\ UNCHANGED stored

\* Mutant: the pool waits for a connection without limit.
WaitForever(r) == FALSE /\ UNCHANGED sessionVars

\* QueuePool gives up after its timeout; the exception takes Fail's road.
PoolTimeout(r) ==
  /\ \/ phase[r] = "waiting"
     \/ phase[r] = "added" /\ pending[session[r]] # {}
  /\ ~CanConnect(session[r])
  /\ CloseSession(session[r])
  /\ Answer(r, "error")
  /\ UNCHANGED stored

\* The response is sent; the event loop hands the rest of the dependency to the
\* thread pool.
Leave(r) ==
  /\ LoopFree
  /\ phase[r] = "answered"
  /\ phase' = [phase EXCEPT ![r] = "leaving"]
  /\ UNCHANGED <<session, loop, pending, conns, stored, result>>

Close(r) ==
  /\ phase[r] = "leaving"
  /\ phase' = [phase EXCEPT ![r] = "done"]
  /\ CloseSession(session[r])
  /\ UNCHANGED <<session, loop, stored, result>>

OnLoop(r) ==
  \/ Arrive(r) \/ Resume(r) \/ Leave(r)
  \/ Load(r) \/ AddRows(r) \/ Commit(r) \/ Fail(r) \/ PoolTimeout(r)

InPool(r) == Close(r) \/ \E t \in Threads : Enter(r, t)

SessionsNext == \E r \in Requests : OnLoop(r) \/ InPool(r)

SessionsSpec == SessionsInit /\ [][SessionsNext]_sessionVars

\* The event loop takes ready callbacks in turn, so it comes back to every
\* request; so do the pool's threads, which take requests from a queue.
SessionsFairSpec ==
  /\ SessionsSpec
  /\ \A r \in Requests : SF_sessionVars(OnLoop(r)) /\ WF_sessionVars(InPool(r))

-----------------------------------------------------------------------------
(* Properties.                                                             *)

\* The type invariant.
SessionsTypeOK ==
  /\ phase \in [Requests -> Phases]
  /\ session \in [Requests -> Threads \cup {NoThread}]
  /\ loop \in Requests \cup {NoRequest}
  /\ pending \in [Threads -> SUBSET Requests]
  /\ conns \subseteq Threads
  /\ stored \subseteq Requests
  /\ result \in [Requests -> {"none", "ok", "error"}]

\* A request that was answered with an error leaves nothing in the database,
\* whichever requests work on the same session afterwards.
FailedIsNotStored == \A r \in Requests : result[r] = "error" => r \notin stored

\* A request that was answered with success and whose rows are missing shared
\* its session with another one: nothing else loses rows.
LostOnlyBySharing ==
  \A r \in Requests :
    result[r] = "ok" /\ r \notin stored =>
      \E q \in Requests \ {r} : session[q] = session[r]

\* What makes them inductive: only the handler on the event loop has rows pending,
\* in its own session, and nothing is stored or answered before its commit.
SessionsInv ==
  /\ SessionsTypeOK
  /\ \A r \in Requests :
       /\ phase[r] \in {"waiting", "handling", "added"} <=> loop = r
       /\ phase[r] \notin {"new", "entering"} <=> session[r] \in Threads
       /\ phase[r] \notin {"answered", "leaving", "done"} =>
            r \notin stored /\ result[r] = "none"
       /\ phase[r] = "added" /\ r \notin pending[session[r]] =>
            \E q \in Requests \ {r} : session[q] = session[r]
  /\ \A s \in Threads : \A r \in pending[s] : phase[r] = "added" /\ session[r] = s
  /\ FailedIsNotStored /\ LostOnlyBySharing

\* Every request is answered, although the one that waits for a connection keeps
\* the event loop from those that could give theirs back.
EveryRequestIsAnswered == \A r \in Requests : <>(phase[r] = "done")
=============================================================================
