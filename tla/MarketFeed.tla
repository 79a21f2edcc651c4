----------------------------- MODULE MarketFeed -----------------------------
(***************************************************************************)
(* The feed of tickers: WebsocketManager, which keeps one websocket to the *)
(* exchange open, and the part of FtxWebsocketClient the bot uses.  One    *)
(* strategy thread asks for tickers; every websocket has a daemon thread   *)
(* for its callbacks, and any of these may find itself in connect().       *)
(* self.ws is read and written without the lock, so the steps below are    *)
(* cut at every access to it that another thread can come between.         *)
(***************************************************************************)
EXTENDS Naturals, FiniteSets

CONSTANTS
  Markets,
  Main,      \* the thread of the strategy
  NoMarket,
  MaxConns,  \* websockets that are ever made
  MaxFaults  \* connections lost, timed out, or told to reconnect

ASSUME FeedAssumption ==
  /\ MaxConns \in Nat /\ MaxFaults \in Nat
  /\ Main \notin 0..MaxConns /\ NoMarket \notin Markets

Sockets == 1..MaxConns
Threads == {Main} \cup Sockets
None == 0

VARIABLES
  ws,         \* self.ws
  lock,       \* who holds connect_lock (None: nobody)
  pc,         \* thread -> where it is
  doomed,     \* thread -> websocket it is about to give up
  status,     \* websocket -> its connection
  wanted,     \* market get_ticker is subscribing to
  subs,       \* self._subscriptions
  heard,      \* websocket -> markets the exchange sends on it (external)
  tickers,    \* markets whose ticker has arrived
  faults

vars == <<ws, lock, pc, doomed, status, wanted, subs, heard, tickers, faults>>

clientVars == <<wanted, subs, heard, tickers>>

Init ==
  /\ ws = None /\ lock = None
  /\ pc = [t \in Threads |-> "idle"]
  /\ doomed = [t \in Threads |-> None]
  /\ status = [c \in Sockets |-> "unused"]
  /\ wanted = NoMarket
  /\ subs = {}
  /\ heard = [c \in Sockets |-> {}]
  /\ tickers = {}
  /\ faults = 0

Goto(t, label) == pc' = [pc EXCEPT ![t] = label]

\* Where connect() returns to.
Return(t) == IF t = Main THEN "send" ELSE "idle"

Fault == faults < MaxFaults /\ faults' = faults + 1

-----------------------------------------------------------------------------
(* connect() and _connect(), by any thread.                                *)

AlreadyConnected(t) ==
  /\ pc[t] = "connect"
  /\ ws # None
  /\ Goto(t, Return(t))
  /\ UNCHANGED <<ws, lock, doomed, status, clientVars, faults>>

EnterConnect(t) ==
  /\ pc[t] = "connect"
  /\ ws = None /\ lock = None
  /\ lock' = t
  /\ Goto(t, "connecting")
  /\ UNCHANGED <<ws, doomed, status, clientVars, faults>>

LeaveConnect(t) ==
  /\ pc[t] = "connecting"
  /\ ws # None
  /\ lock' = None
  /\ Goto(t, Return(t))
  /\ UNCHANGED <<ws, doomed, status, clientVars, faults>>

\* A new websocket, and its thread.
Dial(t) ==
  /\ pc[t] = "connecting"
  /\ ws = None
  /\ \E c \in Sockets :
       /\ status[c] = "unused"
       /\ \A d \in Sockets : d < c => status[d] # "unused"
       /\ ws' = c
       /\ status' = [status EXCEPT ![c] = "dialling"]
  /\ Goto(t, "poll")
  /\ UNCHANGED <<lock, doomed, clientVars, faults>>

\* Mutant: the poll does not look whether the websocket was given up.
PollWaits(t) ==
  /\ pc[t] = "poll"
  /\ ws # None
  /\ Goto(t, "look")
  /\ UNCHANGED <<ws, lock, doomed, status, clientVars, faults>>

\* The poll: self.ws is read once to see whether it was given up meanwhile ...
Poll(t) ==
  /\ pc[t] = "poll"
  /\ Goto(t, IF ws = None THEN "connecting" ELSE "look")
  /\ UNCHANGED <<ws, lock, doomed, status, clientVars, faults>>

\* ... and once more to look at its connection.
Look(t) ==
  /\ pc[t] = "look"
  /\ ws # None
  /\ Goto(t, IF status[ws] = "open" THEN "connecting" ELSE "poll")
  /\ UNCHANGED <<ws, lock, doomed, status, clientVars, faults>>

\* If it was given up in between, the attribute of None raises: connect() is left
\* and the lock with it.
LookRaises(t) ==
  /\ pc[t] = "look"
  /\ ws = None
  /\ lock' = None
  /\ Goto(t, "idle")
  /\ wanted' = IF t = Main THEN NoMarket ELSE wanted
  /\ UNCHANGED <<ws, doomed, status, subs, heard, tickers, faults>>

\* It is not connected, and _CONNECT_TIMEOUT_S is over.
LookTimesOut(t) ==
  /\ pc[t] = "look"
  /\ ws # None
  /\ status[ws] # "open"
  /\ Fault
  /\ Goto(t, "timeout")
  /\ UNCHANGED <<ws, lock, doomed, status, clientVars>>

ForgetSocket(t) ==
  /\ pc[t] = "timeout"
  /\ ws' = None
  /\ Goto(t, "connecting")
  /\ UNCHANGED <<lock, doomed, status, clientVars, faults>>

Connecting(t) ==
  \/ AlreadyConnected(t) \/ EnterConnect(t) \/ LeaveConnect(t)
  \/ Dial(t) \/ Poll(t) \/ Look(t) \/ LookRaises(t)
  \/ LookTimesOut(t) \/ ForgetSocket(t)

-----------------------------------------------------------------------------
(* The thread of websocket c.                                              *)

Opens(c) ==
  /\ status[c] = "dialling"
  /\ status' = [status EXCEPT ![c] = "open"]
  /\ UNCHANGED <<ws, lock, pc, doomed, clientVars, faults>>

Drops(c) ==
  /\ status[c] \in {"dialling", "open"}
  /\ Fault
  /\ status' = [status EXCEPT ![c] = "closed"]
  /\ UNCHANGED <<ws, lock, pc, doomed, clientVars>>

\* Mutant: the end of run_forever is not followed by a reconnection.
NoticeNothing(c) ==
  /\ pc[c] = "idle"
  /\ status[c] = "closed"
  /\ Goto(c, "end")
  /\ UNCHANGED <<ws, lock, doomed, status, clientVars, faults>>

\* on_error, on_close, or the end of run_forever: _reconnect(ws), which does
\* nothing for a websocket that is not the current one any more.
NoticeDrop(c) ==
  /\ pc[c] = "idle"
  /\ status[c] = "closed"
  /\ IF ws = c THEN Goto(c, "giveup") /\ doomed' = [doomed EXCEPT ![c] = c]
               ELSE Goto(c, "end") /\ UNCHANGED doomed
  /\ UNCHANGED <<ws, lock, status, clientVars, faults>>

\* The exchange asks for a reconnection (info 20001): reconnect() looks at
\* self.ws, ...
ToldToReconnect(c) ==
  /\ pc[c] = "idle"
  /\ status[c] = "open" /\ ws = c
  /\ Fault
  /\ Goto(c, "told")
  /\ UNCHANGED <<ws, lock, doomed, status, clientVars>>

\* ... and passes what it reads the second time; None fails the assertion of
\* _reconnect, which ends the callback.
PassSocket(c) ==
  /\ pc[c] = "told"
  /\ IF ws = None THEN Goto(c, "assertion")
                  ELSE Goto(c, "passed")
  /\ doomed' = [doomed EXCEPT ![c] = ws]
  /\ UNCHANGED <<ws, lock, status, clientVars, faults>>

\* _reconnect reads self.ws a third time, to see that it is the one it was given.
CheckSocket(c) ==
  /\ pc[c] = "passed"
  /\ Goto(c, IF doomed[c] = ws THEN "giveup" ELSE "idle")
  /\ UNCHANGED <<ws, lock, doomed, status, clientVars, faults>>

CallbackEnds(c) ==
  /\ pc[c] = "assertion"
  /\ Goto(c, "idle")
  /\ UNCHANGED <<ws, lock, doomed, status, clientVars, faults>>

\* Mutant: the callback thread leaves reconnecting to the next send().
GiveUpOnly(c) ==
  /\ pc[c] = "giveup"
  /\ ws' = None
  /\ status' = [status EXCEPT ![doomed[c]] = "closed"]
  /\ Goto(c, "idle")
  /\ UNCHANGED <<lock, doomed, clientVars, faults>>

\* self.ws = None; ws.close(); then connect().  By now self.ws may be another.
GiveUp(c) ==
  /\ pc[c] = "giveup"
  /\ ws' = None
  /\ status' = [status EXCEPT ![doomed[c]] = "closed"]
  /\ Goto(c, "connect")
  /\ UNCHANGED <<lock, doomed, clientVars, faults>>

\* Messages of websockets other than the current one are ignored.
TickerArrives(c, m) ==
  /\ pc[c] = "idle" /\ ws = c /\ status[c] = "open"
  /\ m \in heard[c]
  /\ tickers' = tickers \cup {m}
  /\ UNCHANGED <<ws, lock, pc, doomed, status, wanted, subs, heard, faults>>

-----------------------------------------------------------------------------
(* The strategy's get_ticker.                                              *)

\* Mutant: the subscription is noted before it is sent.
GetTickerNotesFirst(m) ==
  /\ pc[Main] = "idle"
  /\ m \notin subs
  /\ wanted' = m
  /\ subs' = subs \cup {m}
  /\ Goto(Main, "connect")
  /\ UNCHANGED <<ws, lock, doomed, status, heard, tickers, faults>>

\* Returns at once what it has for a market it has subscribed to.
GetTicker(m) ==
  /\ pc[Main] = "idle"
  /\ m \notin subs
  /\ wanted' = m
  /\ Goto(Main, "connect")
  /\ UNCHANGED <<ws, lock, doomed, status, subs, heard, tickers, faults>>

\* ws.send: on no websocket, or on one that is not open, it raises.
Send ==
  /\ pc[Main] = "send"
  /\ IF ws # None /\ status[ws] = "open"
     THEN /\ heard' = [heard EXCEPT ![ws] = @ \cup {wanted}]
          /\ Goto(Main, "note")
          /\ UNCHANGED wanted
     ELSE /\ wanted' = NoMarket
          /\ Goto(Main, "idle")
          /\ UNCHANGED heard
  /\ UNCHANGED <<ws, lock, doomed, status, subs, tickers, faults>>

NoteSubscription ==
  /\ pc[Main] = "note"
  /\ subs' = subs \cup {wanted}
  /\ wanted' = NoMarket
  /\ Goto(Main, "idle")
  /\ UNCHANGED <<ws, lock, doomed, status, heard, tickers, faults>>

-----------------------------------------------------------------------------
Callback(c) ==
  \/ NoticeDrop(c) \/ ToldToReconnect(c) \/ PassSocket(c) \/ CheckSocket(c)
  \/ CallbackEnds(c) \/ GiveUp(c)
  \/ \E m \in Markets : TickerArrives(c, m)

Next ==
  \/ \E t \in Threads : Connecting(t)
  \/ \E c \in Sockets : Opens(c) \/ Drops(c) \/ Callback(c)
  \/ \E m \in Markets : GetTicker(m)
  \/ Send \/ NoteSubscription

Spec == Init /\ [][Next]_vars

\* Threads run, and a dialled connection opens; faults need not happen.
FairSpec ==
  /\ Spec
  /\ \A t \in Threads : WF_vars(Connecting(t))
  /\ \A c \in Sockets : WF_vars(Opens(c)) /\ WF_vars(Callback(c))
  /\ WF_vars(\E m \in Markets : GetTicker(m))
  /\ WF_vars(Send) /\ WF_vars(NoteSubscription)

-----------------------------------------------------------------------------
(* Properties.                                                             *)

\* The type invariant.
TypeOK ==
  /\ ws \in Sockets \cup {None}
  /\ lock \in Threads \cup {None}
  /\ pc \in [Threads -> {"idle", "connect", "connecting", "poll", "look", "timeout",
                         "send", "note",
                         "told", "passed", "assertion", "giveup", "end"}]
  /\ doomed \in [Threads -> Sockets \cup {None}]
  /\ status \in [Sockets -> {"unused", "dialling", "open", "closed"}]
  /\ wanted \in Markets \cup {NoMarket}
  /\ pc[Main] # "idle" => wanted \in Markets
  /\ subs \subseteq Markets
  /\ heard \in [Sockets -> SUBSET Markets]
  /\ tickers \subseteq Markets
  /\ faults \in 0..MaxFaults

\* The lock is held exactly by the thread that is connecting, whichever way
\* connect() is left.
LockIsHeld ==
  \A t \in Threads :
    pc[t] \in {"connecting", "poll", "look", "timeout"} <=> lock = t

\* Whenever there is a current websocket, its thread is there to notice its end:
\* the client cannot be left with a dead websocket that it takes for a live one.
CurrentIsWatched == ws # None => status[ws] # "unused" /\ pc[ws] # "end"

\* Where a thread is only because something went wrong.
Troubled == {"timeout", "told", "passed", "assertion", "giveup"}

\* Websockets are made one after the other, the current one last, and a second one only
\* after a fault; only websockets that were made carry anything, and what is noted,
\* or about to be, was sent on one of them.
SentIsTraced ==
  /\ \A c \in Sockets : status[c] # "unused" =>
       /\ \A d \in Sockets : d < c => status[d] # "unused"
       /\ ws # None => c <= ws
       /\ faults = 0 => c = ws /\ status[c] # "closed"
  /\ faults = 0 => \A t \in Threads : pc[t] \notin Troubled
  /\ \A t \in Threads : doomed[t] # None => status[doomed[t]] # "unused"
  /\ \A c \in Sockets : heard[c] # {} => status[c] # "unused"
  /\ \A m \in subs : \E c \in Sockets : m \in heard[c]
  /\ pc[Main] = "note" => \E c \in Sockets : wanted \in heard[c]

\* The inductive invariant; a websocket's thread starts with it.
IInv ==
  /\ TypeOK /\ LockIsHeld /\ CurrentIsWatched
  /\ \A c \in Sockets : status[c] = "unused" => pc[c] = "idle"
  /\ SentIsTraced

\* get_ticker is called "to subscribe to tickers" (ftx.py:124): the exchange was told
\* of every market on the list, and sends it on the current websocket, unless that is
\* a newer one, made after a fault: the list is never cleared, nothing is sent again.
DeafOnlyAfterReconnect ==
  \A m \in subs :
    /\ \E c \in Sockets : m \in heard[c]
    /\ ws # None /\ m \notin heard[ws] =>
         faults > 0 /\ \E c \in Sockets : c < ws /\ m \in heard[c]

\* connect() never keeps the strategy for ever: not when the connection it dials
\* is given up by the callback thread, which then waits for the same lock.
ConnectReturns == pc[Main] = "connect" ~> pc[Main] = "idle"

\* Connections may fail, but in the end the client has one that is open.
StaysConnected == <>[](ws # None /\ status[ws] = "open")
=============================================================================
