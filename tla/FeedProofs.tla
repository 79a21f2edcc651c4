----------------------------- MODULE FeedProofs -----------------------------
(***************************************************************************)
(* The websocket client is never left with a websocket nobody watches, and *)
(* its lock is never left behind, for any number of websockets and faults. *)
(***************************************************************************)
EXTENDS MarketFeed, TLAPS

USE FeedAssumption

\* The labels of connect() at which the lock is held.
Inside == {"connecting", "poll", "look", "timeout"}

\* A step that moves one thread between labels on the same side of the lock.
LEMMA MoveKeepsLock ==
  ASSUME TypeOK, LockIsHeld, NEW t \in Threads, NEW label,
         pc' = [pc EXCEPT ![t] = label], lock' = lock,
         pc[t] \in Inside <=> label \in Inside
  PROVE  LockIsHeld'
BY DEF TypeOK, LockIsHeld, Inside

LEMMA InitIInv == Init => IInv
BY DEF Init, IInv, TypeOK, LockIsHeld, CurrentIsWatched, SentIsTraced, Troubled, Threads,
       Sockets, None

LEMMA ConnectingKeepsTypes ==
  ASSUME TypeOK, NEW t \in Threads, Connecting(t)
  PROVE  TypeOK'
<1> USE DEF TypeOK, Goto, Return, clientVars, Sockets, None
<1>1. CASE AlreadyConnected(t) BY <1>1 DEF AlreadyConnected
<1>2. CASE EnterConnect(t) BY <1>2 DEF EnterConnect
<1>3. CASE LeaveConnect(t) BY <1>3 DEF LeaveConnect
<1>4. CASE Dial(t) BY <1>4 DEF Dial
<1>5. CASE Poll(t) BY <1>5 DEF Poll
<1>6. CASE Look(t) BY <1>6 DEF Look
<1>7. CASE LookRaises(t) BY <1>7 DEF LookRaises
<1>8. CASE LookTimesOut(t) BY <1>8 DEF LookTimesOut, Fault
<1>9. CASE ForgetSocket(t) BY <1>9 DEF ForgetSocket
<1> QED
  BY <1>1, <1>2, <1>3, <1>4, <1>5, <1>6, <1>7, <1>8, <1>9 DEF Connecting

LEMMA ConnectingKeepsLock ==
  ASSUME TypeOK, LockIsHeld, NEW t \in Threads, Connecting(t)
  PROVE  LockIsHeld'
<1> USE DEF Goto, Return, Inside
<1>1. CASE AlreadyConnected(t) BY <1>1, MoveKeepsLock DEF AlreadyConnected
<1>2. CASE EnterConnect(t)
  BY <1>2 DEF EnterConnect, TypeOK, LockIsHeld, Threads, Sockets, None
<1>3. CASE LeaveConnect(t)
  BY <1>3 DEF LeaveConnect, TypeOK, LockIsHeld, Threads, Sockets, None
<1>4. CASE Dial(t) BY <1>4, MoveKeepsLock DEF Dial
<1>5. CASE Poll(t) BY <1>5, MoveKeepsLock DEF Poll
<1>6. CASE Look(t) BY <1>6, MoveKeepsLock DEF Look
<1>7. CASE LookRaises(t)
  BY <1>7 DEF LookRaises, TypeOK, LockIsHeld, Threads, Sockets, None
<1>8. CASE LookTimesOut(t) BY <1>8, MoveKeepsLock DEF LookTimesOut
<1>9. CASE ForgetSocket(t) BY <1>9, MoveKeepsLock DEF ForgetSocket
<1> QED
  BY <1>1, <1>2, <1>3, <1>4, <1>5, <1>6, <1>7, <1>8, <1>9 DEF Connecting

LEMMA CallbackKeepsTypes ==
  ASSUME TypeOK, NEW c \in Sockets, Opens(c) \/ Drops(c) \/ Callback(c)
  PROVE  TypeOK'
<1>0. c # Main
  BY DEF Sockets
<1> USE DEF TypeOK, Goto, clientVars, Threads
<1>1. CASE Opens(c) BY <1>0, <1>1 DEF Opens
<1>2. CASE Drops(c) BY <1>0, <1>2 DEF Drops, Fault
<1>3. CASE NoticeDrop(c) BY <1>0, <1>3 DEF NoticeDrop
<1>4. CASE ToldToReconnect(c) BY <1>0, <1>4 DEF ToldToReconnect, Fault
<1>5. CASE PassSocket(c) BY <1>0, <1>5 DEF PassSocket
<1>6. CASE CallbackEnds(c) BY <1>0, <1>6 DEF CallbackEnds
<1>7. CASE GiveUp(c) BY <1>0, <1>7 DEF GiveUp
<1>8. CASE \E m \in Markets : TickerArrives(c, m) BY <1>0, <1>8 DEF TickerArrives
<1>9. CASE CheckSocket(c) BY <1>0, <1>9 DEF CheckSocket
<1> QED
  BY <1>1, <1>2, <1>3, <1>4, <1>5, <1>6, <1>7, <1>8, <1>9 DEF Callback

LEMMA CallbackKeepsLock ==
  ASSUME TypeOK, LockIsHeld, NEW c \in Sockets, Opens(c) \/ Drops(c) \/ Callback(c)
  PROVE  LockIsHeld'
<1> USE DEF Goto, Threads, Inside
<1>1. CASE UNCHANGED <<pc, lock>> BY <1>1 DEF LockIsHeld
<1>2. CASE NoticeDrop(c) BY <1>2, MoveKeepsLock DEF NoticeDrop
<1>3. CASE ToldToReconnect(c) BY <1>3, MoveKeepsLock DEF ToldToReconnect
<1>4. CASE PassSocket(c) BY <1>4, MoveKeepsLock DEF PassSocket
<1>5. CASE CallbackEnds(c) BY <1>5, MoveKeepsLock DEF CallbackEnds
<1>6. CASE GiveUp(c) BY <1>6, MoveKeepsLock DEF GiveUp
<1>7. CASE CheckSocket(c) BY <1>7, MoveKeepsLock DEF CheckSocket
<1> QED
  BY <1>1, <1>2, <1>3, <1>4, <1>5, <1>6, <1>7 DEF Callback, Opens, Drops, TickerArrives

LEMMA StrategyKeepsTypesAndLock ==
  ASSUME TypeOK, LockIsHeld, (\E m \in Markets : GetTicker(m)) \/ Send \/ NoteSubscription
  PROVE  TypeOK' /\ LockIsHeld'
<1> USE DEF Goto, Threads, Inside
<1>1. TypeOK'
  <2>1. CASE \E m \in Markets : GetTicker(m) BY <2>1 DEF TypeOK, GetTicker
  <2>2. CASE Send BY <2>2 DEF TypeOK, Send, None
  <2>3. CASE NoteSubscription BY <2>3 DEF TypeOK, NoteSubscription
  <2> QED
    BY <2>1, <2>2, <2>3
<1>2. LockIsHeld'
  <2>1. CASE \E m \in Markets : GetTicker(m) BY <2>1, MoveKeepsLock DEF GetTicker
  <2>2. CASE Send BY <2>2, MoveKeepsLock DEF Send
  <2>3. CASE NoteSubscription BY <2>3, MoveKeepsLock DEF NoteSubscription
  <2> QED
    BY <2>1, <2>2, <2>3
<1> QED
  BY <1>1, <1>2

\* A thread that is not the current websocket's may end, and only an unused
\* websocket becomes the current one.
LEMMA StepKeepsWatch ==
  ASSUME IInv, Next
  PROVE  CurrentIsWatched' /\ \A c \in Sockets : status'[c] = "unused" => pc'[c] = "idle"
<1> USE DEF IInv, TypeOK, CurrentIsWatched, Goto, Threads
<1>1. ASSUME NEW t \in Threads, Connecting(t)
      PROVE  CurrentIsWatched' /\ \A c \in Sockets : status'[c] = "unused" => pc'[c] = "idle"
  <2> USE DEF Return, None, Sockets
  <2>1. CASE AlreadyConnected(t) BY <2>1 DEF AlreadyConnected
  <2>2. CASE EnterConnect(t) BY <2>2 DEF EnterConnect
  <2>3. CASE LeaveConnect(t) BY <2>3 DEF LeaveConnect
  <2>4. CASE Dial(t) BY <2>4 DEF Dial
  <2>5. CASE Poll(t) BY <2>5 DEF Poll
  <2>6. CASE Look(t) BY <2>6 DEF Look
  <2>7. CASE LookRaises(t) BY <2>7 DEF LookRaises
  <2>8. CASE LookTimesOut(t) BY <2>8 DEF LookTimesOut
  <2>9. CASE ForgetSocket(t) BY <2>9 DEF ForgetSocket
  <2> QED
    BY <1>1, <2>1, <2>2, <2>3, <2>4, <2>5, <2>6, <2>7, <2>8, <2>9 DEF Connecting
<1>2. ASSUME NEW d \in Sockets, Opens(d) \/ Drops(d) \/ Callback(d)
      PROVE  CurrentIsWatched' /\ \A c \in Sockets : status'[c] = "unused" => pc'[c] = "idle"
  <2>1. CASE Opens(d) BY <2>1 DEF Opens
  <2>2. CASE Drops(d) BY <2>2 DEF Drops
  <2>3. CASE NoticeDrop(d) BY <2>3 DEF NoticeDrop
  <2>4. CASE ToldToReconnect(d) BY <2>4 DEF ToldToReconnect
  <2>5. CASE PassSocket(d) BY <2>5 DEF PassSocket
  <2>6. CASE CallbackEnds(d) BY <2>6 DEF CallbackEnds
  <2>7. CASE GiveUp(d) BY <2>7 DEF GiveUp
  <2>8. CASE \E m \in Markets : TickerArrives(d, m) BY <2>8 DEF TickerArrives
  <2>9. CASE CheckSocket(d) BY <2>9 DEF CheckSocket
  <2> QED
    BY <1>2, <2>1, <2>2, <2>3, <2>4, <2>5, <2>6, <2>7, <2>8, <2>9 DEF Callback
<1>3. ASSUME (\E m \in Markets : GetTicker(m)) \/ Send \/ NoteSubscription
      PROVE  CurrentIsWatched' /\ \A c \in Sockets : status'[c] = "unused" => pc'[c] = "idle"
  <2>1. /\ ws' = ws /\ status' = status
        /\ \A c \in Sockets : pc'[c] = pc[c]
    BY <1>3 DEF GetTicker, Send, NoteSubscription, Sockets
  <2> QED
    BY <2>1 DEF None
<1> QED
  BY <1>1, <1>2, <1>3 DEF Next

\* What a step must keep for SentIsTraced when it makes no websocket and sends nothing:
\* the faults it counts are the only excuse for closing, giving up and trouble.
LEMMA QuietKeepsTrace ==
  ASSUME IInv, TypeOK',
         UNCHANGED heard,
         \A c \in Sockets : status'[c] = "unused" <=> status[c] = "unused",
         ws' = ws \/ (ws' = None /\ faults' > 0),
         faults' >= faults,
         \A t \in Threads : doomed'[t] \in {doomed[t], None} \/ status[doomed'[t]] # "unused",
         \A c \in Sockets : status'[c] = "closed" => status[c] = "closed" \/ faults' > 0,
         \A t \in Threads : pc'[t] \in Troubled => pc[t] \in Troubled \/ faults' > 0,
         subs' = subs \/ (pc[Main] = "note" /\ subs' = subs \cup {wanted}),
         pc'[Main] = "note" => pc[Main] = "note" /\ wanted' = wanted
  PROVE  SentIsTraced'
BY DEF IInv, TypeOK, SentIsTraced, None

LEMMA ConnectingKeepsTrace ==
  ASSUME IInv, TypeOK', NEW t \in Threads, Connecting(t)
  PROVE  SentIsTraced'
<1> USE DEF Goto, Return, clientVars, Troubled, Threads
<1>1. CASE Dial(t)
  <2> PICK c \in Sockets :
        /\ status[c] = "unused"
        /\ \A d \in Sockets : d < c => status[d] # "unused"
        /\ ws' = c
        /\ status' = [status EXCEPT ![c] = "dialling"]
    BY <1>1 DEF Dial
  <2>1. UNCHANGED <<heard, subs, wanted, faults>> /\ ws = None /\ pc' = [pc EXCEPT ![t] = "poll"]
    BY <1>1 DEF Dial
  <2>2. \A d \in Sockets : status'[d] # "unused" => d = c \/ status[d] # "unused"
    BY DEF IInv, TypeOK
  <2>3. \A d \in Sockets : status[d] # "unused" => d < c
    BY DEF IInv, SentIsTraced, Sockets
  <2>4. faults = 0 => \A d \in Sockets : status[d] = "unused"
    BY <2>1 DEF IInv, SentIsTraced, Sockets, None
  <2>5. ASSUME NEW d \in Sockets, status'[d] # "unused"
        PROVE  /\ \A e \in Sockets : e < d => status'[e] # "unused"
               /\ d <= ws'
               /\ faults' = 0 => d = ws' /\ status'[d] # "closed"
    BY <2>1, <2>2, <2>3, <2>4, <2>5 DEF IInv, TypeOK, SentIsTraced, Sockets
  <2>6. faults' = 0 => \A x \in Threads : pc'[x] \notin Troubled
    BY <2>1 DEF IInv, TypeOK, SentIsTraced
  <2>7. /\ \A x \in Threads : doomed'[x] # None => status'[doomed'[x]] # "unused"
        /\ \A d \in Sockets : heard'[d] # {} => status'[d] # "unused"
        /\ \A m \in subs' : \E d \in Sockets : m \in heard'[d]
        /\ pc'[Main] = "note" => \E d \in Sockets : wanted' \in heard'[d]
    BY <1>1, <2>1 DEF Dial, IInv, TypeOK, SentIsTraced
  <2> QED BY <2>5, <2>6, <2>7 DEF SentIsTraced
<1>2. CASE AlreadyConnected(t) \/ EnterConnect(t) \/ LeaveConnect(t) \/ Poll(t) \/ Look(t)
  BY <1>2, QuietKeepsTrace
  DEF IInv, TypeOK, AlreadyConnected, EnterConnect, LeaveConnect, Poll, Look
<1>3. CASE LookRaises(t)
  BY <1>3, QuietKeepsTrace DEF IInv, TypeOK, LookRaises
<1>4. CASE LookTimesOut(t)
  BY <1>4, QuietKeepsTrace DEF IInv, TypeOK, LookTimesOut, Fault
<1>5. CASE ForgetSocket(t)
  <2>1. faults > 0
    BY <1>5 DEF IInv, TypeOK, SentIsTraced, ForgetSocket
  <2> QED BY <1>5, <2>1, QuietKeepsTrace DEF IInv, TypeOK, ForgetSocket
<1> QED BY <1>1, <1>2, <1>3, <1>4, <1>5 DEF Connecting

LEMMA CallbackKeepsTrace ==
  ASSUME IInv, TypeOK', NEW c \in Sockets, Opens(c) \/ Drops(c) \/ Callback(c)
  PROVE  SentIsTraced'
<1> USE DEF Goto, clientVars, Troubled, Threads
<1>1. c # Main
  BY DEF Sockets
<1>2. CASE Opens(c)
  BY <1>2, QuietKeepsTrace DEF IInv, TypeOK, Opens
<1>3. CASE Drops(c)
  BY <1>3, QuietKeepsTrace DEF IInv, TypeOK, Drops, Fault
<1>4. CASE NoticeDrop(c)
  <2>1. faults > 0
    BY <1>4 DEF IInv, TypeOK, SentIsTraced, NoticeDrop
  <2> QED BY <1>1, <1>4, <2>1, QuietKeepsTrace DEF IInv, TypeOK, NoticeDrop
<1>5. CASE ToldToReconnect(c)
  BY <1>1, <1>5, QuietKeepsTrace DEF IInv, TypeOK, ToldToReconnect, Fault
<1>6. CASE PassSocket(c) \/ CheckSocket(c) \/ CallbackEnds(c)
  <2>1. ws # None => status[ws] # "unused"
    BY DEF IInv, CurrentIsWatched
  <2>2. faults > 0
    BY <1>6 DEF IInv, TypeOK, SentIsTraced, PassSocket, CheckSocket, CallbackEnds
  <2> QED
    BY <1>1, <1>6, <2>1, <2>2, QuietKeepsTrace
    DEF IInv, TypeOK, PassSocket, CheckSocket, CallbackEnds
<1>7. CASE GiveUp(c)
  <2>1. faults > 0
    BY <1>7 DEF IInv, TypeOK, SentIsTraced, GiveUp
  <2>2. doomed[c] \in Sockets => status[doomed[c]] # "unused"
    BY <1>7 DEF IInv, TypeOK, SentIsTraced, GiveUp, None, Sockets
  <2> QED BY <1>1, <1>7, <2>1, <2>2, QuietKeepsTrace DEF IInv, TypeOK, GiveUp
<1>8. CASE \E m \in Markets : TickerArrives(c, m)
  BY <1>8, QuietKeepsTrace DEF IInv, TypeOK, TickerArrives
<1> QED BY <1>2, <1>3, <1>4, <1>5, <1>6, <1>7, <1>8 DEF Callback

LEMMA StrategyKeepsTrace ==
  ASSUME IInv, TypeOK', (\E m \in Markets : GetTicker(m)) \/ Send \/ NoteSubscription
  PROVE  SentIsTraced'
<1> USE DEF Goto, Troubled, Threads
<1>1. CASE \E m \in Markets : GetTicker(m)
  BY <1>1, QuietKeepsTrace DEF IInv, TypeOK, GetTicker
<1>2. CASE NoteSubscription
  BY <1>2, QuietKeepsTrace DEF IInv, TypeOK, NoteSubscription
<1>3. CASE Send /\ ~(ws # None /\ status[ws] = "open")
  BY <1>3, QuietKeepsTrace DEF IInv, TypeOK, Send
<1>4. CASE Send /\ ws # None /\ status[ws] = "open"
  <2>1. /\ ws \in Sockets /\ heard' = [heard EXCEPT ![ws] = @ \cup {wanted}]
        /\ UNCHANGED <<ws, status, doomed, subs, wanted, faults>>
        /\ pc' = [pc EXCEPT ![Main] = "note"]
    BY <1>4 DEF IInv, TypeOK, Send
  <2>2. \A d \in Sockets : heard[d] \subseteq heard'[d]
    BY <2>1 DEF IInv, TypeOK
  <2>3. wanted' \in heard'[ws]
    BY <2>1 DEF IInv, TypeOK
  <2>4. /\ \A m \in subs : \E c \in Sockets : m \in heard'[c]
        /\ \A c \in Sockets : heard'[c] # {} => status[c] # "unused"
    BY <1>4, <2>1, <2>2 DEF IInv, TypeOK, SentIsTraced
  <2>5. faults = 0 => \A t \in Threads : pc'[t] \notin Troubled
    BY <2>1 DEF IInv, TypeOK, SentIsTraced
  <2> QED BY <2>1, <2>3, <2>4, <2>5 DEF IInv, SentIsTraced
<1> QED BY <1>1, <1>2, <1>3, <1>4

LEMMA NextKeepsIInv == IInv /\ [Next]_vars => IInv'
<1> SUFFICES ASSUME IInv, [Next]_vars
             PROVE  IInv'
  OBVIOUS
<1>1. CASE Next
  <2>1. TypeOK' /\ LockIsHeld'
    BY <1>1, ConnectingKeepsTypes, ConnectingKeepsLock, CallbackKeepsTypes,
       CallbackKeepsLock, StrategyKeepsTypesAndLock DEF Next, IInv
  <2>2. SentIsTraced'
    BY <1>1, <2>1, ConnectingKeepsTrace, CallbackKeepsTrace, StrategyKeepsTrace DEF Next
  <2> QED
    BY <1>1, <2>1, <2>2, StepKeepsWatch DEF IInv
<1>2. CASE UNCHANGED vars
  BY <1>2 DEF vars, IInv, TypeOK, LockIsHeld, CurrentIsWatched, SentIsTraced
<1> QED
  BY <1>1, <1>2

\* The invariant that the run on Feed.cfg checks, for every instance.
THEOREM FeedInvariant == Spec => []IInv
BY InitIInv, NextKeepsIInv, PTL DEF Spec

\* connect(): the lock is held by the thread inside, and by no other.
THEOREM LockDiscipline == Spec => []LockIsHeld
<1>1. IInv => LockIsHeld
  BY DEF IInv
<1> QED
  BY <1>1, FeedInvariant, PTL

\* get_ticker: the exchange was told of every market the client has noted, and if it does
\* not send it on the current websocket, that one was made after a fault.
THEOREM DeafAfterReconnect == Spec => []DeafOnlyAfterReconnect
<1>1. IInv => DeafOnlyAfterReconnect
  BY DEF IInv, TypeOK, SentIsTraced, DeafOnlyAfterReconnect, Sockets, None
<1> QED
  BY <1>1, FeedInvariant, PTL
=============================================================================
