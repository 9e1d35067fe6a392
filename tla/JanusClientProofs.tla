-------------------------- MODULE JanusClientProofs --------------------------
(***************************************************************************)
(* The page after Stop, and the page that says it reconnects, for any      *)
(* number of sockets and of transactions under way.                        *)
(***************************************************************************)
EXTENDS JanusClient, TLAPS

SocketType ==
  /\ ws \in Sockets \cup {NoSocket}
  /\ sock \in [Sockets -> {"connecting", "open", "closing", "closed"}]

\* After Stop the client's socket is on its way out: nothing can be sent, and
\* no onopen speaks for it.
Stopped ==
  intentional =>
    /\ ~session /\ pending = {} /\ ~keepalive /\ ~reconnect
    /\ ws # NoSocket => sock[ws] \in {"closing", "closed"}

\* A page that says it is reconnecting has no socket, but a timer.
Waiting == state = "reconnecting" => reconnect /\ ws = NoSocket

ClientInv == SocketType /\ Stopped /\ Waiting

USE ClientAssumption DEF Sockets, NoSocket

\* Nothing is sent without an open socket.
LEMMA SendsNothing ==
  ASSUME SocketType, Stopped, intentional, NEW label, Sends(label)
  PROVE  pending' = pending
BY DEF SocketType, Stopped, Sends, Send, Open

LEMMA ClientInvInit == Init => ClientInv
BY DEF Init, ClientInv, SocketType, Stopped, Waiting

\* connect opens a socket, or goes on with the one that is open.
LEMMA ConnectStep ==
  ASSUME SocketType, Connect
  PROVE  /\ SocketType'
         /\ intentional => UNCHANGED <<state, ws, sock, pending>>
         /\ ~intentional /\ ws = NoSocket => state' = "connecting"
         /\ ~Open \/ UNCHANGED <<ws, sock>>
         /\ state' = "reconnecting" => state = "reconnecting" /\ ws' = ws
<1>1. CASE intentional
  BY <1>1 DEF Connect, SocketType, socketVars
<1>2. CASE ~intentional /\ Open
  BY <1>2
  DEF Connect, ConnectNow, SocketType, Open, ListStreams, AttachPlugin
<1>3. CASE ~intentional /\ ~Open
  BY <1>3 DEF Connect, ConnectNow, SocketType
<1> QED
  BY <1>1, <1>2, <1>3

\* What the user, the timer of the reconnection and the sockets do.
LEMMA SocketSteps ==
  ASSUME ClientInv,
         \/ ClickConnect \/ ReconnectFires \/ Disconnect
         \/ \E s \in Sockets : Opens(s) \/ Closes(s)
  PROVE  ClientInv'
<1> USE DEF ClientInv
<1>1. CASE ClickConnect
  <2>1. /\ Connect
        /\ UNCHANGED <<session, keepalive, reconnect, intentional>>
    BY <1>1 DEF ClickConnect
  <2>2. Stopped'
    BY <2>1, ConnectStep DEF Stopped
  <2>3. Waiting'
    BY <2>1, ConnectStep DEF Waiting
  <2> QED
    BY <2>1, <2>2, <2>3, ConnectStep
<1>2. CASE ReconnectFires
  <2>1. /\ reconnect /\ Connect
        /\ UNCHANGED <<session, keepalive, intentional>>
    BY <1>2 DEF ReconnectFires
  <2>2. ~intentional /\ ~intentional'
    BY <2>1 DEF Stopped
  <2>3. Waiting'
    BY <2>1, <2>2, ConnectStep DEF Waiting
  <2> QED
    BY <2>1, <2>2, <2>3, ConnectStep DEF Stopped
<1>3. CASE Disconnect
  BY <1>3 DEF Disconnect, Teardown, CloseSocket, SocketType, Stopped, Waiting
<1>4. ASSUME NEW s \in Sockets, Opens(s) PROVE ClientInv'
  <2>1. /\ sock[s] = "connecting" /\ sock' = [sock EXCEPT ![s] = "open"]
        /\ UNCHANGED <<state, ws, session, keepalive, reconnect, intentional>>
    BY <1>4 DEF Opens
  <2>2. ASSUME intentional PROVE s # ws
    BY <2>1, <2>2 DEF Stopped
  <2>3. intentional => pending' = pending
    BY <1>4, <2>2, SendsNothing DEF Opens
  <2>4. SocketType'
    BY <2>1 DEF SocketType
  <2>5. Stopped'
    BY <2>1, <2>2, <2>3 DEF Stopped, SocketType
  <2>6. Waiting'
    BY <2>1 DEF Waiting
  <2> QED
    BY <2>4, <2>5, <2>6
<1>5. ASSUME NEW s \in Sockets, Closes(s) PROVE ClientInv'
  BY <1>5 DEF Closes, Teardown, SocketType, Stopped, Waiting
<1> QED
  BY <1>1, <1>2, <1>3, <1>4, <1>5

\* Answers, errors and timeouts: there are none when nothing is pending.
LEMMA TransactionSteps ==
  ASSUME ClientInv,
         NEW t \in pending, Timeout(t) \/ Granted(t) \/ Useless(t) \/ Refused(t)
  PROVE  ClientInv'
<1> USE DEF ClientInv
<1>1. ~intentional /\ UNCHANGED <<ws, intentional, reconnect>>
  BY DEF Stopped, Timeout, Granted, Useless, Refused, socketVars
<1>2. state' = "reconnecting" => state = "reconnecting"
  <2>1. CASE Granted(t)
    BY <2>1 DEF Granted, Negotiate, mediaVars
  <2>2. CASE Timeout(t) \/ Useless(t) \/ Refused(t)
    BY <2>2 DEF Timeout, Useless, Refused
  <2> QED
    BY <2>1, <2>2
<1>3. SocketType'
  BY <1>1
  DEF SocketType, Timeout, CloseSocket, Granted, Useless, Refused, socketVars
<1> QED
  BY <1>1, <1>2, <1>3 DEF Stopped, Waiting

\* Events and the negotiation, which may send the answer of a connection that
\* is closed.
LEMMA EventSteps ==
  ASSUME ClientInv,
         \/ KeepaliveTick \/ FallsSilent
         \/ \E s \in Sockets : \/ RefusedLate(s) \/ Offered(s) \/ WebrtcUp(s)
                               \/ Hangup(s) \/ Detached(s)
         \/ LocalReady \/ Answers \/ AnswersStale
  PROVE  ClientInv'
<1> USE DEF ClientInv
<1>1. /\ UNCHANGED <<ws, sock, session, keepalive, reconnect, intentional>>
      /\ UNCHANGED pending \/ \E label : Sends(label)
      /\ state' = "reconnecting" => state = "reconnecting"
  <2>1. CASE KeepaliveTick \/ Answers \/ AnswersStale
    BY <2>1 DEF KeepaliveTick, Answers, AnswersStale
  <2>2. CASE FallsSilent \/ LocalReady
    BY <2>2 DEF FallsSilent, LocalReady, socketVars
  <2>3. CASE \E s \in Sockets : \/ RefusedLate(s) \/ Offered(s) \/ WebrtcUp(s)
                                \/ Hangup(s) \/ Detached(s)
    BY <2>3
    DEF RefusedLate, Offered, WebrtcUp, Hangup, Detached, Negotiate, socketVars
  <2> QED
    BY <2>1, <2>2, <2>3
<1>2. intentional => pending' = pending
  BY <1>1, SendsNothing
<1> QED
  BY <1>1, <1>2 DEF SocketType, Stopped, Waiting

LEMMA ClientInvStep == ClientInv /\ [Next]_vars => ClientInv'
<1> SUFFICES ASSUME ClientInv, [Next]_vars PROVE ClientInv'
  OBVIOUS
<1>1. CASE UNCHANGED vars
  BY <1>1 DEF vars, socketVars, ClientInv, SocketType, Stopped, Waiting
<1>2. CASE Timers \/ Gateway
  BY <1>2, SocketSteps, TransactionSteps, EventSteps DEF Timers, Gateway
<1> QED
  BY <1>1, <1>2, SocketSteps, EventSteps DEF Next

\* After Stop no session, transaction or timer comes back.
THEOREM StopEndsAll == Spec => []StopIsFinal
<1>1. ClientInv => StopIsFinal
  BY DEF ClientInv, Stopped, StopIsFinal
<1> QED
  BY <1>1, ClientInvInit, ClientInvStep, PTL DEF Spec

\* A page that says it is reconnecting has a timer that will.
THEOREM RetryIsArmed == Spec => []RetryArmed
<1>1. ClientInv => RetryArmed
  BY DEF ClientInv, Waiting, RetryArmed
<1> QED
  BY <1>1, ClientInvInit, ClientInvStep, PTL DEF Spec
=============================================================================
