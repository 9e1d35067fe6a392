---------------------------- MODULE JanusClient ----------------------------
(***************************************************************************)
(* The browser's side of the Janus transport (src/web/janus/janus-client.js *)
(* and the buttons of index.html): one page, the WebSockets it opens to    *)
(* the gateway, its transactions with their timeouts, the keepalive, the   *)
(* reconnect timer and the negotiation of the video.                       *)
(*                                                                         *)
(* Every handler runs to its end before the next (JavaScript is single     *)
(* threaded), so a handler is an action.  The gateway, the network and the *)
(* user do what they like: the gateway may answer late, twice, with an     *)
(* error or never, and `silent' says it has stopped for good.              *)
(***************************************************************************)
EXTENDS Naturals, FiniteSets

CONSTANTS
  MaxSockets,  \* bound: sockets that are not closed at the same time
  MaxPending   \* bound: transactions without an answer at the same time

ASSUME ClientAssumption == MaxSockets \in Nat \ {0} /\ MaxPending \in Nat \ {0}

Sockets == 1 .. MaxSockets
NoSocket == 0

VARIABLES
  state,      \* client.state, which also enables the page's buttons; a change
              \* of the ICE state is shown elsewhere and leaves it alone
  ws,         \* client.ws
  sock,       \* readyState of every socket; `closed' ones are used again
  asked,      \* how far the gateway has been asked to go on a socket
  session,    \* sessionId is set
  handle,     \* handleId is set
  pending,    \* client.pending: the label and the socket of each transaction
  keepalive,  \* keepaliveTimer runs
  reconnect,  \* reconnectTimer is armed
  intentional, \* client.intentionalClose
  pc,         \* client.pc: there is none, or how far its answer has come
  stale,      \* a PeerConnection that is closed still waits to answer
  silent      \* the gateway does nothing any more

socketVars == <<ws, sock, asked>>
mediaVars  == <<pc, stale>>
vars == <<state, socketVars, session, handle, pending, keepalive, reconnect,
          intentional, mediaVars, silent>>

States == {"disconnected", "connecting", "reconnecting", "attaching",
           "listing", "watching", "negotiating", "streaming", "error"}
Labels == {"create", "attach", "list", "watch", "start", "keepalive"}

Open == ws # NoSocket /\ sock[ws] = "open"

\* The page is loaded, which connects at once.
Init ==
  /\ state = "connecting"
  /\ ws = 1 /\ sock = [s \in Sockets |-> IF s = 1 THEN "connecting" ELSE "closed"]
  /\ asked = [s \in Sockets |-> "nothing"]
  /\ session = FALSE /\ handle = FALSE
  /\ pending = {}
  /\ keepalive = FALSE /\ reconnect = FALSE /\ intentional = FALSE
  /\ pc = "none" /\ stale = FALSE
  /\ silent = FALSE

-----------------------------------------------------------------------------
(* Parts of handlers.                                                      *)

\* How far the gateway is on a socket when it has been asked for label.
Further(level, label) ==
  CASE label = "attach" /\ level = "nothing" -> "attach"
    [] label = "watch" /\ level = "attach"   -> "watch"
    [] label = "start" /\ level = "watch"    -> "start"
    [] OTHER -> level

\* Transactions p and one more; equal ones differ in their key, as they do in
\* their random transaction id.
With(p, label, s) ==
  LET t(k) == [key |-> k, label |-> label, on |-> s]
      key  == CHOOSE k \in 1 .. MaxPending :
                t(k) \notin p /\ \A j \in 1 .. k - 1 : t(j) \in p
  IN  p \cup {t(key)}

\* The message leaves on socket s, after which p and it are pending.
SendOn(label, p, s) ==
  /\ Cardinality(p) < MaxPending
  /\ pending' = With(p, label, s)
  /\ asked' = [asked EXCEPT ![s] = Further(@, label)]

\* send: nothing happens unless the client's socket is open.
Send(label, p) == IF Open THEN SendOn(label, p, ws)
                  ELSE pending' = p /\ UNCHANGED asked

Sends(label) == Send(label, pending)

\* cleanupMedia: the PeerConnection is closed; its gathering timer is not.
CleanupMedia ==
  /\ pc' = "none"
  /\ stale' = (stale \/ pc = "gathering")

\* ws.close(), if there is a socket.
CloseSocket ==
  sock' = IF ws = NoSocket THEN sock ELSE [sock EXCEPT ![ws] = "closing"]

\* teardownSession.
Teardown ==
  /\ pending' = {} /\ keepalive' = FALSE
  /\ session' = FALSE /\ handle' = FALSE
  /\ CleanupMedia

\* handlePluginSdp and negotiate: a new PeerConnection takes the offer.
Negotiate ==
  /\ state' = "negotiating"
  /\ pc' = "applying"
  /\ stale' = (stale \/ pc = "gathering")

\* listStreams, attachPlugin, createSession.
ListStreams  == state' = "listing" /\ Sends("list")
AttachPlugin == state' = "attaching" /\ Sends("attach")

-----------------------------------------------------------------------------
(* connect and disconnect.                                                 *)

\* connect, when no disconnect has come before: it goes on with an open
\* socket, or opens one.
ConnectNow ==
  \/ /\ Open
     /\ \/ session /\ handle /\ ListStreams
        \/ session /\ ~handle /\ AttachPlugin
        \/ ~session /\ Sends("create") /\ UNCHANGED state
     /\ UNCHANGED <<ws, sock>>
  \/ /\ ~Open
     /\ \E s \in Sockets :
          /\ sock[s] = "closed"
          /\ ws' = s /\ sock' = [sock EXCEPT ![s] = "connecting"]
          /\ asked' = [asked EXCEPT ![s] = "nothing"]
     /\ state' = "connecting"
     /\ UNCHANGED pending

\* After a disconnect it does nothing, for good.
Connect ==
  IF intentional THEN UNCHANGED <<state, socketVars, pending>>
  ELSE ConnectNow

\* The Connect button, which is disabled while a connection is made or used.
ClickConnect ==
  /\ state \in {"disconnected", "reconnecting", "error"}
  /\ Cardinality(pending) < MaxPending
  /\ Connect
  /\ UNCHANGED <<session, handle, keepalive, reconnect, intentional, mediaVars,
                 silent>>

\* The reconnect timer.
ReconnectFires ==
  /\ reconnect
  /\ reconnect' = FALSE
  /\ Connect
  /\ UNCHANGED <<session, handle, keepalive, intentional, mediaVars, silent>>

\* With a bug: the reconnect timer stays armed.
DisconnectKeepsTimer ==
  /\ state \in {"streaming", "negotiating"}
  /\ intentional' = TRUE
  /\ Teardown
  /\ CloseSocket
  /\ state' = "disconnected"
  /\ UNCHANGED <<ws, asked, reconnect, silent>>

\* The Stop button (disconnect): after a last request, which nobody waits for,
\* everything is torn down, and the socket is closed.
Disconnect ==
  /\ state \in {"streaming", "negotiating"}
  /\ intentional' = TRUE
  /\ Teardown
  /\ reconnect' = FALSE
  /\ CloseSocket
  /\ state' = "disconnected"
  /\ UNCHANGED <<ws, asked, silent>>

-----------------------------------------------------------------------------
(* Sockets.                                                                *)

\* onopen of any socket asks for a session on the client's.
Opens(s) ==
  /\ ~silent
  /\ sock[s] = "connecting"
  /\ sock' = [sock EXCEPT ![s] = "open"]
  /\ IF s = ws
     THEN SendOn("create", pending, s) ELSE Sends("create")
  /\ UNCHANGED <<state, ws, session, handle, keepalive, reconnect, intentional,
                 mediaVars, silent>>

\* With a bug: no timer is armed while there is one session less to tear down.
ClosesUnarmed(s) ==
  /\ sock[s] # "closed"
  /\ sock' = [sock EXCEPT ![s] = "closed"]
  /\ asked' = [asked EXCEPT ![s] = "nothing"]
  /\ Teardown
  /\ ws' = NoSocket
  /\ state' = IF intentional THEN "disconnected" ELSE "reconnecting"
  /\ reconnect' = (reconnect \/ (session /\ ~intentional))
  /\ UNCHANGED <<intentional, silent>>

\* onclose of any socket (closed here, refused or lost) tears down what the
\* client has, whichever socket that is on, and arms the reconnect timer.
Closes(s) ==
  /\ sock[s] # "closed"
  /\ sock' = [sock EXCEPT ![s] = "closed"]
  /\ asked' = [asked EXCEPT ![s] = "nothing"]
  /\ Teardown
  /\ ws' = NoSocket
  /\ state' = IF intentional THEN "disconnected" ELSE "reconnecting"
  /\ reconnect' = (reconnect \/ ~intentional)
  /\ UNCHANGED <<intentional, silent>>

-----------------------------------------------------------------------------
(* Transactions.                                                           *)

\* A tick of the keepalive timer; the last keepalive is answered or timed out,
\* for the period is longer than the timeout.
KeepaliveTick ==
  /\ keepalive /\ session /\ Open
  /\ \A t \in pending : t.label # "keepalive"
  /\ Sends("keepalive")
  /\ UNCHANGED <<state, ws, sock, session, handle, keepalive, reconnect,
                 intentional, mediaVars, silent>>

\* With a bug: a keepalive that is lost is only reported.
TimeoutReports(t) ==
  /\ t \in pending
  /\ pending' = pending \ {t}
  /\ state' = IF state \in {"error", "disconnected"} THEN state ELSE "error"
  /\ UNCHANGED <<socketVars, session, handle, keepalive, reconnect,
                 intentional, mediaVars, silent>>

\* No answer: a keepalive closes the socket, anything else is an error.
Timeout(t) ==
  /\ t \in pending
  /\ pending' = pending \ {t}
  /\ IF t.label = "keepalive"
     THEN /\ CloseSocket
          /\ UNCHANGED state
     ELSE /\ state' = IF state = "disconnected" THEN state ELSE "error"
          /\ UNCHANGED sock
  /\ UNCHANGED <<ws, asked, session, handle, keepalive, reconnect, intentional,
                 mediaVars, silent>>

\* A message arrives on a socket that is still open.
Arrives(s) == ~silent /\ sock[s] = "open"

\* An answer to transaction t that is what it asks for.
Granted(t) ==
  /\ t \in pending /\ Arrives(t.on)
  /\ CASE t.label = "create" ->
            /\ session' = TRUE /\ keepalive' = TRUE
            /\ state' = "attaching" /\ Send("attach", pending \ {t})
            /\ UNCHANGED <<handle, mediaVars>>
       [] t.label = "attach" ->
            /\ handle' = TRUE
            /\ state' = "listing" /\ Send("list", pending \ {t})
            /\ UNCHANGED <<session, keepalive, mediaVars>>
       [] t.label = "list" ->
            /\ state' = "watching" /\ Send("watch", pending \ {t})
            /\ UNCHANGED <<session, handle, keepalive, mediaVars>>
       [] t.label = "start" ->
            /\ state' = IF state = "streaming" THEN state ELSE "negotiating"
            /\ pending' = pending \ {t}
            /\ UNCHANGED <<asked, session, handle, keepalive, mediaVars>>
       [] t.label = "watch" ->
            /\ pending' = pending \ {t}
            /\ Negotiate \/ UNCHANGED <<state, mediaVars>>
            /\ UNCHANGED <<asked, session, handle, keepalive>>
       [] OTHER ->
            /\ pending' = pending \ {t}
            /\ UNCHANGED <<state, asked, session, handle, keepalive, mediaVars>>
  /\ UNCHANGED <<ws, sock, reconnect, intentional, silent>>

\* A list without a mountpoint, or an answer without an id.
Useless(t) ==
  /\ t \in pending /\ Arrives(t.on)
  /\ t.label \in {"create", "attach", "list"}
  /\ pending' = pending \ {t}
  /\ state' = "error"
  /\ UNCHANGED <<socketVars, session, handle, keepalive, reconnect,
                 intentional, mediaVars, silent>>

\* An error for a transaction that waits is only logged.
Refused(t) ==
  /\ t \in pending /\ Arrives(t.on)
  /\ pending' = pending \ {t}
  /\ UNCHANGED <<state, socketVars, session, handle, keepalive, reconnect,
                 intentional, mediaVars, silent>>

\* One for a transaction that is over is shown.
RefusedLate(s) ==
  /\ Arrives(s) /\ asked[s] # "nothing"
  /\ state' = IF state = "disconnected" THEN state ELSE "error"
  /\ UNCHANGED <<socketVars, session, handle, pending, keepalive, reconnect,
                 intentional, mediaVars, silent>>

-----------------------------------------------------------------------------
(* Events of the gateway, from any socket on which it has been asked.      *)

Offered(s) ==
  /\ Arrives(s) /\ asked[s] \in {"watch", "start"}
  /\ Negotiate
  /\ UNCHANGED <<socketVars, session, handle, pending, keepalive, reconnect,
                 intentional, silent>>

WebrtcUp(s) ==
  /\ Arrives(s) /\ asked[s] = "start"
  /\ state' = "streaming"
  /\ UNCHANGED <<socketVars, session, handle, pending, keepalive, reconnect,
                 intentional, mediaVars, silent>>

Hangup(s) ==
  /\ Arrives(s) /\ asked[s] = "start"
  /\ CleanupMedia
  /\ state' = "error"
  /\ UNCHANGED <<socketVars, session, handle, pending, keepalive, reconnect,
                 intentional, silent>>

Detached(s) ==
  /\ Arrives(s) /\ asked[s] # "nothing"
  /\ handle' = FALSE
  /\ CleanupMedia
  /\ state' = "error"
  /\ UNCHANGED <<socketVars, session, pending, keepalive, reconnect,
                 intentional, silent>>

-----------------------------------------------------------------------------
(* The negotiation.                                                        *)

\* The chain of promises: the local description is set, or an error is shown.
LocalReady ==
  /\ pc = "applying"
  /\ \/ pc' = "gathering" /\ UNCHANGED state
     \/ pc' = "none" /\ state' = "error"
  /\ UNCHANGED <<socketVars, session, handle, pending, keepalive, reconnect,
                 intentional, stale, silent>>

\* Candidates are complete, or 3 s have passed: the answer is sent.
Answers ==
  /\ pc = "gathering" /\ pc' = "answered"
  /\ Sends("start")
  /\ UNCHANGED <<state, ws, sock, session, handle, keepalive, reconnect,
                 intentional, stale, silent>>

\* The 3 s of a PeerConnection that is closed: its answer is sent as well.
AnswersStale ==
  /\ stale /\ stale' = FALSE
  /\ Sends("start")
  /\ UNCHANGED <<state, ws, sock, session, handle, keepalive, reconnect,
                 intentional, pc, silent>>

\* The gateway hangs, or the network is gone.
FallsSilent ==
  /\ ~silent /\ silent' = TRUE
  /\ UNCHANGED <<state, socketVars, session, handle, pending, keepalive,
                 reconnect, intentional, mediaVars>>

-----------------------------------------------------------------------------

Timers == KeepaliveTick \/ ReconnectFires \/ \E t \in pending : Timeout(t)

Gateway ==
  \/ \E s \in Sockets : Opens(s) \/ RefusedLate(s) \/ Offered(s) \/ WebrtcUp(s)
                          \/ Hangup(s) \/ Detached(s)
  \/ \E t \in pending : Granted(t) \/ Useless(t) \/ Refused(t)
  \/ FallsSilent

Next ==
  \/ ClickConnect \/ Disconnect
  \/ \E s \in Sockets : Closes(s)
  \/ Timers \/ Gateway
  \/ LocalReady \/ Answers \/ AnswersStale

Spec == Init /\ [][Next]_vars

\* Timers go off, and a socket that is closing, or that a silent gateway does
\* not let open, closes in the end.  Neither user nor gateway has to do
\* anything.
FairSpec ==
  /\ Spec
  /\ SF_vars(KeepaliveTick) /\ WF_vars(ReconnectFires)
  /\ \A l \in Labels : WF_vars(\E t \in pending : t.label = l /\ Timeout(t))
  /\ \A s \in Sockets :
       WF_vars((sock[s] = "closing" \/ (silent /\ sock[s] = "connecting"))
                 /\ Closes(s))
-----------------------------------------------------------------------------
(* Properties.                                                             *)

\* Type invariant.
TypeOK ==
  /\ state \in States
  /\ ws \in Sockets \cup {NoSocket}
  /\ sock \in [Sockets -> {"connecting", "open", "closing", "closed"}]
  /\ asked \in [Sockets -> {"nothing", "attach", "watch", "start"}]
  /\ pending \subseteq [key : 1 .. MaxPending, label : Labels, on : Sockets]
  /\ {session, handle, keepalive, reconnect, intentional, stale, silent}
       \subseteq BOOLEAN
  /\ pc \in {"none", "applying", "gathering", "answered"}

\* After Stop no session, transaction or timer comes back, whatever arrives
\* late or on a socket that was forgotten.
StopIsFinal ==
  intentional => ~session /\ pending = {} /\ ~keepalive /\ ~reconnect

\* A page that says it is reconnecting has a timer that will.
RetryArmed == state = "reconnecting" => reconnect

\* "A keepalive is sent every 20 s; loss triggers a reconnect": a session with
\* a gateway that has fallen silent does not last.
SilenceNoticed == silent /\ session ~> ~session

\* "Disconnected. Click Connect to retry." (index.html:232): on a page that
\* says so, with a socket to spare, a click makes the client try.
RetryHonoured ==
  state = "disconnected" /\ (\E s \in Sockets : sock[s] = "closed")
    => ENABLED (ClickConnect /\ state' = "connecting")
=============================================================================
