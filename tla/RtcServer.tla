----------------------------- MODULE RtcServer -----------------------------
(***************************************************************************)
(* The network loop (app_server_run in src/src/app/app_server.c) with its  *)
(* table of sessions, and the encode worker as the loop sees it: it shares *)
(* rtc_active, force_idr and the ring of access units with the loop, and   *)
(* runs at any moment.                                                     *)
(*                                                                         *)
(* The loop goes round: poll, datagrams, HTTP requests, ticks, fan-out of  *)
(* access units, reaping.  `phase' is where it stands.  An access unit is  *)
(* TRUE when it is a keyframe.                                             *)
(***************************************************************************)
EXTENDS RtcSession, Sequences

CONSTANTS
  MaxSessions,   \* MAX_RTC_SESSIONS
  RingSlots,     \* AU_RING_SLOTS
  Capturing      \* the camera delivers frames, and the encoder codes them

ASSUME ServerAssumption ==
  /\ MaxSessions \in Nat \ {0}
  /\ RingSlots \in Nat \ {0}
  /\ Capturing \in BOOLEAN
  /\ None \notin Session

Slots == 1 .. MaxSessions

VARIABLES
  slots,        \* server->sessions
  phase,        \* where the loop stands
  cursor,       \* the slot it comes to next, in the loop over the ticks
  lag,          \* how long ago `now' was read
  rtc_active,
  force_idr,
  ring,         \* the access units in the ring
  frame,        \* the camera has delivered a frame
  encoder,      \* where the encode worker stands
  force,        \* its local copy of force_idr
  is_idr,       \* the unit it has is a keyframe
  quiet,        \* history: per slot, since its session began or a datagram came
  overrun,      \* history: a keyframe has been overwritten in the ring
  endings       \* history: how often on_closed was called for sessions freed

loopVars    == <<phase, cursor, lag>>
encoderVars == <<frame, encoder, force, is_idr>>
vars == <<slots, loopVars, rtc_active, force_idr, ring, encoderVars, quiet,
          overrun, endings>>

Init ==
  /\ slots = [i \in Slots |-> None]
  /\ phase = "top" /\ cursor = 1 /\ lag = 0
  /\ rtc_active = FALSE /\ force_idr = FALSE
  /\ ring = <<>>
  /\ frame = FALSE /\ encoder = "idle" /\ force = FALSE /\ is_idr = FALSE
  /\ quiet = [i \in Slots |-> 0]
  /\ overrun = FALSE /\ endings = {}

Taken == {i \in Slots : slots[i] # None}
Live  == {i \in Taken : slots[i].state # "closed"}

InState(i, state) == i \in Taken /\ slots[i].state = state

\* The session in slot i becomes s; what it asks for reaches the encoder
\* (session_on_idr_request).
Becomes(i, s) ==
  /\ slots' = [slots EXCEPT ![i] = [s EXCEPT !.asks = FALSE]]
  /\ force_idr' = (force_idr \/ s.asks)

\* rtc_session_destroy of the sessions in the slots S.
Destroy(S) ==
  /\ slots' = [i \in Slots |-> IF i \in S THEN None ELSE slots[i]]
  /\ endings' = endings \cup {Close(slots[i]).ends : i \in S}

-----------------------------------------------------------------------------
(* The loop.                                                               *)

\* Another round: poll returns.
Poll ==
  /\ phase = "top"
  /\ phase' = "udp"
  /\ UNCHANGED <<slots, cursor, lag, rtc_active, force_idr, ring, encoderVars,
                 quiet, overrun, endings>>

\* A datagram is read from the socket of a session.
Receive(i, d) ==
  /\ phase = "udp" /\ i \in Live
  /\ Becomes(i, OnUdp(slots[i], d))
  /\ quiet' = [quiet EXCEPT ![i] = 0]
  /\ UNCHANGED <<loopVars, rtc_active, ring, encoderVars, overrun, endings>>

\* The sockets are dry: mg_mgr_poll.
PollHttp ==
  /\ phase = "udp"
  /\ phase' = "http"
  /\ UNCHANGED <<slots, cursor, lag, rtc_active, force_idr, ring, encoderVars,
                 quiet, overrun, endings>>

\* handle_rtc_offer: the first free slot is taken, if there is one ...
Offer(i) ==
  /\ phase = "http"
  /\ i \notin Taken /\ \A j \in Slots \ Taken : i <= j
  /\ \E expected \in BOOLEAN :
       slots' = [slots EXCEPT ![i] = NewSession(expected)]
  /\ quiet' = [quiet EXCEPT ![i] = 0]
  /\ rtc_active' = TRUE
  /\ phase' = "offered"
  /\ UNCHANGED <<cursor, lag, force_idr, ring, encoderVars, overrun, endings>>

\* ... and a keyframe is asked for.
OfferForces ==
  /\ phase = "offered"
  /\ force_idr' = TRUE
  /\ phase' = "http"
  /\ UNCHANGED <<slots, cursor, lag, rtc_active, ring, encoderVars, quiet,
                 overrun, endings>>

\* The answer does not fit: rtc_session_create destroys the session again.
OfferFails ==
  /\ phase = "http" /\ Taken # Slots
  /\ \E expected \in BOOLEAN :
       endings' = endings \cup {Close(NewSession(expected)).ends}
  /\ UNCHANGED <<slots, loopVars, rtc_active, force_idr, ring, encoderVars,
                 quiet, overrun>>

\* handle_rtc_close of a session in the table.
CloseRequest(i) ==
  /\ phase = "http" /\ i \in Taken
  /\ Becomes(i, Close(slots[i]))
  /\ UNCHANGED <<loopVars, rtc_active, ring, encoderVars, quiet, overrun,
                 endings>>

\* The clock is read again for the ticks.
StartTicks ==
  /\ phase = "http"
  /\ phase' = "tick" /\ cursor' = 1 /\ lag' = 0
  /\ UNCHANGED <<slots, rtc_active, force_idr, ring, encoderVars, quiet,
                 overrun, endings>>

\* The cursor moves on, to the fan-out after the last slot.
Onward ==
  /\ phase' = IF cursor = MaxSessions THEN "fan" ELSE "tick"
  /\ cursor' = IF cursor = MaxSessions THEN 1 ELSE cursor + 1
  /\ lag' = IF cursor = MaxSessions THEN 0 ELSE lag

\* rtc_session_tick of the session in the slot at the cursor.
TickSession(ssl) ==
  /\ phase = "tick" /\ cursor \in Taken
  /\ Becomes(cursor, Tick(slots[cursor], lag, ssl))
  /\ Onward
  /\ UNCHANGED <<rtc_active, ring, encoderVars, quiet, overrun, endings>>

TickNothing ==
  /\ phase = "tick" /\ cursor \notin Taken
  /\ Onward
  /\ UNCHANGED <<slots, rtc_active, force_idr, ring, encoderVars, quiet,
                 overrun, endings>>

\* An access unit goes to every viewer that streams.
FanOut ==
  /\ phase = "fan" /\ ring # <<>>
  /\ ring' = Tail(ring)
  /\ slots' = [i \in Slots |-> IF i \in Taken THEN Send(slots[i], Head(ring))
                               ELSE None]
  /\ UNCHANGED <<loopVars, rtc_active, force_idr, encoderVars, quiet, overrun,
                 endings>>

FanDone ==
  /\ phase = "fan" /\ ring = <<>>
  /\ phase' = "reap" /\ lag' = 0
  /\ UNCHANGED <<slots, cursor, rtc_active, force_idr, ring, encoderVars,
                 quiet, overrun, endings>>

\* With a bug: a viewer counts once it streams.
ReapCountsStreams ==
  /\ phase = "reap"
  /\ Destroy(Taken \ Live)
  /\ rtc_active' = (\E i \in Live : slots[i].state = "streaming")
  /\ phase' = "top"
  /\ UNCHANGED <<cursor, lag, force_idr, ring, encoderVars, quiet, overrun>>

\* Closed sessions are destroyed; rtc_active says whether any is left.
Reap ==
  /\ phase = "reap"
  /\ Destroy(Taken \ Live)
  /\ rtc_active' = (Live # {})
  /\ phase' = "top"
  /\ UNCHANGED <<cursor, lag, force_idr, ring, encoderVars, quiet, overrun>>

\* The stop flag is set: every session is destroyed.
Shutdown ==
  /\ phase = "top"
  /\ Destroy(Taken)
  /\ phase' = "stopped"
  /\ UNCHANGED <<cursor, lag, rtc_active, force_idr, ring, encoderVars, quiet,
                 overrun>>

-----------------------------------------------------------------------------
(* The encode worker, as far as EncodeThread describes it.                 *)

EncoderStep(from, to) == encoder = from /\ encoder' = to

\* A frame is there, and somebody to watch it.
EncoderTakes ==
  /\ frame /\ rtc_active
  /\ frame' = FALSE
  /\ EncoderStep("idle", "exchange")
  /\ UNCHANGED <<slots, loopVars, rtc_active, force_idr, ring, force, is_idr,
                 quiet, overrun, endings>>

EncoderExchanges ==
  /\ EncoderStep("exchange", "encode")
  /\ force' = force_idr
  /\ force_idr' = FALSE
  /\ UNCHANGED <<frame, slots, loopVars, rtc_active, ring, is_idr, quiet, overrun,
                 endings>>

EncoderCodes(key) ==
  /\ force => key
  /\ EncoderStep("encode", IF key THEN "clear" ELSE "push")
  /\ is_idr' = key
  /\ UNCHANGED <<frame, slots, loopVars, rtc_active, force_idr, ring, force, quiet,
                 overrun, endings>>

EncoderClears ==
  /\ EncoderStep("clear", "push")
  /\ force_idr' = FALSE
  /\ UNCHANGED <<frame, slots, loopVars, rtc_active, ring, force, is_idr, quiet,
                 overrun, endings>>

\* au_ring_push: the newest unit takes the place of the oldest.
EncoderPushes ==
  /\ EncoderStep("push", "idle")
  /\ IF Len(ring) < RingSlots
     THEN /\ ring' = Append(ring, is_idr)
          /\ UNCHANGED overrun
     ELSE /\ ring' = Append(Tail(ring), is_idr)
          /\ overrun' = (overrun \/ Head(ring))
  /\ UNCHANGED <<frame, slots, loopVars, rtc_active, force_idr, force, is_idr, quiet,
                 endings>>

\* This thread, and all that the loop does with the flag and the ring, is as
\* EncodeThread says, and EncoderWorker is too.
Contract == INSTANCE EncodeThread WITH stage <- encoder
KeepsContract == Contract!Spec

-----------------------------------------------------------------------------
\* Time passes, and the camera delivers its frames in time; while the ticks or
\* the fan-out run, MaxLag at most.
Advance ==
  /\ phase # "stopped"
  /\ phase \in {"tick", "fan"} => lag < MaxLag
  /\ slots' = [i \in Slots |-> IF i \in Taken THEN Older(slots[i]) ELSE None]
  /\ quiet' = [i \in Slots |-> IF i \in Taken THEN Lesser(quiet[i] + 1, RxCap)
                               ELSE quiet[i]]
  /\ lag' = IF phase \in {"tick", "fan"} THEN lag + 1 ELSE lag
  /\ frame' = (frame \/ Capturing)
  /\ UNCHANGED <<phase, cursor, rtc_active, force_idr, ring, encoder, force,
                 is_idr, overrun, endings>>

Loop == \/ Poll \/ PollHttp \/ OfferForces \/ StartTicks
        \/ \E ssl \in SslOutcomes : TickSession(ssl)
        \/ TickNothing \/ FanOut \/ FanDone \/ Reap

Outside == \/ \E i \in Slots, d \in Datagrams : Receive(i, d)
           \/ \E i \in Slots : Offer(i) \/ CloseRequest(i)
           \/ OfferFails \/ Shutdown

Encoder == \/ EncoderTakes \/ EncoderExchanges
           \/ \E key \in BOOLEAN : EncoderCodes(key)
           \/ EncoderClears \/ EncoderPushes

\* The loop is over, and the encode worker waits to be stopped.
Done == phase = "stopped" /\ encoder = "idle" /\ UNCHANGED vars

Next == Loop \/ Outside \/ Encoder \/ Advance \/ Done

Spec == Init /\ [][Next]_vars

\* The network thread runs and its sockets run dry, the encode worker runs.
\* Time passes, strongly fair because MaxLag stops it now and then.  Nothing
\* makes a peer send.
FairSpec == Spec /\ WF_vars(Loop) /\ WF_vars(Encoder) /\ SF_vars(Advance)
-----------------------------------------------------------------------------
(* Properties.                                                             *)

\* Type invariant.
TypeOK ==
  /\ slots \in [Slots -> Session \cup {None}]
  /\ phase \in {"top", "udp", "http", "offered", "tick", "fan", "reap",
                "stopped"}
  /\ cursor \in Slots /\ lag \in 0 .. MaxLag
  /\ rtc_active \in BOOLEAN /\ force_idr \in BOOLEAN
  /\ ring \in Seq(BOOLEAN) /\ Len(ring) <= RingSlots
  /\ frame \in BOOLEAN
  /\ encoder \in {"idle", "exchange", "encode", "clear", "push"}
  /\ force \in BOOLEAN /\ is_idr \in BOOLEAN
  /\ quiet \in [Slots -> 0 .. RxCap]
  /\ overrun \in BOOLEAN /\ endings \subseteq Nat

\* The session's state and that of its DTLS engine, which change each other
\* through callbacks, agree between calls.
Agrees(s) ==
  /\ s.state \in {"new", "ice"} <=> s.dtls = "init"
  /\ s.state = "dtls"           <=> s.dtls = "handshaking"
  /\ s.state = "streaming"      <=> s.dtls = "connected"
  /\ s.state = "closed"         <=> s.dtls = "closed"
  /\ s.state # "closed" => (s.handshake_started <=> s.dtls # "init")
  /\ s.state = "new" => s.remote = None

StatesAgree == \A i \in Taken : Agrees(slots[i])

\* Media is sent only under keys made with the owner of the certificate whose
\* fingerprint is in the offer, if one is, to an address that has shown the
\* password in the answer.
Secured(s) ==
  /\ s.srtp_ready /\ s.expected => s.cert = "match"
  /\ s.state = "streaming" => s.srtp_ready
  /\ s.handshake_started => s.remote # None
  /\ s.remote # None => s.remote \in s.shown

MediaSecured == \A i \in Taken : Secured(slots[i])

\* on_closed is called once for each session, whoever ends it: "that
\* re-entrant call would run ... the on_closed callback a second time".
ClosedOnce ==
  /\ endings \subseteq {1}
  /\ \A i \in Taken : slots[i].ends = IF i \in Live THEN 0 ELSE 1

\* While a viewer is there the encoder works; a round of the loop leaves no
\* closed session in the table, and an encoder that idles when it is empty.
ActiveWhileWatched ==
  /\ Live # {} => rtc_active
  /\ phase = "top" => Live = Taken /\ (rtc_active <=> Taken # {})

\* A keyframe is asked for or on its way.
Coming ==
  \/ force_idr
  \/ encoder = "encode" /\ force
  \/ encoder \in {"clear", "push"} /\ is_idr
  \/ \E k \in DOMAIN ring : ring[k]

\* As long as a viewer that streams has had no keyframe, one is on its way to
\* it, unless the ring has overrun: "a fresh viewer must receive a keyframe".
KeyframeOwed ==
  \A i \in Taken : slots[i].state = "streaming" /\ ~slots[i].keyed /\ ~overrun
                     => Coming

\* A tick closes a viewer that streams, or one that has not been heard of
\* yet, only after a silence longer than the timeout.
NotReapedEarly ==
  [][\A i \in Slots :
       /\ phase = "tick"
       /\ i \in Live /\ slots[i].state \in {"new", "streaming"}
       /\ slots'[i] # None /\ slots'[i].state = "closed"
       => quiet[i] > IdleTimeout]_vars

\* "A vanished browser cannot hold a slot": no session stays silent for good.
SilenceEnds == \A i \in Slots : []<>(i \notin Taken \/ quiet[i] <= IdleTimeout)

\* A session whose peer never starts DTLS ends, whatever datagrams come.
IceEnds == \A i \in Slots : InState(i, "ice") ~> ~InState(i, "ice")

\* A viewer that streams gets a keyframe, or leaves, or the ring overruns.
FreshViewerServed ==
  \A i \in Slots : InState(i, "streaming") ~>
    ~InState(i, "streaming") \/ slots[i].keyed \/ overrun

\* README.md:619: "A session that never produces a valid STUN check is reaped
\* after 15 s, and one that reaches ICE but never completes DTLS is reaped after
\* 30 s".  The idle timeout counts from any datagram, the watchdog looks at
\* sessions in RTC_ICE only.
InSetup(i) == i \in Live /\ slots[i].state # "streaming"
SetupEnds  == \A i \in Slots : InSetup(i) ~> ~InSetup(i)
=============================================================================
