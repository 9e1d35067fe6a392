----------------------------- MODULE RtcSession -----------------------------
(***************************************************************************)
(* One viewer (src/src/webrtc/webrtc_session.c) and its DTLS-SRTP engine   *)
(* (src/src/webrtc/dtls_srtp.c).  Both run on the network thread only, so  *)
(* that a handler is one step; but the two call each other back, and what  *)
(* such a chain of calls does is what this module says: each handler is an *)
(* operator from the session before the call to the session after it.      *)
(*                                                                         *)
(* Of a time stamp the session keeps how long ago it was taken, and of a   *)
(* deadline how far ahead it lies, in units of time, neither beyond the    *)
(* point where the code tells values apart.  OpenSSL and libsrtp are       *)
(* external: `ssl' is what a call into OpenSSL comes to.                   *)
(***************************************************************************)
EXTENDS Integers, Sequences

CONSTANTS
  Addresses,     \* where datagrams come from
  Messages,      \* the STUN messages among them
  None,          \* no address; an empty slot of the session table
  IdleTimeout,   \* SESSION_IDLE_TIMEOUT_MS
  Watchdog,      \* SESSION_DTLS_WATCHDOG_MS
  IdrInterval,   \* IDR_MIN_INTERVAL_MS
  SrInterval,    \* RTCP_SR_INTERVAL_MS
  MaxLag         \* bound: how old the time given to rtc_session_tick can be

ASSUME SessionAssumption ==
  /\ None \notin Addresses
  /\ {IdleTimeout, Watchdog, IdrInterval, SrInterval} \subseteq Nat \ {0}
  /\ MaxLag \in Nat

States     == {"new", "ice", "dtls", "streaming", "closed"}
DtlsStates == {"init", "handshaking", "connected", "failed", "closed"}

\* The peer's certificate: that of the offer's fingerprint, or another one or
\* none at all.
Certificates == {"match", "other"}

\* A call into OpenSSL wants more datagrams, fails (the export of keying material
\* and srtp_create too), finds that the peer has closed, or ends the handshake
\* with a certificate.
SslOutcomes == {"want", "error", "close_notify"} \cup Certificates

\* What a STUN message may say: a username, as its parts between colons, of
\* which "local" is this session's ice-ufrag; an HMAC of what comes before it,
\* which this session's password verifies or not; anything else.
Attributes ==
  [type : {"USERNAME"}, parts : Seq({"local", "other"})]
    \cup [type : {"MESSAGE-INTEGRITY"}, verifies : BOOLEAN] \cup [type : {"other"}]

\* The length field of a message that is not whole goes beyond the datagram.
StunMessages ==
  [type : {"request", "indication", "other"}, whole : BOOLEAN,
   attributes : Seq(Attributes)]

ASSUME MessagesAssumption == Messages \subseteq StunMessages

\* A datagram and its first byte: a STUN message, a DTLS record, RTP or RTCP,
\* of which only feedback under SRTCP is authentic, or anything else.
Datagrams ==
  [first : {0}, from : Addresses, message : Messages]
    \cup [first : {22}, ssl : SslOutcomes]
    \cup [first : {129}, authentic : BOOLEAN, bye : BOOLEAN, keyframe : BOOLEAN]
    \cup [first : {64}]

Lesser(a, b) == IF a < b THEN a ELSE b

\* The greatest ages told apart.
RxCap  == IdleTimeout + MaxLag + 1
AgeCap == Watchdog + MaxLag + 1

Session ==
  [state : States,
   remote : Addresses \cup {None},   \* remote, have_remote
   expected : BOOLEAN,               \* expected_fingerprint is not empty
   dtls : DtlsStates,
   handshake_started : BOOLEAN,
   srtp_ready : BOOLEAN,
   rx : 0 .. RxCap,                  \* since last_rx_ms
   age : 0 .. AgeCap,                \* since created_ms
   idr : 0 .. IdrInterval,           \* since last_idr_ms, or long if there is none
   sr : -MaxLag .. SrInterval,       \* until next_sr_ms
   asks : BOOLEAN,                   \* this call has called on_idr_request
   shown : SUBSET Addresses,         \* history: who has shown the password
   cert : Certificates,              \* history: the peer's certificate
   keyed : BOOLEAN,                  \* history: has been sent a keyframe
   ends : Nat]                       \* history: calls of on_closed

\* rtc_session_create, for an offer with a fingerprint or with an a=fingerprint:
\* line that is empty, which sdp_parse_offer accepts too.
NewSession(expected) ==
  [state |-> "new", remote |-> None, expected |-> expected,
   dtls |-> "init", handshake_started |-> FALSE, srtp_ready |-> FALSE,
   rx |-> 0, age |-> 0, idr |-> IdrInterval, sr |-> 0,
   asks |-> FALSE, shown |-> {}, cert |-> "other", keyed |-> FALSE, ends |-> 0]

\* A unit of time passes.
Older(s) ==
  [s EXCEPT !.rx  = Lesser(@ + 1, RxCap),
            !.age = Lesser(@ + 1, AgeCap),
            !.idr = Lesser(@ + 1, IdrInterval),
            !.sr  = IF @ > -MaxLag THEN @ - 1 ELSE @]

-----------------------------------------------------------------------------
(* Closing.  dtls_srtp_close reports the new state to the session, which   *)
(* closes itself, which closes DTLS: the second close must find its work   *)
(* done.                                                                   *)

\* rtc_session_close with DTLS closed already.
CloseAgain(s) ==
  IF s.state = "closed" THEN s
  ELSE [s EXCEPT !.state = "closed", !.ends = @ + 1]

\* dtls_srtp_close, and dtls_set_state and dtls_on_state under it.
DtlsClose(s) ==
  IF s.dtls = "closed" THEN s ELSE CloseAgain([s EXCEPT !.dtls = "closed"])

\* With a bug: the session is marked closed after DTLS is closed.
CloseMarkedLast(s) ==
  IF s.state = "closed" THEN s
  ELSE [DtlsClose(s) EXCEPT !.state = "closed", !.ends = @ + 1]

\* rtc_session_close.
Close(s) ==
  IF s.state = "closed" THEN s
  ELSE [DtlsClose([s EXCEPT !.state = "closed"]) EXCEPT !.ends = @ + 1]

-----------------------------------------------------------------------------
(* DTLS.                                                                   *)

\* With a bug: the time of the request is taken down before it is looked at.
RequestIdrStamped(s) == [s EXCEPT !.idr = 0]

\* rtc_session_request_idr.
RequestIdr(s) ==
  IF s.idr < IdrInterval THEN s ELSE [s EXCEPT !.idr = 0, !.asks = TRUE]

\* With a bug: dtls_on_state acts on a failure only.
PeerClosesUnheard(s) == [s EXCEPT !.dtls = "closed"]

\* dtls_set_state(FAILED), or (CLOSED) for the peer's close_notify: the
\* session closes, which closes DTLS.
Fail(s)       == Close([s EXCEPT !.dtls = "failed"])
PeerCloses(s) == CloseAgain([s EXCEPT !.dtls = "closed"])

\* With a bug: only the offer asks for a keyframe.
ConnectSilently(s) ==
  [s EXCEPT !.dtls = "connected", !.srtp_ready = TRUE,
            !.state = "streaming", !.sr = SrInterval]

\* dtls_set_state(CONNECTED) and dtls_on_connected.
Connect(s) ==
  RequestIdr([s EXCEPT !.dtls = "connected", !.srtp_ready = TRUE,
                       !.state = "streaming", !.sr = SrInterval])

\* The handshake has ended with cert; where no fingerprint was given, none
\* matches.
Presents(s, cert) == [s EXCEPT !.cert = IF s.expected THEN cert ELSE "other"]

\* With a bug: the fingerprint is not compared.
FinishUnverified(s, cert) == Connect(Presents(s, cert))

\* derive_srtp_keys, and what pump_ssl does of its result: the certificate is
\* only looked at when there is a fingerprint to compare.
Finish(s, cert) ==
  LET t == Presents(s, cert) IN
  IF t.expected => t.cert = "match" THEN Connect(t) ELSE Fail(t)

\* dtls_set_state(HANDSHAKING), before the first call of SSL_accept.
Start(s) ==
  IF s.handshake_started THEN s
  ELSE [s EXCEPT !.handshake_started = TRUE, !.dtls = "handshaking",
                 !.state = "dtls"]

\* pump_ssl.
Pump(s, ssl) ==
  LET t == Start(s) IN
  CASE s.dtls \in {"closed", "failed"} -> s
    [] s.dtls \notin {"closed", "failed"} /\ ssl = "error" -> Fail(t)
    [] s.dtls \notin {"closed", "failed"} /\ ssl = "close_notify"
         /\ s.handshake_started -> PeerCloses(t)
    [] s.dtls \notin {"closed", "failed"} /\ ssl \in Certificates
         /\ ~s.srtp_ready -> Finish(t, ssl)
    [] OTHER -> t

\* dtls_srtp_tick: nothing before the first ClientHello.
DtlsTick(s, ssl) == IF s.dtls = "handshaking" THEN Pump(s, ssl) ELSE s

-----------------------------------------------------------------------------
(* Events of the session.  STUN is read in src/src/webrtc/ice_lite.c.      *)

\* rtc_classify_packet.
Class(first) == CASE first <= 3        -> "stun"
                  [] first \in 20 .. 63 -> "dtls"
                  [] first >= 128      -> "rtp"
                  [] OTHER             -> "other"

\* stun_find_attribute: the k-th attribute is the first of its type.
Found(m, k, type) ==
  /\ m.whole
  /\ k \in DOMAIN m.attributes /\ m.attributes[k].type = type
  /\ \A j \in 1 .. k - 1 : m.attributes[j].type # type

\* stun_is_binding_request.
IsBindingRequest(m) == m.type = "request" /\ m.whole

\* With a bug: an HMAC is enough, whatever password it is made with.
HasMi(m) == \E k \in DOMAIN m.attributes : Found(m, k, "MESSAGE-INTEGRITY")

\* stun_verify_mi.
VerifyMi(m) ==
  \E k \in DOMAIN m.attributes :
    Found(m, k, "MESSAGE-INTEGRITY") /\ m.attributes[k].verifies

\* stun_username_matches: the first of the parts is ours, or else the second
\* of two is.
UsernameMatches(m) ==
  \E k \in DOMAIN m.attributes :
    /\ Found(m, k, "USERNAME")
    /\ LET parts == m.attributes[k].parts IN
         \/ Len(parts) > 1 /\ parts[1] = "local"
         \/ Len(parts) = 2 /\ parts[2] = "local"

\* The sender of m knows the password that went out with the answer.
Shows(m) == \E k \in DOMAIN m.attributes :
              m.attributes[k].type = "MESSAGE-INTEGRITY" /\ m.attributes[k].verifies

\* A valid binding request: media follows the latest one.  Others are
\* answered with 401, or ignored.
OnStun(s, m, from) ==
  LET t == IF Shows(m) THEN [s EXCEPT !.shown = @ \cup {from}] ELSE s IN
  IF IsBindingRequest(m) /\ VerifyMi(m) /\ UsernameMatches(m)
  THEN [t EXCEPT !.remote = from, !.state = IF @ = "new" THEN "ice" ELSE @]
  ELSE t

\* dtls_on_rtcp: BYE goes before anything else in the packet.
OnRtcp(s, bye, keyframe) ==
  CASE bye -> Close(s)
    [] ~bye /\ keyframe -> RequestIdr(s)
    [] ~bye /\ ~keyframe -> s

\* What the datagram d comes to.
Handle(s, d) ==
  CASE Class(d.first) = "stun" -> OnStun(s, d.message, d.from)
    [] Class(d.first) = "dtls" /\ s.remote # None -> Pump(s, d.ssl)
    [] /\ Class(d.first) = "rtp" /\ s.state = "streaming"
       /\ s.srtp_ready /\ d.authentic -> OnRtcp(s, d.bye, d.keyframe)
    [] OTHER -> s

\* With a bug: only a STUN message shows that the viewer is alive.
OnUdpStale(s, d) ==
  CASE s.state = "closed" -> s
    [] s.state # "closed" /\ Class(d.first) = "stun" ->
         Handle([s EXCEPT !.rx = 0], d)
    [] s.state # "closed" /\ Class(d.first) # "stun" -> Handle(s, d)

\* rtc_session_on_udp.
OnUdp(s, d) ==
  IF s.state = "closed" THEN s ELSE Handle([s EXCEPT !.rx = 0], d)

\* A stamp's age at the time `now', `lag' ago; a stamp that is newer is fresh.
AgeAt(age, lag) == IF age >= lag THEN age - lag ELSE 0

Idle(s, lag)      == AgeAt(s.rx, lag) > IdleTimeout
NoDtls(s, lag)    == s.state = "ice" /\ AgeAt(s.age, lag) > Watchdog
ReportDue(s, lag) == s.state = "streaming" /\ s.sr + lag <= 0

\* With a bug: the lag is added to the deadline.
ReportLate(s, lag) ==
  IF ReportDue(s, lag) THEN [s EXCEPT !.sr = SrInterval + lag] ELSE s

\* A sender report goes out: the next one is due SrInterval after `now'.
Report(s, lag) ==
  IF ReportDue(s, lag) THEN [s EXCEPT !.sr = SrInterval - lag] ELSE s

\* With a bug: nothing is watched but silence.
TickWithoutWatchdog(s, lag, ssl) ==
  CASE s.state = "closed" -> s
    [] s.state # "closed" /\ Idle(s, lag) -> Close(s)
    [] s.state # "closed" /\ ~Idle(s, lag) -> Report(DtlsTick(s, ssl), lag)

\* With a bug: a viewer that streams is taken to be there.
TickWithoutIdle(s, lag, ssl) ==
  CASE s.state = "closed" -> s
    [] s.state # "closed" /\ NoDtls(s, lag) -> Close(s)
    [] s.state # "closed" /\ ~NoDtls(s, lag) -> Report(DtlsTick(s, ssl), lag)

\* rtc_session_tick.
Tick(s, lag, ssl) ==
  CASE s.state = "closed" -> s
    [] s.state # "closed" /\ (Idle(s, lag) \/ NoDtls(s, lag)) -> Close(s)
    [] s.state # "closed" /\ ~Idle(s, lag) /\ ~NoDtls(s, lag) ->
         Report(DtlsTick(s, ssl), lag)

\* rtc_session_send_access_unit.
Send(s, is_idr) ==
  IF s.state = "streaming" THEN [s EXCEPT !.keyed = @ \/ is_idr] ELSE s
=============================================================================
