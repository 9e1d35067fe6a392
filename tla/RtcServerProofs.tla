--------------------------- MODULE RtcServerProofs ---------------------------
(***************************************************************************)
(* Every session of RtcServer is sound in every state: its two state       *)
(* machines agree, it sends nothing unsecured, it is closed once.  First   *)
(* for each handler of RtcSession, then for the steps of the server.       *)
(***************************************************************************)
EXTENDS RtcServer, TLAPS

EndsOnce(s) == s.ends = IF s.state = "closed" THEN 1 ELSE 0

Sound(s) == s \in Session /\ Agrees(s) /\ Secured(s) /\ EndsOnce(s)

\* The session that a handler which closes may start from: in the middle of a
\* callback its DTLS engine may be ahead of it.
Open(s) ==
  /\ s \in Session /\ s.state # "closed" /\ s.ends = 0
  /\ s.srtp_ready /\ s.expected => s.cert = "match"
  /\ s.handshake_started => s.remote # None
  /\ s.remote # None => s.remote \in s.shown

LEMMA CapsAreNat == RxCap \in Nat /\ AgeCap \in Nat /\ MaxLag \in Nat
                    /\ IdrInterval \in Nat \ {0} /\ SrInterval \in Nat \ {0}
  BY SessionAssumption DEF RxCap, AgeCap

LEMMA EmptyIsSeq == ASSUME NEW S PROVE <<>> \in Seq(S)
  OBVIOUS

\* Two sessions that differ only in their clocks and in what was sent.
Same(t, s) ==
  /\ t.state = s.state /\ t.dtls = s.dtls /\ t.remote = s.remote
  /\ t.handshake_started = s.handshake_started /\ t.srtp_ready = s.srtp_ready
  /\ t.shown = s.shown /\ t.cert = s.cert /\ t.ends = s.ends
  /\ t.expected = s.expected

LEMMA SameSound ==
  ASSUME NEW s, NEW t, Sound(s), t \in Session, Same(t, s)
  PROVE  Sound(t) /\ t.state = s.state
  BY DEF Sound, Same, Agrees, Secured, EndsOnce

LEMMA NewSound == \A expected \in BOOLEAN : Sound(NewSession(expected))
  BY CapsAreNat DEF NewSession, Sound, Session, Agrees, Secured, EndsOnce,
                    States, DtlsStates, Certificates

\* Sound sessions that are not closed are open.
LEMMA SoundOpen ==
  ASSUME NEW s, Sound(s), s.state # "closed"
  PROVE  Open(s)
  BY DEF Sound, Open, Secured, EndsOnce

\* The session c is what is left of the session s once it is closed.
Ended(c, s) ==
  /\ c.state = "closed" /\ c.remote = s.remote /\ c.cert = s.cert
  /\ c.shown = s.shown /\ c.expected = s.expected
  /\ c.handshake_started = s.handshake_started
  /\ c.srtp_ready = s.srtp_ready

LEMMA EndedSound ==
  ASSUME NEW s, Open(s), NEW c \in Session, Ended(c, s), c.dtls = "closed",
         c.ends = 1
  PROVE  Sound(c) /\ c.state = "closed"
  BY DEF Open, Ended, Sound, Agrees, Secured, EndsOnce

\* rtc_session_close leaves a session sound that was ended once.
LEMMA CloseOpen ==
  ASSUME NEW s, Open(s)
  PROVE  Sound(Close(s)) /\ Close(s).state = "closed"
<1> DEFINE t == [s EXCEPT !.state = "closed"]
           u == DtlsClose(t)
           c == [u EXCEPT !.ends = @ + 1]
<1>1. t \in Session /\ Ended(t, s) /\ t.dtls = s.dtls /\ t.ends = 0
  BY DEF Open, Session, States, Ended
<1>2. u \in Session /\ Ended(u, s) /\ u.dtls = "closed" /\ u.ends = 0
  <2>1. CASE t.dtls = "closed"
    BY <1>1, <2>1 DEF DtlsClose
  <2>2. CASE t.dtls # "closed"
    <3> DEFINE v == [t EXCEPT !.dtls = "closed"]
    <3>1. v \in Session /\ Ended(v, s) /\ v.dtls = "closed" /\ v.ends = 0
      BY <1>1 DEF Session, DtlsStates, Ended
    <3>2. u = v
      BY <2>2, <3>1 DEF DtlsClose, CloseAgain, Ended
    <3> QED
      BY <3>1, <3>2
  <2> QED
    BY <2>1, <2>2
<1> HIDE DEF t, u
<1>3. c \in Session /\ Ended(c, s) /\ c.dtls = "closed" /\ c.ends = 1
  BY <1>2 DEF Session, Ended
<1>4. Close(s) = c
  BY DEF Open, Close, t, u
<1> HIDE DEF c
<1> QED
  BY <1>3, <1>4, EndedSound

LEMMA CloseSound ==
  ASSUME NEW s, Sound(s)
  PROVE  Sound(Close(s)) /\ Close(s).state = "closed"
  BY SoundOpen, CloseOpen DEF Close

LEMMA FailSound ==
  ASSUME NEW s, Open(s)
  PROVE  Sound(Fail(s))
<1> DEFINE t == [s EXCEPT !.dtls = "failed"]
<1>1. Open(t)
  BY DEF Open, Session, DtlsStates
<1> QED
  BY <1>1, CloseOpen DEF Fail

LEMMA PeerClosesSound ==
  ASSUME NEW s, Open(s)
  PROVE  Sound(PeerCloses(s))
<1> DEFINE t == [s EXCEPT !.dtls = "closed"]
           c == [t EXCEPT !.state = "closed", !.ends = @ + 1]
<1>1. /\ t \in Session /\ t.dtls = "closed"
      /\ t.state # "closed" /\ t.ends = 0
      /\ t.remote = s.remote /\ t.cert = s.cert /\ t.shown = s.shown
      /\ t.handshake_started = s.handshake_started
      /\ t.srtp_ready = s.srtp_ready /\ t.expected = s.expected
  BY DEF Open, Session, DtlsStates
<1>2. PeerCloses(s) = c
  BY <1>1 DEF Open, PeerCloses, CloseAgain
<1> HIDE DEF t
<1>3. c \in Session /\ Ended(c, s) /\ c.dtls = "closed" /\ c.ends = 1
  <2>1. t.ends + 1 = 1
    BY <1>1
  <2>2. c \in Session
    <3>1. t.ends + 1 \in Nat /\ "closed" \in States
      BY <2>1 DEF States
    <3> QED
      BY <1>1, <3>1, Zenon DEF Session
  <2>3. /\ c.state = "closed" /\ c.dtls = "closed" /\ c.ends = 1
        /\ c.remote = t.remote /\ c.cert = t.cert /\ c.shown = t.shown
        /\ c.handshake_started = t.handshake_started
        /\ c.srtp_ready = t.srtp_ready /\ c.expected = t.expected
    BY <1>1, <2>1 DEF Session
  <2> QED
    BY <1>1, <2>2, <2>3 DEF Ended
<1> HIDE DEF c
<1> QED
  BY <1>2, <1>3, EndedSound

LEMMA RequestIdrSound ==
  ASSUME NEW s, Sound(s)
  PROVE  Sound(RequestIdr(s)) /\ RequestIdr(s).state = s.state
<1> DEFINE t == [s EXCEPT !.idr = 0, !.asks = TRUE]
<1>0. 0 \in 0 .. IdrInterval
  BY CapsAreNat
<1>1. t \in Session /\ Same(t, s)
  <2>1. t \in Session
    BY <1>0 DEF Sound, Session
  <2>2. Same(t, s)
    BY DEF Sound, Session, Same
  <2> QED
    BY <2>1, <2>2
<1>2. Sound(t) /\ t.state = s.state
  BY <1>1, SameSound
<1>3. RequestIdr(s) \in {s, t}
  BY DEF RequestIdr
<1> HIDE DEF t
<1> QED
  BY <1>2, <1>3

\* The handshake of a peer whose address is known begins.
LEMMA StartSound ==
  ASSUME NEW s, Sound(s), s.remote # None, s.state # "closed"
  PROVE  Sound(Start(s)) /\ Open(Start(s)) /\ Start(s).handshake_started
         /\ Start(s).srtp_ready = s.srtp_ready
  BY DEF Start, Sound, Open, Session, Agrees, Secured, EndsOnce, States,
         DtlsStates

LEMMA ConnectSound ==
  ASSUME NEW s, Open(s), s.handshake_started, s.expected => s.cert = "match"
  PROVE  Sound(Connect(s))
<1> DEFINE t == [s EXCEPT !.dtls = "connected", !.srtp_ready = TRUE,
                          !.state = "streaming", !.sr = SrInterval]
<1>0. SrInterval \in -MaxLag .. SrInterval
  BY CapsAreNat
<1>1. t \in Session
  BY <1>0 DEF Open, Session, States, DtlsStates
<1>2. /\ t.dtls = "connected" /\ t.srtp_ready /\ t.state = "streaming"
      /\ t.ends = 0 /\ t.handshake_started
      /\ t.expected => t.cert = "match"
      /\ t.remote # None /\ t.remote \in t.shown
  BY DEF Open, Session
<1>3. Connect(s) = RequestIdr(t)
  BY DEF Connect
<1> HIDE DEF t
<1>4. Sound(t)
  BY <1>1, <1>2 DEF Sound, Agrees, Secured, EndsOnce
<1> QED
  BY <1>3, <1>4, RequestIdrSound

LEMMA FinishSound ==
  ASSUME NEW s, Open(s), s.handshake_started, ~s.srtp_ready,
         NEW cert \in Certificates
  PROVE  Sound(Finish(s, cert))
<1> DEFINE t == Presents(s, cert)
           c == IF s.expected THEN cert ELSE "other"
<1>0. c \in Certificates
  BY DEF Certificates
<1>1. Open(t) /\ t.handshake_started
  <2> HIDE DEF c
  <2>1. t = [s EXCEPT !.cert = c]
    BY DEF Presents, c
  <2> QED
    BY <1>0, <2>1 DEF Open, Session
<1>2. CASE t.expected => t.cert = "match"
  BY <1>1, <1>2, ConnectSound DEF Finish
<1>3. CASE ~(t.expected => t.cert = "match")
  BY <1>1, <1>3, FailSound DEF Finish
<1> QED
  BY <1>2, <1>3

LEMMA PumpSound ==
  ASSUME NEW s, Sound(s), s.remote # None, NEW ssl \in SslOutcomes
  PROVE  Sound(Pump(s, ssl)) /\ (s.state = "closed" => Pump(s, ssl) = s)
<1> DEFINE t == Start(s)
<1>1. CASE s.dtls \in {"closed", "failed"}
  BY <1>1 DEF Pump
<1>2. CASE s.dtls \notin {"closed", "failed"}
  <2>1. s.state # "closed"
    BY <1>2 DEF Sound, Agrees
  <2>2. Sound(t) /\ Open(t) /\ t.handshake_started
        /\ t.srtp_ready = s.srtp_ready
    BY <2>1, StartSound
  <2>3. Sound(Fail(t)) /\ Sound(PeerCloses(t))
    BY <2>2, FailSound, PeerClosesSound
  <2>4. ASSUME ssl \in Certificates, ~s.srtp_ready
        PROVE  Sound(Finish(t, ssl))
    BY <2>2, <2>4, FinishSound
  <2>5. \/ Pump(s, ssl) = Fail(t)
        \/ Pump(s, ssl) = PeerCloses(t)
        \/ ssl \in Certificates /\ ~s.srtp_ready /\ Pump(s, ssl) = Finish(t, ssl)
        \/ Pump(s, ssl) = t
    BY <1>2 DEF Pump
  <2> QED
    BY <2>1, <2>2, <2>3, <2>4, <2>5
<1> QED
  BY <1>1, <1>2

LEMMA OnRtcpSound ==
  ASSUME NEW s, Sound(s), NEW bye, NEW keyframe
  PROVE  Sound(OnRtcp(s, bye, keyframe))
  BY CloseSound, RequestIdrSound DEF OnRtcp

\* Only a request of one who knows the password moves the session.
LEMMA OnStunSound ==
  ASSUME NEW s, Sound(s), s.state # "closed", NEW m, NEW from \in Addresses
  PROVE  Sound(OnStun(s, m, from))
<1> DEFINE t == IF Shows(m) THEN [s EXCEPT !.shown = @ \cup {from}] ELSE s
           u == [t EXCEPT !.remote = from,
                          !.state = IF @ = "new" THEN "ice" ELSE @]
<1>1. /\ t \in Session /\ t.state = s.state /\ t.dtls = s.dtls
      /\ t.remote = s.remote /\ t.handshake_started = s.handshake_started
      /\ t.srtp_ready = s.srtp_ready /\ t.cert = s.cert /\ t.ends = s.ends
      /\ t.expected = s.expected
      /\ s.shown \subseteq t.shown
  BY DEF Sound, Session
<1>2. Shows(m) => from \in t.shown
  BY DEF Sound, Session
<1> HIDE DEF t
<1>3. Sound(t)
  BY <1>1 DEF Sound, Agrees, Secured, EndsOnce
<1>4. CASE Shows(m)
  <2>1. /\ u.remote = from /\ u.dtls = t.dtls /\ u.cert = t.cert
        /\ u.handshake_started = t.handshake_started
        /\ u.srtp_ready = t.srtp_ready /\ u.ends = t.ends
        /\ u.shown = t.shown /\ u.expected = t.expected
        /\ u.state = IF t.state = "new" THEN "ice" ELSE t.state
    BY <1>1 DEF Session
  <2>2. u \in Session
    BY <1>1 DEF Session, States
  <2>3. from # None /\ from \in u.shown
    BY <1>2, <1>4, <2>1, SessionAssumption
  <2> HIDE DEF u
  <2>4. Secured(u)
    BY <1>3, <2>1, <2>3 DEF Sound, Agrees, Secured
  <2>5. Agrees(u) /\ EndsOnce(u)
    <3>1. CASE t.state = "new"
      BY <1>3, <2>1, <2>3, <3>1 DEF Sound, Agrees, EndsOnce
    <3>2. CASE t.state # "new"
      BY <1>1, <1>3, <2>1, <3>2 DEF Sound, Agrees, EndsOnce
    <3> QED
      BY <3>1, <3>2
  <2>6. Sound(u)
    BY <2>2, <2>4, <2>5 DEF Sound
  <2>7. OnStun(s, m, from) \in {t, u}
    BY DEF OnStun, t, u
  <2> QED
    BY <1>3, <2>6, <2>7
<1>5. CASE ~Shows(m)
  <2>1. ~VerifyMi(m)
    BY <1>5 DEF Shows, VerifyMi, Found
  <2>2. OnStun(s, m, from) = t
    BY <2>1 DEF OnStun, t
  <2> QED
    BY <1>3, <2>2
<1> QED
  BY <1>4, <1>5

\* What a handler reads of a datagram is there.
LEMMA DatagramFacts ==
  ASSUME NEW d \in Datagrams
  PROVE  /\ Class(d.first) = "stun" => d.from \in Addresses
         /\ Class(d.first) = "dtls" => d.ssl \in SslOutcomes
  BY DEF Datagrams, Class

\* rtc_session_on_udp keeps a session sound, and a closed one closed.
LEMMA OnUdpSound ==
  ASSUME NEW s, Sound(s), NEW d \in Datagrams
  PROVE  Sound(OnUdp(s, d)) /\ (s.state = "closed" => OnUdp(s, d) = s)
<1> DEFINE t == [s EXCEPT !.rx = 0]
<1>0. 0 \in 0 .. RxCap
  BY CapsAreNat
<1>1. t \in Session
  BY <1>0 DEF Sound, Session
<1>2. Same(t, s)
  BY DEF Sound, Session, Same
<1>3. Sound(t) /\ t.state = s.state /\ t.remote = s.remote
  BY <1>1, <1>2, SameSound DEF Same
<1> HIDE DEF t
<1>4. CASE s.state = "closed"
  BY <1>4 DEF OnUdp
<1>5. CASE s.state # "closed"
  <2>1. OnUdp(s, d) = Handle(t, d)
    BY <1>5 DEF OnUdp, t
  <2>2. \/ /\ Class(d.first) = "stun"
           /\ Handle(t, d) = OnStun(t, d.message, d.from)
        \/ /\ Class(d.first) = "dtls" /\ t.remote # None
           /\ Handle(t, d) = Pump(t, d.ssl)
        \/ Handle(t, d) = OnRtcp(t, d.bye, d.keyframe)
        \/ Handle(t, d) = t
    BY DEF Handle
  <2> QED
    BY <1>3, <1>5, <2>1, <2>2, DatagramFacts, OnStunSound, PumpSound,
       OnRtcpSound
<1> QED
  BY <1>4, <1>5

LEMMA DtlsTickSound ==
  ASSUME NEW s, Sound(s), NEW ssl \in SslOutcomes
  PROVE  Sound(DtlsTick(s, ssl))
<1>1. ASSUME s.dtls = "handshaking" PROVE s.remote # None
  BY <1>1 DEF Sound, Agrees, Secured
<1> QED
  BY <1>1, PumpSound DEF DtlsTick

LEMMA ReportSound ==
  ASSUME NEW s, Sound(s), NEW l \in 0 .. MaxLag
  PROVE  Sound(Report(s, l))
<1> DEFINE t == [s EXCEPT !.sr = SrInterval - l]
<1>1. SrInterval - l \in -MaxLag .. SrInterval
  BY CapsAreNat
<1>2. t \in Session
  BY <1>1 DEF Sound, Session
<1>3. Same(t, s)
  BY DEF Sound, Session, Same
<1>4. Report(s, l) \in {s, t}
  BY DEF Report
<1> HIDE DEF t
<1> QED
  BY <1>2, <1>3, <1>4, SameSound

\* rtc_session_tick keeps a session sound, and a closed one closed.
LEMMA TickSound ==
  ASSUME NEW s, Sound(s), NEW l \in 0 .. MaxLag, NEW ssl \in SslOutcomes
  PROVE  Sound(Tick(s, l, ssl)) /\ (s.state = "closed" => Tick(s, l, ssl) = s)
<1>1. Tick(s, l, ssl) \in {s, Close(s), Report(DtlsTick(s, ssl), l)}
  BY DEF Tick
<1>2. s.state = "closed" => Tick(s, l, ssl) = s
  BY DEF Tick
<1> QED
  BY <1>1, <1>2, CloseSound, DtlsTickSound, ReportSound

LEMMA SendSound ==
  ASSUME NEW s, Sound(s), NEW key \in BOOLEAN
  PROVE  Sound(Send(s, key)) /\ Send(s, key).state = s.state
<1> DEFINE b == s.keyed \/ key
           t == [s EXCEPT !.keyed = b]
<1>0. b \in BOOLEAN
  OBVIOUS
<1>3. Send(s, key) \in {s, t}
  BY DEF Send
<1> HIDE DEF b
<1>1. t \in Session
  BY <1>0 DEF Sound, Session
<1>2. Same(t, s)
  BY DEF Sound, Session, Same
<1> HIDE DEF t
<1> QED
  BY <1>1, <1>2, <1>3, SameSound

LEMMA OlderSound ==
  ASSUME NEW s, Sound(s)
  PROVE  Sound(Older(s)) /\ Older(s).state = s.state
<1> DEFINE t == Older(s)
<1>0. s.rx \in 0 .. RxCap /\ s.age \in 0 .. AgeCap /\ s.idr \in 0 .. IdrInterval
      /\ s.sr \in -MaxLag .. SrInterval
  BY DEF Sound, Session
<1>1. /\ Lesser(s.rx + 1, RxCap) \in 0 .. RxCap
      /\ Lesser(s.age + 1, AgeCap) \in 0 .. AgeCap
      /\ Lesser(s.idr + 1, IdrInterval) \in 0 .. IdrInterval
  BY <1>0, CapsAreNat DEF Lesser
<1>2. (IF s.sr > -MaxLag THEN s.sr - 1 ELSE s.sr) \in -MaxLag .. SrInterval
  BY <1>0, CapsAreNat
<1>3. t \in Session
  BY <1>1, <1>2 DEF Sound, Session, Older
<1>4. Same(t, s)
  BY DEF Sound, Session, Same, Older
<1> HIDE DEF t
<1>5. Sound(t) /\ t.state = s.state
  BY <1>3, <1>4, SameSound
<1> QED
  BY <1>5 DEF t

-----------------------------------------------------------------------------
(* The server.                                                             *)

\* Part of the type invariant that the proof rests on.
TypeInv ==
  /\ slots \in [Slots -> Session \cup {None}]
  /\ cursor \in Slots /\ lag \in 0 .. MaxLag
  /\ ring \in Seq(BOOLEAN) /\ is_idr \in BOOLEAN

AllSound == \A i \in Taken : Sound(slots[i])

IInv ==
  /\ TypeInv
  /\ AllSound
  /\ endings \subseteq {1}
  /\ ActiveWhileWatched

LEMMA InitIInv == Init => IInv
<1> SUFFICES ASSUME Init PROVE IInv
  OBVIOUS
<1>1. 1 \in Slots
  BY ServerAssumption DEF Slots
<1>2. TypeInv
  <2>1. slots \in [Slots -> Session \cup {None}]
    BY DEF Init
  <2>2. ring \in Seq(BOOLEAN)
    BY EmptyIsSeq, Zenon DEF Init
  <2>3. lag \in 0 .. MaxLag
    BY CapsAreNat DEF Init
  <2>4. is_idr \in BOOLEAN
    BY Zenon DEF Init
  <2> QED
    BY <1>1, <2>1, <2>2, <2>3, <2>4 DEF Init, TypeInv
<1>3. Taken = {}
  BY DEF Init, Taken
<1> QED
  BY <1>2, <1>3 DEF IInv, AllSound, Init, ActiveWhileWatched, Live

\* What the ring holds stays of its kind, whatever that is.
LEMMA PushKeeps ==
  ASSUME NEW S, NEW u \in Seq(S), NEW b \in S
  PROVE  /\ Append(u, b) \in Seq(S)
         /\ u # <<>> => Tail(u) \in Seq(S) /\ Head(u) \in S
  OBVIOUS

\* A session is replaced by a sound one, and a closed one stays closed.
LEMMA BecomesKeeps ==
  ASSUME IInv, NEW i \in Taken, NEW s, Becomes(i, s), Sound(s),
         slots[i].state = "closed" => s.state = "closed"
  PROVE  /\ slots' \in [Slots -> Session \cup {None}]
         /\ AllSound'
         /\ Live' \subseteq Live
<1> DEFINE t == [s EXCEPT !.asks = FALSE]
<1>1. t \in Session
  BY DEF Sound, Session
<1>2. Same(t, s)
  BY DEF Sound, Session, Same
<1>3. Sound(t) /\ t.state = s.state
  BY <1>1, <1>2, SameSound
<1>4. slots' = [slots EXCEPT ![i] = t]
  BY DEF Becomes
<1> HIDE DEF t
<1>5. i \in Slots
  BY DEF Taken
<1>6. slots'[i] = t /\ \A j \in Slots \ {i} : slots'[j] = slots[j]
  BY <1>4, <1>5 DEF IInv, TypeInv
<1>7. slots' \in [Slots -> Session \cup {None}]
  BY <1>1, <1>4 DEF IInv, TypeInv
<1>8. Taken' \subseteq Taken
  BY <1>6 DEF Taken
<1>9. AllSound'
  BY <1>3, <1>5, <1>6, <1>8 DEF IInv, AllSound, Taken
<1>10. Live' \subseteq Live
  BY <1>3, <1>5, <1>6, <1>8 DEF Live, Taken
<1> QED
  BY <1>7, <1>9, <1>10

\* Each session is replaced by one in the same state (time, fan-out).
LEMMA MapKeeps ==
  ASSUME IInv, NEW f,
         \A i \in Taken : Sound(f[i]) /\ f[i].state = slots[i].state,
         slots' = [i \in Slots |-> IF i \in Taken THEN f[i] ELSE None]
  PROVE  /\ slots' \in [Slots -> Session \cup {None}]
         /\ AllSound'
         /\ Live' = Live
         /\ Taken' = Taken
<1>1. \A i \in Taken : f[i] \in Session /\ f[i] # None
  BY ServerAssumption DEF Sound
<1>2. \A i \in Slots : slots'[i] = IF i \in Taken THEN f[i] ELSE None
  OBVIOUS
<1>3. slots' \in [Slots -> Session \cup {None}]
  BY <1>1
<1>4. Taken' = Taken
  BY <1>1, <1>2 DEF Taken
<1>5. Live' = Live
  BY <1>2, <1>4 DEF Live, Taken
<1> QED
  BY <1>2, <1>3, <1>4, <1>5 DEF AllSound, Taken

\* Sessions are destroyed, each ended once.
LEMMA DestroyKeeps ==
  ASSUME IInv, NEW S \in SUBSET Taken, Destroy(S)
  PROVE  /\ slots' \in [Slots -> Session \cup {None}]
         /\ AllSound'
         /\ endings' \subseteq {1}
         /\ Taken' = Taken \ S
         /\ Live' = Live \ S
<1>1. \A i \in Slots : slots'[i] = IF i \in S THEN None ELSE slots[i]
  BY DEF Destroy
<1>2. slots' \in [Slots -> Session \cup {None}]
  BY DEF Destroy, IInv, TypeInv
<1>3. Taken' = Taken \ S
  BY <1>1 DEF Taken
<1>4. Live' = Live \ S
  BY <1>1, <1>3 DEF Live, Taken
<1>5. \A i \in S : Close(slots[i]).ends = 1
  <2> SUFFICES ASSUME NEW i \in S PROVE Close(slots[i]).ends = 1
    OBVIOUS
  <2>1. Sound(Close(slots[i])) /\ Close(slots[i]).state = "closed"
    BY CloseSound DEF IInv, AllSound
  <2> QED
    BY <2>1 DEF Sound, EndsOnce
<1>6. endings' \subseteq {1}
  BY <1>5 DEF Destroy, IInv
<1> QED
  BY <1>1, <1>2, <1>3, <1>4, <1>6 DEF IInv, AllSound, Taken

\* rtc_active follows the sessions while none is added and it is left alone.
LEMMA ActiveKeeps ==
  ASSUME IInv, Live' \subseteq Live, phase' # "top", rtc_active' = rtc_active
  PROVE  ActiveWhileWatched'
  BY DEF IInv, ActiveWhileWatched

\* Steps that leave the table, rtc_active and the history alone.
LEMMA FrameKeeps ==
  ASSUME IInv, UNCHANGED <<slots, rtc_active, endings>>,
         phase' # "top" \/ phase' = phase, TypeInv'
  PROVE  IInv'
<1>1. Taken' = Taken /\ Live' = Live
  BY DEF Taken, Live
<1> QED
  BY <1>1 DEF IInv, AllSound, ActiveWhileWatched

LEMMA NextIInv == IInv /\ [Next]_vars => IInv'
<1> SUFFICES ASSUME IInv, [Next]_vars PROVE IInv'
  OBVIOUS
<1> USE DEF loopVars, encoderVars
<1>0. TypeInv
  BY DEF IInv
<1>1. CASE Poll \/ PollHttp \/ OfferForces \/ UNCHANGED vars \/ Done
  BY <1>0, <1>1, FrameKeeps
     DEF Poll, PollHttp, OfferForces, vars, TypeInv, Done
<1>2. CASE StartTicks \/ FanDone
  <2>1. 1 \in Slots /\ 0 \in 0 .. MaxLag
    BY ServerAssumption, CapsAreNat DEF Slots
  <2> QED
    BY <1>0, <1>2, <2>1, FrameKeeps DEF StartTicks, FanDone, TypeInv
<1>3. ASSUME Onward PROVE cursor' \in Slots /\ lag' \in 0 .. MaxLag /\ phase' # "top"
  <2>1. 1 \in Slots /\ 0 \in 0 .. MaxLag
    BY ServerAssumption, CapsAreNat DEF Slots
  <2>2. cursor # MaxSessions => cursor + 1 \in Slots
    BY <1>0, ServerAssumption DEF TypeInv, Slots
  <2> QED
    BY <1>0, <1>3, <2>1, <2>2 DEF Onward, TypeInv
<1>4. CASE TickNothing
  BY <1>0, <1>3, <1>4, FrameKeeps DEF TickNothing, TypeInv
<1>5. ASSUME NEW ssl \in SslOutcomes, TickSession(ssl) PROVE IInv'
  <2>1. cursor \in Taken /\ Sound(slots[cursor]) /\ lag \in 0 .. MaxLag
    BY <1>0, <1>5 DEF TickSession, IInv, AllSound, TypeInv
  <2>2. /\ Sound(Tick(slots[cursor], lag, ssl))
        /\ slots[cursor].state = "closed"
             => Tick(slots[cursor], lag, ssl).state = "closed"
    BY <2>1, TickSound
  <2>3. /\ slots' \in [Slots -> Session \cup {None}]
        /\ AllSound' /\ Live' \subseteq Live
    BY <1>5, <2>1, <2>2, BecomesKeeps DEF TickSession
  <2>4. ActiveWhileWatched'
    BY <1>3, <1>5, <2>3, ActiveKeeps DEF TickSession
  <2> QED
    BY <1>0, <1>3, <1>5, <2>3, <2>4 DEF TickSession, IInv, TypeInv
<1>6. ASSUME NEW i \in Slots, NEW d \in Datagrams, Receive(i, d) PROVE IInv'
  <2>1. i \in Taken /\ Sound(slots[i])
    BY <1>6 DEF Receive, IInv, AllSound, Live
  <2>2. /\ Sound(OnUdp(slots[i], d))
        /\ slots[i].state = "closed" => OnUdp(slots[i], d).state = "closed"
    BY <2>1, OnUdpSound
  <2>3. /\ slots' \in [Slots -> Session \cup {None}]
        /\ AllSound' /\ Live' \subseteq Live
    BY <1>6, <2>1, <2>2, BecomesKeeps DEF Receive
  <2>4. ActiveWhileWatched'
    BY <1>6, <2>3, ActiveKeeps DEF Receive
  <2> QED
    BY <1>0, <1>6, <2>3, <2>4 DEF Receive, IInv, TypeInv
<1>7. ASSUME NEW i \in Slots, CloseRequest(i) PROVE IInv'
  <2>1. i \in Taken /\ Sound(slots[i])
    BY <1>7 DEF CloseRequest, IInv, AllSound
  <2>2. Sound(Close(slots[i])) /\ Close(slots[i]).state = "closed"
    BY <2>1, CloseSound
  <2>3. /\ slots' \in [Slots -> Session \cup {None}]
        /\ AllSound' /\ Live' \subseteq Live
    BY <1>7, <2>1, <2>2, BecomesKeeps DEF CloseRequest
  <2>4. ActiveWhileWatched'
    BY <1>7, <2>3, ActiveKeeps DEF CloseRequest
  <2> QED
    BY <1>0, <1>7, <2>3, <2>4 DEF CloseRequest, IInv, TypeInv
<1>8. ASSUME NEW i \in Slots, Offer(i) PROVE IInv'
  <2>0. PICK expected \in BOOLEAN :
          slots' = [slots EXCEPT ![i] = NewSession(expected)]
    BY <1>8 DEF Offer
  <2> DEFINE s == NewSession(expected)
  <2>1. Sound(s) /\ s \in Session
    BY NewSound DEF Sound
  <2> HIDE DEF s
  <2>2. \A j \in Slots : slots'[j] = IF j = i THEN s ELSE slots[j]
    BY <1>0, <2>0 DEF TypeInv, s
  <2>3. AllSound'
    BY <2>1, <2>2 DEF IInv, AllSound, Taken
  <2>4. slots' \in [Slots -> Session \cup {None}]
    BY <1>0, <2>0, <2>1 DEF TypeInv, s
  <2> QED
    BY <1>0, <1>8, <2>3, <2>4
       DEF Offer, IInv, TypeInv, ActiveWhileWatched
<1>9. CASE OfferFails
  <2>1. \A expected \in BOOLEAN : Close(NewSession(expected)).ends = 1
    <3>1. \A expected \in BOOLEAN : /\ Sound(Close(NewSession(expected)))
                                    /\ Close(NewSession(expected)).state = "closed"
      BY NewSound, CloseSound
    <3> QED
      BY <3>1 DEF Sound, EndsOnce
  <2>2. Taken' = Taken /\ Live' = Live
    BY <1>9 DEF OfferFails, Taken, Live
  <2> QED
    BY <1>0, <1>9, <2>1, <2>2
       DEF OfferFails, IInv, TypeInv, AllSound, ActiveWhileWatched
<1>10. CASE FanOut
  <2> DEFINE f == [i \in Slots |-> Send(slots[i], Head(ring))]
  <2>1. Head(ring) \in BOOLEAN /\ ring' \in Seq(BOOLEAN)
    BY <1>0, <1>10 DEF FanOut, TypeInv
  <2>2. \A i \in Taken : Sound(f[i]) /\ f[i].state = slots[i].state
    BY <2>1, SendSound DEF IInv, AllSound, Taken
  <2>3. slots' = [i \in Slots |-> IF i \in Taken THEN f[i] ELSE None]
    BY <1>10 DEF FanOut
  <2> HIDE DEF f
  <2>4. /\ slots' \in [Slots -> Session \cup {None}]
        /\ AllSound' /\ Live' = Live
    BY <2>2, <2>3, MapKeeps
  <2>5. ActiveWhileWatched'
    BY <1>10, <2>4, ActiveKeeps DEF FanOut
  <2> QED
    BY <1>0, <1>10, <2>1, <2>4, <2>5 DEF FanOut, IInv, TypeInv
<1>11. CASE Reap
  <2>1. Taken \ Live \in SUBSET Taken /\ Live \subseteq Taken
    BY DEF Live
  <2>2. /\ slots' \in [Slots -> Session \cup {None}]
        /\ AllSound' /\ endings' \subseteq {1}
        /\ Taken' = Live /\ Live' = Live
    BY <1>11, <2>1, DestroyKeeps DEF Reap
  <2> QED
    BY <1>0, <1>11, <2>2 DEF Reap, IInv, TypeInv, ActiveWhileWatched
<1>12. CASE Shutdown
  <2>1. Taken \in SUBSET Taken /\ Live \subseteq Taken
    BY DEF Live
  <2>2. /\ slots' \in [Slots -> Session \cup {None}]
        /\ AllSound' /\ endings' \subseteq {1}
        /\ Taken' = {} /\ Live' = {}
    BY <1>12, <2>1, DestroyKeeps DEF Shutdown
  <2> QED
    BY <1>0, <1>12, <2>2 DEF Shutdown, IInv, TypeInv, ActiveWhileWatched
<1>13. CASE Advance
  <2> DEFINE f == [i \in Slots |-> Older(slots[i])]
  <2>1. \A i \in Taken : Sound(f[i]) /\ f[i].state = slots[i].state
    BY OlderSound DEF IInv, AllSound, Taken
  <2>2. slots' = [i \in Slots |-> IF i \in Taken THEN f[i] ELSE None]
    BY <1>13 DEF Advance
  <2> HIDE DEF f
  <2>3. /\ slots' \in [Slots -> Session \cup {None}]
        /\ AllSound' /\ Live' = Live /\ Taken' = Taken
    BY <2>1, <2>2, MapKeeps
  <2>4. lag' \in 0 .. MaxLag
    BY <1>0, <1>13, CapsAreNat DEF Advance, TypeInv
  <2> QED
    BY <1>0, <1>13, <2>3, <2>4 DEF Advance, IInv, TypeInv, ActiveWhileWatched
<1>14. CASE EncoderTakes \/ EncoderExchanges \/ EncoderClears
  BY <1>0, <1>14, FrameKeeps
     DEF EncoderTakes, EncoderExchanges, EncoderClears, TypeInv
<1>15. ASSUME NEW key \in BOOLEAN, EncoderCodes(key) PROVE IInv'
  BY <1>0, <1>15, FrameKeeps DEF EncoderCodes, TypeInv
<1>16. CASE EncoderPushes
  <2>0. ring \in Seq(BOOLEAN) /\ is_idr \in BOOLEAN
    BY <1>0 DEF TypeInv
  <2>1. ASSUME Len(ring) < RingSlots PROVE ring' \in Seq(BOOLEAN)
    <3>1. ring' = Append(ring, is_idr)
      BY <1>16, <2>1 DEF EncoderPushes
    <3> QED
      BY <2>0, <3>1, PushKeeps, Zenon
  <2>2. ASSUME ~(Len(ring) < RingSlots) PROVE ring' \in Seq(BOOLEAN)
    <3>1. ring' = Append(Tail(ring), is_idr)
      BY <1>16, <2>2 DEF EncoderPushes
    <3>2. ring # <<>>
      <4>1. ring = <<>> => Len(ring) = 0
        OBVIOUS
      <4>2. 0 < RingSlots
        BY ServerAssumption
      <4> QED
        BY <2>2, <4>1, <4>2
    <3>3. Tail(ring) \in Seq(BOOLEAN)
      BY <2>0, <3>2, PushKeeps, Zenon
    <3> QED
      BY <2>0, <3>1, <3>3, PushKeeps, Zenon
  <2>3. ring' \in Seq(BOOLEAN)
    BY <2>1, <2>2
  <2> QED
    BY <1>0, <1>16, <2>3, FrameKeeps DEF EncoderPushes, TypeInv
<1> QED
  BY <1>1, <1>2, <1>4, <1>5, <1>6, <1>7, <1>8, <1>9, <1>10, <1>11, <1>12,
     <1>13, <1>14, <1>15, <1>16
     DEF Next, Loop, Outside, Encoder

\* The invariant in every state: each session is sound, each one freed was
\* ended once, and rtc_active follows the table.
THEOREM SessionsSound == Spec => []IInv
<1> QED
  BY InitIInv, NextIInv, PTL DEF Spec

\* A session and its DTLS engine agree on their states, through every chain
\* of callbacks.
THEOREM AlwaysAgree == Spec => []StatesAgree
<1>1. IInv => StatesAgree
  BY DEF IInv, AllSound, Sound, StatesAgree
<1> QED
  BY <1>1, SessionsSound, PTL

\* Media is only sent to an address that has shown the password, under keys made
\* with the owner of the certificate in the offer, unless the offer's fingerprint
\* was empty (derive_srtp_keys, rtc_session_on_udp).
THEOREM AlwaysSecured == Spec => []MediaSecured
<1>1. IInv => MediaSecured
  BY DEF IInv, AllSound, Sound, MediaSecured
<1> QED
  BY <1>1, SessionsSound, PTL

\* on_closed is called once, however a session ends.
THEOREM EndedOnce == Spec => []ClosedOnce
<1>1. IInv => ClosedOnce
  BY DEF IInv, AllSound, Sound, EndsOnce, ClosedOnce, Live
<1> QED
  BY <1>1, SessionsSound, PTL

\* The encoder works while a viewer is there, and a round of the loop leaves
\* neither closed sessions nor a busy encoder without viewers behind.
THEOREM EncoderFollows == Spec => []ActiveWhileWatched
<1>1. IInv => ActiveWhileWatched
  BY DEF IInv
<1> QED
  BY <1>1, SessionsSound, PTL

-----------------------------------------------------------------------------
(* Keyframes for fresh viewers, and the idle timer.                        *)

\* Before it streams a session has asked for no keyframe, so that the limit
\* on how often it may ask does not silence its first request.
Unasked(s) == s.state \in {"new", "ice", "dtls"} => s.idr = IdrInterval

\* What a handler makes of session s: it takes down no datagram, and a viewer
\* that begins to stream asks for a keyframe.
Serves(t, s) ==
  /\ t.state = "closed" \/ t.rx = s.rx
  /\ Unasked(t)
  /\ t.state = "streaming" =>
       t.asks \/ (s.state = "streaming" /\ t.keyed = s.keyed)

LEMMA ServesItself ==
  ASSUME NEW s, Unasked(s)
  PROVE  Serves(s, s)
BY DEF Serves

LEMMA ClosedServes ==
  ASSUME NEW s, NEW t, t.state = "closed"
  PROVE  Serves(t, s)
BY DEF Serves, Unasked

LEMMA FailCloses ==
  ASSUME NEW s, Open(s)
  PROVE  Fail(s).state = "closed" /\ PeerCloses(s).state = "closed"
<1>1. Open([s EXCEPT !.dtls = "failed"])
  BY DEF Open, Session, DtlsStates
<1>2. Fail(s).state = "closed"
  BY <1>1, CloseOpen DEF Fail
<1> DEFINE t == [s EXCEPT !.dtls = "closed"]
<1>3. t \in Session /\ t.state # "closed"
  BY DEF Open, Session, DtlsStates
<1>4. PeerCloses(s) = [t EXCEPT !.state = "closed", !.ends = @ + 1]
  BY <1>3 DEF PeerCloses, CloseAgain
<1> HIDE DEF t
<1>5. [t EXCEPT !.state = "closed", !.ends = @ + 1].state = "closed"
  BY <1>3 DEF Session
<1> QED
  BY <1>2, <1>4, <1>5

LEMMA RequestIdrKeeps ==
  ASSUME NEW s \in Session
  PROVE  /\ RequestIdr(s).state = s.state /\ RequestIdr(s).rx = s.rx
         /\ RequestIdr(s).keyed = s.keyed
         /\ s.idr = IdrInterval => RequestIdr(s).asks
<1>1. IdrInterval \in Int
  BY CapsAreNat
<1> QED
  BY <1>1 DEF RequestIdr, Session

\* dtls_on_connected: the request is made.
LEMMA ConnectServes ==
  ASSUME NEW s \in Session, s.idr = IdrInterval
  PROVE  Serves(Connect(s), s)
<1> DEFINE t == [s EXCEPT !.dtls = "connected", !.srtp_ready = TRUE,
                          !.state = "streaming", !.sr = SrInterval]
<1>0. SrInterval \in -MaxLag .. SrInterval
  BY CapsAreNat
<1>1. t \in Session
  BY <1>0 DEF Session, States, DtlsStates
<1>2. t.state = "streaming" /\ t.rx = s.rx /\ t.idr = IdrInterval
  BY DEF Session
<1>3. Connect(s) = RequestIdr(t)
  BY DEF Connect
<1> HIDE DEF t
<1> QED
  BY <1>1, <1>2, <1>3, RequestIdrKeeps DEF Serves, Unasked

LEMMA FinishServes ==
  ASSUME NEW s, Open(s), ~s.srtp_ready, s.idr = IdrInterval,
         NEW cert \in Certificates
  PROVE  Serves(Finish(s, cert), s)
<1> DEFINE t == Presents(s, cert)
           c == IF s.expected THEN cert ELSE "other"
<1>0. c \in Certificates
  BY DEF Certificates
<1>1. Open(t) /\ t \in Session /\ t.idr = IdrInterval /\ t.rx = s.rx
      /\ t.state = s.state /\ t.keyed = s.keyed
  <2> HIDE DEF c
  <2>1. t = [s EXCEPT !.cert = c]
    BY DEF Presents, c
  <2> QED
    BY <1>0, <2>1 DEF Open, Session
<1>2. CASE t.expected => t.cert = "match"
  BY <1>1, <1>2, ConnectServes DEF Finish, Serves
<1>3. CASE ~(t.expected => t.cert = "match")
  BY <1>1, <1>3, FailCloses, ClosedServes DEF Finish
<1> QED
  BY <1>2, <1>3

\* Until it is secured a sound session has made no request.
LEMMA StartServes ==
  ASSUME NEW s, Sound(s), Unasked(s), s.state # "closed"
  PROVE  /\ Serves(Start(s), s)
         /\ Start(s).rx = s.rx /\ Start(s).idr = s.idr
         /\ Start(s).state = s.state \/ s.state # "streaming"
         /\ Start(s).keyed = s.keyed
         /\ ~s.srtp_ready => s.idr = IdrInterval
<1>1. s \in Session /\ Agrees(s) /\ Secured(s)
  BY DEF Sound
<1>2. ~s.handshake_started => s.state \in {"new", "ice"}
  BY <1>1 DEF Agrees, Session, States, DtlsStates
<1>3. ~s.srtp_ready => s.state \in {"new", "ice", "dtls"}
  BY <1>1 DEF Secured, Session, States
<1>4. CASE s.handshake_started
  BY <1>3, <1>4 DEF Start, Serves, Unasked
<1>5. CASE ~s.handshake_started
  <2>1. /\ Start(s).state = "dtls" /\ Start(s).rx = s.rx
        /\ Start(s).idr = s.idr /\ Start(s).keyed = s.keyed
    BY <1>1, <1>5 DEF Start, Session
  <2> QED
    BY <1>2, <1>3, <1>5, <2>1 DEF Serves, Unasked
<1> QED
  BY <1>4, <1>5

LEMMA PumpServes ==
  ASSUME NEW s, Sound(s), Unasked(s), s.remote # None, NEW ssl \in SslOutcomes
  PROVE  Serves(Pump(s, ssl), s)
<1> DEFINE t == Start(s)
<1>1. CASE s.dtls \in {"closed", "failed"}
  BY <1>1, ServesItself DEF Pump
<1>2. CASE s.dtls \notin {"closed", "failed"}
  <2>1. s.state # "closed"
    BY <1>2 DEF Sound, Agrees
  <2>2. Open(t) /\ t.srtp_ready = s.srtp_ready
    BY <2>1, StartSound
  <2>3. /\ Serves(t, s) /\ t.rx = s.rx /\ t.idr = s.idr /\ t.keyed = s.keyed
        /\ t.state = s.state \/ s.state # "streaming"
        /\ ~s.srtp_ready => s.idr = IdrInterval
    BY <2>1, StartServes
  <2>4. Serves(Fail(t), s) /\ Serves(PeerCloses(t), s)
    BY <2>2, FailCloses, ClosedServes
  <2>5. ASSUME ssl \in Certificates, ~s.srtp_ready
        PROVE  Serves(Finish(t, ssl), s)
    <3>1. Serves(Finish(t, ssl), t)
      BY <2>2, <2>3, <2>5, FinishServes
    <3>2. s.state # "streaming"
      BY <2>5 DEF Sound, Secured
    <3>3. t.state # "streaming"
      BY <2>1, <3>2 DEF Start, Sound, Session
    <3> QED
      BY <2>3, <3>1, <3>3 DEF Serves
  <2>6. \/ Pump(s, ssl) = Fail(t)
        \/ Pump(s, ssl) = PeerCloses(t)
        \/ ssl \in Certificates /\ ~s.srtp_ready /\ Pump(s, ssl) = Finish(t, ssl)
        \/ Pump(s, ssl) = t
    BY <1>2 DEF Pump
  <2> QED
    BY <2>3, <2>4, <2>5, <2>6
<1> QED
  BY <1>1, <1>2

LEMMA OnRtcpServes ==
  ASSUME NEW s, Sound(s), s.state = "streaming", NEW bye, NEW keyframe
  PROVE  Serves(OnRtcp(s, bye, keyframe), s)
<1>1. Serves(s, s) /\ Serves(Close(s), s)
  BY CloseSound, ClosedServes, ServesItself DEF Unasked
<1>2. Serves(RequestIdr(s), s)
  BY RequestIdrKeeps DEF Sound, Serves, Unasked
<1>3. OnRtcp(s, bye, keyframe) \in {s, Close(s), RequestIdr(s)}
  BY DEF OnRtcp
<1> QED
  BY <1>1, <1>2, <1>3

LEMMA OnStunServes ==
  ASSUME NEW s \in Session, Unasked(s), NEW m, NEW from
  PROVE  Serves(OnStun(s, m, from), s)
<1> DEFINE t == OnStun(s, m, from)
<1>1. /\ t.rx = s.rx /\ t.idr = s.idr /\ t.keyed = s.keyed
      /\ t.state \in {s.state, IF s.state = "new" THEN "ice" ELSE s.state}
  BY DEF OnStun, Session
<1> HIDE DEF t
<1>2. Serves(t, s)
  BY <1>1 DEF Serves, Unasked
<1> QED
  BY <1>2 DEF t

\* rtc_session_on_udp restarts the idle timer of a session that goes on.
LEMMA OnUdpServes ==
  ASSUME NEW s, Sound(s), Unasked(s), s.state # "closed", NEW d \in Datagrams
  PROVE  Serves(OnUdp(s, d), [s EXCEPT !.rx = 0])
<1> DEFINE t == [s EXCEPT !.rx = 0]
<1>0. 0 \in 0 .. RxCap
  BY CapsAreNat
<1>1. t \in Session /\ Same(t, s) /\ t.idr = s.idr
  <2>1. t \in Session
    BY <1>0 DEF Sound, Session
  <2>2. Same(t, s) /\ t.idr = s.idr
    BY DEF Sound, Session, Same
  <2> QED
    BY <2>1, <2>2
<1>2. Sound(t) /\ t.state = s.state /\ t.remote = s.remote /\ Unasked(t)
  BY <1>1, SameSound DEF Same, Unasked
<1>3. OnUdp(s, d) = Handle(t, d)
  BY DEF OnUdp
<1> HIDE DEF t
<1>4. \/ Handle(t, d) = OnStun(t, d.message, d.from)
      \/ /\ Class(d.first) = "dtls" /\ t.remote # None
         /\ Handle(t, d) = Pump(t, d.ssl)
      \/ /\ t.state = "streaming"
         /\ Handle(t, d) = OnRtcp(t, d.bye, d.keyframe)
      \/ Handle(t, d) = t
  BY DEF Handle
<1>5. Serves(Handle(t, d), t)
  BY <1>1, <1>2, <1>4, DatagramFacts, OnStunServes, PumpServes, OnRtcpServes,
     ServesItself
<1> QED
  BY <1>3, <1>5 DEF t

LEMMA DtlsTickServes ==
  ASSUME NEW s, Sound(s), Unasked(s), NEW ssl \in SslOutcomes
  PROVE  Serves(DtlsTick(s, ssl), s)
<1>1. ASSUME s.dtls = "handshaking" PROVE s.remote # None
  BY <1>1 DEF Sound, Agrees, Secured
<1> QED
  BY <1>1, PumpServes, ServesItself DEF DtlsTick

LEMMA TickServes ==
  ASSUME NEW s, Sound(s), Unasked(s), NEW l \in 0 .. MaxLag,
         NEW ssl \in SslOutcomes
  PROVE  Serves(Tick(s, l, ssl), s)
<1> DEFINE t == DtlsTick(s, ssl)
           u == [t EXCEPT !.sr = SrInterval - l]
<1>1. t \in Session /\ Serves(t, s)
  BY DtlsTickSound, DtlsTickServes DEF Sound
<1> HIDE DEF t
<1>2. /\ u.state = t.state /\ u.rx = t.rx /\ u.idr = t.idr
      /\ u.keyed = t.keyed /\ u.asks = t.asks
  BY <1>1 DEF Session
<1> HIDE DEF u
<1>3. Serves(u, s)
  BY <1>1, <1>2 DEF Serves, Unasked
<1>4. Report(t, l) \in {t, u}
  BY DEF Report, u
<1>5. Tick(s, l, ssl) \in {s, Close(s), Report(t, l)}
  BY DEF Tick, t
<1>6. Serves(Close(s), s) /\ Serves(s, s)
  BY CloseSound, ClosedServes, ServesItself
<1> QED
  BY <1>1, <1>3, <1>4, <1>5, <1>6

\* What a tick closes, of the sessions with nothing else to wait for, is idle.
LEMMA TickClosesIdle ==
  ASSUME NEW s, Sound(s), s.state \in {"new", "streaming"},
         NEW l \in 0 .. MaxLag, NEW ssl, Tick(s, l, ssl).state = "closed"
  PROVE  s.rx > IdleTimeout
<1>1. s.rx \in Nat /\ IdleTimeout \in Nat /\ l \in Nat
  BY CapsAreNat, SessionAssumption DEF Sound, Session
<1>2. DtlsTick(s, ssl) = s
  BY DEF DtlsTick, Sound, Agrees
<1>3. Report(s, l).state = s.state
  BY DEF Report, Sound, Session
<1>4. Idle(s, l)
  BY <1>2, <1>3 DEF Tick, NoDtls
<1> QED
  BY <1>1, <1>4 DEF Idle, AgeAt

LEMMA SendKeeps ==
  ASSUME NEW s \in Session, NEW key \in BOOLEAN
  PROVE  /\ Send(s, key).rx = s.rx /\ Send(s, key).idr = s.idr
         /\ Send(s, key).state = s.state
         /\ s.state = "streaming" /\ ~Send(s, key).keyed => ~s.keyed /\ ~key
<1> DEFINE b == s.keyed \/ key
           t == [s EXCEPT !.keyed = b]
<1>1. Send(s, key) = IF s.state = "streaming" THEN t ELSE s
  BY DEF Send
<1> HIDE DEF b
<1>2. t.rx = s.rx /\ t.idr = s.idr /\ t.state = s.state /\ t.keyed = b
  BY DEF Session
<1> HIDE DEF t
<1>3. ~b => ~s.keyed /\ ~key
  BY Zenon DEF b
<1> QED
  BY <1>1, <1>2, <1>3

LEMMA OlderKeeps ==
  ASSUME NEW s \in Session
  PROVE  /\ Older(s).state = s.state /\ Older(s).keyed = s.keyed
         /\ s.idr = IdrInterval => Older(s).idr = IdrInterval
         /\ Older(s).rx = Lesser(s.rx + 1, RxCap)
<1>1. IdrInterval \in Nat /\ s.idr \in Nat
  BY CapsAreNat DEF Session
<1> QED
  BY <1>1 DEF Older, Lesser, Session

\* A keyframe waits in the ring u.
Holds(u) == \E k \in DOMAIN u : u[k]

LEMMA TailElements ==
  ASSUME NEW S, NEW u \in Seq(S), u # <<>>
  PROVE  /\ u[1] = Head(u)
         /\ \A k \in DOMAIN u :
              k = 1 \/ (k - 1 \in DOMAIN Tail(u) /\ Tail(u)[k - 1] = u[k])
  OBVIOUS

LEMMA AppendElements ==
  ASSUME NEW S, NEW u \in Seq(S), NEW b \in S
  PROVE  /\ \A k \in DOMAIN u : k \in DOMAIN Append(u, b)
                                /\ Append(u, b)[k] = u[k]
         /\ Len(u) + 1 \in DOMAIN Append(u, b)
         /\ Append(u, b)[Len(u) + 1] = b
  OBVIOUS

LEMMA TailHolds ==
  ASSUME NEW u \in Seq(BOOLEAN), u # <<>>, Holds(u)
  PROVE  Head(u) \/ Holds(Tail(u))
<1>1. PICK k \in DOMAIN u : u[k]
  BY DEF Holds
<1>2. u[1] = Head(u) /\ (k = 1 \/ (k - 1 \in DOMAIN Tail(u)
                                   /\ Tail(u)[k - 1] = u[k]))
  BY TailElements, Zenon
<1> QED
  BY <1>1, <1>2, Zenon DEF Holds

LEMMA AppendHolds ==
  ASSUME NEW u \in Seq(BOOLEAN), NEW b \in BOOLEAN, Holds(u) \/ b
  PROVE  Holds(Append(u, b))
<1> DEFINE v == Append(u, b)
<1>1. /\ \A k \in DOMAIN u : k \in DOMAIN v /\ v[k] = u[k]
      /\ Len(u) + 1 \in DOMAIN v
      /\ v[Len(u) + 1] = b
  <2> HIDE DEF v
  <2>1. \A S : u \in Seq(S) /\ b \in S =>
          /\ \A k \in DOMAIN u : k \in DOMAIN Append(u, b)
                                 /\ Append(u, b)[k] = u[k]
          /\ Len(u) + 1 \in DOMAIN Append(u, b)
          /\ Append(u, b)[Len(u) + 1] = b
    BY AppendElements
  <2> QED
    BY <2>1, Zenon DEF v
<1> HIDE DEF v
<1>2. ASSUME b PROVE Holds(v)
  BY <1>1, <1>2, Zenon DEF Holds
<1>3. ASSUME Holds(u) PROVE Holds(v)
  BY <1>1, <1>3, Zenon DEF Holds
<1>4. Holds(v)
  BY <1>2, <1>3, Zenon
<1> QED
  BY <1>4 DEF v

\* No viewer that is there has been silent for longer than `quiet' says, nor
\* used up its first request.
Waits == \A i \in Live : Unasked(slots[i]) /\ slots[i].rx <= quiet[i]

\* A viewer to whom a keyframe is owed.
Unserved(i) == i \in Taken /\ slots[i].state = "streaming" /\ ~slots[i].keyed

ServeInv ==
  /\ IInv
  /\ quiet \in [Slots -> Nat]
  /\ Waits
  /\ encoder = "clear" => is_idr
  /\ KeyframeOwed

\* Steps that make no viewer owed a keyframe, and lose none on its way.
LEMMA OwedKeeps ==
  ASSUME KeyframeOwed, \A i \in Slots : Unserved(i)' => Unserved(i),
         overrun => overrun', Coming => Coming' \/ overrun'
  PROVE  KeyframeOwed'
BY DEF KeyframeOwed, Unserved, Taken

\* Steps that leave the table alone.
LEMMA TableKeeps ==
  ASSUME ServeInv, UNCHANGED <<slots, quiet>>, IInv',
         overrun => overrun', Coming => Coming' \/ overrun',
         encoder' = "clear" => is_idr'
  PROVE  ServeInv'
<1>1. Taken' = Taken /\ Live' = Live
  BY DEF Taken, Live
<1>2. \A i \in Slots : Unserved(i)' => Unserved(i)
  BY <1>1 DEF Unserved
<1>3. KeyframeOwed'
  BY <1>2, OwedKeeps DEF ServeInv
<1>4. Waits'
  BY <1>1 DEF ServeInv, Waits, Unasked
<1> QED
  BY <1>3, <1>4 DEF ServeInv

\* A handler of session i serves it.
LEMMA BecomesServes ==
  ASSUME ServeInv, NEW i \in Taken, NEW u \in Session, NEW s,
         Becomes(i, u), Serves(u, s),
         s.state = slots[i].state, s.keyed = slots[i].keyed,
         quiet' \in [Slots -> Nat], u.state = "closed" \/ s.rx <= quiet'[i],
         \A j \in Slots \ {i} : quiet'[j] = quiet[j],
         UNCHANGED <<ring, encoderVars, overrun>>, IInv'
  PROVE  ServeInv'
<1> DEFINE t == [u EXCEPT !.asks = FALSE]
<1>1. /\ t.state = u.state /\ t.rx = u.rx /\ t.keyed = u.keyed
      /\ t.idr = u.idr
  BY DEF Session
<1>2. slots' = [slots EXCEPT ![i] = t] /\ force_idr' = (force_idr \/ u.asks)
  BY DEF Becomes
<1> HIDE DEF t
<1>3. i \in Slots /\ slots'[i] = t /\ \A j \in Slots \ {i} : slots'[j] = slots[j]
  BY <1>2 DEF ServeInv, IInv, TypeInv, Taken
<1>4. Waits'
  <2> SUFFICES ASSUME NEW j \in Slots, slots'[j] # None,
                      slots'[j].state # "closed"
               PROVE  Unasked(slots'[j]) /\ slots'[j].rx <= quiet'[j]
    BY DEF Waits, Live, Taken, Unasked
  <2>1. CASE j = i
    BY <1>1, <1>3, <2>1 DEF Serves, Unasked
  <2>2. CASE j # i
    BY <1>3, <2>2 DEF ServeInv, Waits, Live, Taken
  <2> QED
    BY <2>1, <2>2
<1>5. force_idr => force_idr'
  BY <1>2, Zenon
<1>6. Coming => Coming'
  BY <1>5, Zenon DEF Coming, encoderVars
<1>7. CASE u.asks
  <2>1. Coming'
    BY <1>2, <1>7, Zenon DEF Coming
  <2> QED
    BY <1>4, <2>1 DEF ServeInv, KeyframeOwed, encoderVars
<1>8. CASE ~u.asks
  <2>1. ASSUME NEW j \in Slots, Unserved(j)' PROVE Unserved(j)
    <3>1. CASE j = i
      BY <1>1, <1>3, <1>8, <2>1, <3>1 DEF Unserved, Serves, Taken
    <3>2. CASE j # i
      BY <1>3, <2>1, <3>2 DEF Unserved, Taken
    <3> QED
      BY <3>1, <3>2
  <2>2. KeyframeOwed'
    BY <1>6, <2>1, OwedKeeps DEF ServeInv
  <2> QED
    BY <1>4, <2>2 DEF ServeInv, encoderVars
<1> QED
  BY <1>7, <1>8

\* Sessions are destroyed.
LEMMA DestroyServes ==
  ASSUME ServeInv, NEW S \in SUBSET Taken, Destroy(S),
         UNCHANGED <<force_idr, ring, encoderVars, quiet, overrun>>, IInv'
  PROVE  ServeInv'
<1>1. \A i \in Slots : slots'[i] = IF i \in S THEN None ELSE slots[i]
  BY DEF Destroy
<1>2. \A i \in Slots : Unserved(i)' => Unserved(i)
  BY <1>1 DEF Unserved, Taken
<1>3. Coming' <=> Coming
  BY DEF Coming, encoderVars
<1>4. KeyframeOwed'
  BY <1>2, <1>3, OwedKeeps DEF ServeInv
<1>5. Waits'
  BY <1>1 DEF ServeInv, Waits, Live, Taken, Unasked
<1> QED
  BY <1>4, <1>5 DEF ServeInv, encoderVars

\* The encode worker carries a request for a keyframe to the ring.
LEMMA EncoderServes ==
  ASSUME ServeInv, Encoder, IInv'
  PROVE  ServeInv'
<1> USE DEF loopVars
<1>1. CASE EncoderTakes
  <2>1. Coming => Coming'
    BY <1>1 DEF EncoderTakes, EncoderStep, Coming
  <2> QED
    BY <1>1, <2>1, TableKeeps DEF EncoderTakes, EncoderStep
<1>2. CASE EncoderExchanges
  <2>1. Coming => Coming'
    BY <1>2 DEF EncoderExchanges, EncoderStep, Coming
  <2> QED
    BY <1>2, <2>1, TableKeeps DEF EncoderExchanges, EncoderStep
<1>3. ASSUME NEW key \in BOOLEAN, EncoderCodes(key) PROVE ServeInv'
  <2>1. /\ force => key
        /\ force_idr' = force_idr /\ ring' = ring
        /\ UNCHANGED <<slots, quiet, overrun>>
        /\ encoder = "encode" /\ is_idr' = key
        /\ encoder' = IF key THEN "clear" ELSE "push"
    BY <1>3 DEF EncoderCodes, EncoderStep
  <2>2. Coming => force_idr \/ force \/ Holds(ring)
    BY <2>1 DEF Coming, Holds
  <2>3. force_idr \/ Holds(ring) => Coming'
    BY <2>1, Zenon DEF Coming, Holds
  <2>4. key => encoder' = "clear" /\ is_idr'
    BY <2>1, Zenon
  <2>5. encoder' = "clear" => is_idr'
    BY <2>1
  <2>6. force => Coming'
    BY <2>1, <2>4, Zenon DEF Coming
  <2>7. UNCHANGED <<slots, quiet>> /\ (overrun => overrun')
    BY <2>1
  <2> QED
    BY <2>2, <2>3, <2>5, <2>6, <2>7, TableKeeps, Zenon
<1>4. CASE EncoderClears
  <2>1. Coming'
    BY <1>4 DEF EncoderClears, EncoderStep, Coming, ServeInv
  <2>2. encoder' # "clear" /\ UNCHANGED <<slots, quiet, overrun>>
    BY <1>4 DEF EncoderClears, EncoderStep
  <2> QED
    BY <2>1, <2>2, TableKeeps
<1>5. CASE EncoderPushes
  <2>0. ring \in Seq(BOOLEAN) /\ is_idr \in BOOLEAN
    BY DEF ServeInv, IInv, TypeInv
  <2>1. /\ encoder = "push" /\ encoder' = "idle"
        /\ UNCHANGED <<slots, quiet, force_idr>>
    BY <1>5 DEF EncoderPushes, EncoderStep
  <2>2. \/ ring' = Append(ring, is_idr) /\ overrun' = overrun
        \/ /\ ~(Len(ring) < RingSlots)
           /\ ring' = Append(Tail(ring), is_idr)
           /\ overrun' = (overrun \/ Head(ring))
    BY <1>5, Zenon DEF EncoderPushes
  <2>3. Coming => force_idr \/ is_idr \/ Holds(ring)
    BY <2>1 DEF Coming, Holds
  <2>4. ASSUME force_idr \/ Holds(ring') PROVE Coming'
    BY <2>1, <2>4, Zenon DEF Coming, Holds
  <2>5. CASE ring' = Append(ring, is_idr) /\ overrun' = overrun
    <3>1. is_idr \/ Holds(ring) => Holds(ring')
      BY <2>0, <2>5, AppendHolds
    <3> QED
      BY <2>1, <2>3, <2>4, <2>5, <3>1, TableKeeps
  <2>6. CASE /\ ~(Len(ring) < RingSlots)
             /\ ring' = Append(Tail(ring), is_idr)
             /\ overrun' = (overrun \/ Head(ring))
    <3>1. ring # <<>>
      <4>1. ring = <<>> => Len(ring) = 0
        OBVIOUS
      <4>2. 0 < RingSlots
        BY ServerAssumption
      <4> QED
        BY <2>6, <4>1, <4>2
    <3>2. Tail(ring) \in Seq(BOOLEAN)
      BY <2>0, <3>1, PushKeeps, Zenon
    <3>3. Holds(ring) => Head(ring) \/ Holds(Tail(ring))
      BY <2>0, <3>1, TailHolds
    <3>4. is_idr \/ Holds(Tail(ring)) => Holds(ring')
      BY <2>0, <2>6, <3>2, AppendHolds
    <3>5. (overrun => overrun') /\ (Head(ring) => overrun')
      BY <2>6, Zenon
    <3>6. Coming => Coming' \/ overrun'
      BY <2>3, <2>4, <3>3, <3>4, <3>5, Zenon
    <3> QED
      BY <2>1, <3>5, <3>6, TableKeeps
  <2> QED
    BY <2>2, <2>5, <2>6
<1> QED
  BY <1>1, <1>2, <1>3, <1>4, <1>5 DEF Encoder

\* Everything else that happens.
LEMMA ServesStep == ServeInv /\ [Next]_vars => ServeInv'
<1> SUFFICES ASSUME ServeInv, [Next]_vars PROVE ServeInv'
  OBVIOUS
<1> USE DEF loopVars, encoderVars
<1>0. /\ IInv' /\ IInv /\ slots \in [Slots -> Session \cup {None}]
      /\ quiet \in [Slots -> Nat] /\ ring \in Seq(BOOLEAN)
  BY NextIInv DEF ServeInv, IInv, TypeInv
<1>1. ASSUME UNCHANGED <<slots, quiet, ring, encoder, force, is_idr, overrun>>,
             force_idr => force_idr'
      PROVE  ServeInv'
  <2>1. Coming => Coming'
    BY <1>1 DEF Coming
  <2> QED
    BY <1>0, <1>1, <2>1, TableKeeps DEF ServeInv
<1>2. CASE UNCHANGED vars \/ Done
  BY <1>1, <1>2 DEF vars, Done
<1>3. CASE Poll \/ PollHttp \/ OfferForces \/ OfferFails \/ StartTicks
             \/ TickNothing \/ FanDone
  BY <1>1, <1>3 DEF Poll, PollHttp, OfferForces, OfferFails, StartTicks,
                    TickNothing, FanDone
<1>4. ASSUME NEW ssl \in SslOutcomes, TickSession(ssl) PROVE ServeInv'
  <2> DEFINE s == slots[cursor]
             u == Tick(s, lag, ssl)
  <2>1. /\ cursor \in Taken /\ Becomes(cursor, u) /\ quiet' = quiet
        /\ UNCHANGED <<ring, encoderVars, overrun>>
    BY <1>4 DEF TickSession
  <2>2. Sound(s) /\ lag \in 0 .. MaxLag
    BY <1>0, <2>1 DEF IInv, AllSound, TypeInv
  <2>3. u \in Session /\ (s.state = "closed" => u.state = "closed")
    BY <2>2, TickSound DEF Sound
  <2>4. s.state # "closed" => Unasked(s) /\ s.rx <= quiet[cursor]
    BY <2>1 DEF ServeInv, Waits, Live
  <2>5. Serves(u, s)
    BY <2>2, <2>3, <2>4, TickServes, ClosedServes
  <2> HIDE DEF u, s
  <2>6. u.state = "closed" \/ s.rx <= quiet'[cursor]
    BY <2>1, <2>3, <2>4
  <2> QED
    BY <1>0, <2>1, <2>3, <2>5, <2>6, BecomesServes DEF s
<1>5. ASSUME NEW i \in Slots, NEW d \in Datagrams, Receive(i, d) PROVE ServeInv'
  <2> DEFINE s == [slots[i] EXCEPT !.rx = 0]
             u == OnUdp(slots[i], d)
  <2>1. /\ i \in Live /\ i \in Taken /\ Becomes(i, u)
        /\ quiet' = [quiet EXCEPT ![i] = 0]
        /\ UNCHANGED <<ring, encoderVars, overrun>>
    BY <1>5 DEF Receive, Live
  <2>2. Sound(slots[i]) /\ slots[i].state # "closed" /\ Unasked(slots[i])
    BY <1>0, <2>1 DEF IInv, AllSound, Live, ServeInv, Waits
  <2>3. u \in Session
    BY <2>2, OnUdpSound DEF Sound
  <2>4. Serves(u, s)
    BY <2>2, OnUdpServes
  <2>5. s.rx = 0 /\ s.state = slots[i].state /\ s.keyed = slots[i].keyed
    BY <2>2 DEF Sound, Session
  <2> HIDE DEF u, s
  <2>6. /\ quiet' \in [Slots -> Nat] /\ s.rx <= quiet'[i]
        /\ \A j \in Slots \ {i} : quiet'[j] = quiet[j]
    BY <1>0, <2>1, <2>5
  <2> QED
    BY <1>0, <2>1, <2>3, <2>4, <2>5, <2>6, BecomesServes
<1>6. ASSUME NEW i \in Slots, CloseRequest(i) PROVE ServeInv'
  <2> DEFINE u == Close(slots[i])
  <2>1. /\ i \in Taken /\ Becomes(i, u) /\ quiet' = quiet
        /\ UNCHANGED <<ring, encoderVars, overrun>>
    BY <1>6 DEF CloseRequest
  <2>2. u \in Session /\ u.state = "closed"
    BY <1>0, <2>1, CloseSound DEF IInv, AllSound, Sound
  <2> HIDE DEF u
  <2>3. Serves(u, slots[i])
    BY <2>2, ClosedServes
  <2> QED
    BY <1>0, <2>1, <2>2, <2>3, BecomesServes
<1>7. ASSUME NEW i \in Slots, Offer(i) PROVE ServeInv'
  <2>0. PICK expected \in BOOLEAN :
          slots' = [slots EXCEPT ![i] = NewSession(expected)]
    BY <1>7 DEF Offer
  <2> DEFINE s == NewSession(expected)
  <2>1. /\ \A j \in Slots : slots'[j] = IF j = i THEN s ELSE slots[j]
        /\ quiet' = [quiet EXCEPT ![i] = 0]
        /\ UNCHANGED <<force_idr, ring, encoderVars, overrun>>
    BY <1>0, <1>7, <2>0 DEF Offer
  <2>2. s.state = "new" /\ s.rx = 0 /\ Unasked(s)
    BY DEF NewSession, Unasked
  <2> HIDE DEF s
  <2>3. \A j \in Slots : Unserved(j)' => Unserved(j)
    BY <2>1, <2>2 DEF Unserved, Taken
  <2>4. Coming' <=> Coming
    BY <2>1 DEF Coming
  <2>5. KeyframeOwed'
    BY <2>1, <2>3, <2>4, OwedKeeps DEF ServeInv
  <2>6. quiet' \in [Slots -> Nat] /\ quiet'[i] = 0
        /\ \A j \in Slots \ {i} : quiet'[j] = quiet[j]
    BY <1>0, <2>1
  <2>7. Waits'
    BY <2>1, <2>2, <2>6 DEF ServeInv, Waits, Live, Taken, Unasked
  <2> QED
    BY <1>0, <2>1, <2>5, <2>6, <2>7 DEF ServeInv
<1>8. CASE FanOut
  <2> DEFINE key == Head(ring)
  <2>1. /\ ring # <<>> /\ ring' = Tail(ring)
        /\ \A i \in Slots : slots'[i] = IF i \in Taken THEN Send(slots[i], key)
                                        ELSE None
        /\ UNCHANGED <<force_idr, encoderVars, quiet, overrun>>
    BY <1>8 DEF FanOut
  <2>2. key \in BOOLEAN
    BY <1>0, <2>1, PushKeeps, Zenon
  <2>3. \A i \in Taken : slots[i] \in Session
    BY <1>0 DEF Taken
  <2> HIDE DEF key
  <2>4. Waits'
    <3> SUFFICES ASSUME NEW i \in Slots, slots'[i] # None,
                        slots'[i].state # "closed"
                 PROVE  Unasked(slots'[i]) /\ slots'[i].rx <= quiet'[i]
      BY DEF Waits, Live, Taken, Unasked
    <3>1. i \in Taken /\ slots'[i] = Send(slots[i], key)
      BY <2>1
    <3> QED
      BY <2>1, <2>2, <2>3, <3>1, SendKeeps
      DEF ServeInv, Waits, Live, Unasked
  <2>5. ASSUME NEW i \in Slots, Unserved(i)' PROVE Unserved(i) /\ ~key
    <3>1. i \in Taken /\ slots'[i] = Send(slots[i], key)
      BY <2>1, <2>5 DEF Unserved, Taken
    <3> QED
      BY <2>2, <2>3, <2>5, <3>1, SendKeeps DEF Unserved
  <2>6. Holds(ring) => key \/ Holds(ring')
    BY <1>0, <2>1, TailHolds DEF key
  <2>7. ~key /\ Coming => Coming'
    BY <2>1, <2>6 DEF Coming, Holds
  <2>8. KeyframeOwed'
    <3> SUFFICES ASSUME NEW i \in Slots, Unserved(i)', ~overrun'
                 PROVE  Coming'
      BY DEF KeyframeOwed, Unserved, Taken
    <3>1. Unserved(i) /\ ~key /\ ~overrun
      BY <2>1, <2>5
    <3> QED
      BY <2>7, <3>1 DEF ServeInv, KeyframeOwed, Unserved
  <2> QED
    BY <1>0, <2>1, <2>4, <2>8 DEF ServeInv
<1>9. CASE Reap
  <2>1. Taken \ Live \in SUBSET Taken
    OBVIOUS
  <2> QED
    BY <1>0, <1>9, <2>1, DestroyServes DEF Reap
<1>10. CASE Shutdown
  BY <1>0, <1>10, DestroyServes DEF Shutdown
<1>11. CASE Advance
  <2>1. /\ \A i \in Slots : slots'[i] = IF i \in Taken THEN Older(slots[i])
                                        ELSE None
        /\ quiet' = [i \in Slots |-> IF i \in Taken
                                     THEN Lesser(quiet[i] + 1, RxCap)
                                     ELSE quiet[i]]
        /\ UNCHANGED <<force_idr, ring, encoder, force, is_idr, overrun>>
    BY <1>11 DEF Advance
  <2>2. \A i \in Taken : slots[i] \in Session
    BY <1>0 DEF Taken
  <2>3. quiet' \in [Slots -> Nat]
    BY <1>0, <2>1, CapsAreNat DEF Lesser
  <2>4. Waits'
    <3> SUFFICES ASSUME NEW i \in Slots, slots'[i] # None,
                        slots'[i].state # "closed"
                 PROVE  Unasked(slots'[i]) /\ slots'[i].rx <= quiet'[i]
      BY DEF Waits, Live, Taken, Unasked
    <3>1. /\ i \in Taken /\ slots'[i] = Older(slots[i])
          /\ quiet'[i] = Lesser(quiet[i] + 1, RxCap)
      BY <2>1
    <3>2. slots'[i].state = slots[i].state
          /\ (slots[i].idr = IdrInterval => slots'[i].idr = IdrInterval)
          /\ slots'[i].rx = Lesser(slots[i].rx + 1, RxCap)
      BY <2>2, <3>1, OlderKeeps
    <3>3. Unasked(slots[i]) /\ slots[i].rx <= quiet[i]
      BY <3>1, <3>2 DEF ServeInv, Waits, Live
    <3>4. slots[i].rx \in Nat /\ quiet[i] \in Nat
      BY <1>0, <2>2, <3>1, CapsAreNat DEF Session
    <3>5. slots'[i].rx <= quiet'[i]
      BY <3>1, <3>2, <3>3, <3>4, CapsAreNat DEF Lesser
    <3> QED
      BY <3>2, <3>3, <3>5 DEF Unasked
  <2>5. \A i \in Slots : Unserved(i)' => Unserved(i)
    BY <2>1, <2>2, OlderKeeps DEF Unserved, Taken
  <2>6. Coming' <=> Coming
    BY <2>1 DEF Coming
  <2>7. KeyframeOwed'
    BY <2>1, <2>5, <2>6, OwedKeeps DEF ServeInv
  <2> QED
    BY <1>0, <2>1, <2>3, <2>4, <2>7 DEF ServeInv
<1>12. CASE Encoder
  BY <1>0, <1>12, EncoderServes
<1> QED
  BY <1>2, <1>3, <1>4, <1>5, <1>6, <1>7, <1>8, <1>9, <1>10, <1>11, <1>12
  DEF Next, Loop, Outside

LEMMA ServesInit == Init => ServeInv
<1> SUFFICES ASSUME Init PROVE ServeInv
  OBVIOUS
<1>1. Taken = {} /\ Live = {}
  BY DEF Init, Taken, Live
<1> QED
  BY <1>1, InitIInv DEF Init, ServeInv, Waits, KeyframeOwed

LEMMA ServesAlways == Spec => []ServeInv
<1> QED
  BY ServesInit, ServesStep, PTL DEF Spec

\* A viewer that begins to stream is not left without a keyframe: until it has
\* one, one is asked for or on its way, unless the ring has overrun.
THEOREM FreshViewersOwed == Spec => []KeyframeOwed
<1>1. ServeInv => KeyframeOwed
  BY DEF ServeInv
<1> QED
  BY <1>1, ServesAlways, PTL

\* rtc_session_tick ends no viewer that streams, and none that is yet to be
\* heard of, before the silence is longer than the timeout.
THEOREM NobodyReapedEarly == Spec => NotReapedEarly
<1> DEFINE Early == \A i \in Slots :
              /\ phase = "tick"
              /\ i \in Live /\ slots[i].state \in {"new", "streaming"}
              /\ slots'[i] # None /\ slots'[i].state = "closed"
              => quiet[i] > IdleTimeout
<1>1. ServeInv /\ [Next]_vars => [Early]_vars
  <2> SUFFICES ASSUME ServeInv, Next, NEW i \in Slots, phase = "tick",
                      i \in Live, slots[i].state \in {"new", "streaming"},
                      slots'[i] # None, slots'[i].state = "closed"
               PROVE  quiet[i] > IdleTimeout
    OBVIOUS
  <2>1. /\ slots \in [Slots -> Session \cup {None}] /\ i \in Taken
        /\ slots[i] \in Session /\ Sound(slots[i]) /\ lag \in 0 .. MaxLag
    BY DEF ServeInv, IInv, TypeInv, AllSound, Live, Taken
  <2>2. slots' # slots
    OBVIOUS
  <2>3. ~Advance
    <3>1. Advance => slots'[i] = Older(slots[i])
      BY <2>1 DEF Advance
    <3> QED
      BY <2>1, <3>1, OlderKeeps
  <2>4. ~Encoder
    BY <2>2 DEF Encoder, EncoderTakes, EncoderExchanges, EncoderCodes,
                EncoderClears, EncoderPushes
  <2>5. ~Outside
    BY <2>2 DEF Outside, Receive, Offer, CloseRequest, OfferFails, Shutdown
  <2>6. PICK ssl \in SslOutcomes : TickSession(ssl)
    BY <2>2, <2>3, <2>4, <2>5
    DEF Next, Loop, Done, vars, Poll, PollHttp, OfferForces, StartTicks,
        TickNothing, FanOut, FanDone, Reap
  <2> DEFINE u == Tick(slots[cursor], lag, ssl)
  <2>7. cursor = i /\ slots' = [slots EXCEPT ![cursor] = [u EXCEPT !.asks = FALSE]]
    BY <2>1, <2>6 DEF TickSession, Becomes
  <2>8. u \in Session
    BY <2>1, <2>7, TickSound DEF Sound
  <2> HIDE DEF u
  <2>9. u.state = "closed"
    <3>1. slots'[i] = [u EXCEPT !.asks = FALSE]
      BY <2>1, <2>7
    <3> QED
      BY <2>8, <3>1 DEF Session
  <2>10. slots[i].rx > IdleTimeout
    BY <2>1, <2>7, <2>9, TickClosesIdle DEF u
  <2>11. slots[i].rx <= quiet[i] /\ slots[i].rx \in Nat /\ quiet[i] \in Nat
    BY <2>1, CapsAreNat DEF ServeInv, Waits, Session
  <2>12. IdleTimeout \in Nat
    BY SessionAssumption
  <2> QED
    BY <2>10, <2>11, <2>12
<1> QED
  BY <1>1, ServesAlways, PTL DEF Spec, NotReapedEarly

-----------------------------------------------------------------------------
(* The rest of the type invariant.                                         *)

Flags ==
  /\ phase \in {"top", "udp", "http", "offered", "tick", "fan", "reap",
                "stopped"}
  /\ rtc_active \in BOOLEAN /\ force_idr \in BOOLEAN
  /\ frame \in BOOLEAN
  /\ encoder \in {"idle", "exchange", "encode", "clear", "push"}
  /\ force \in BOOLEAN
  /\ overrun \in BOOLEAN

Bounds ==
  /\ Len(ring) <= RingSlots
  /\ quiet \in [Slots -> 0 .. RxCap]

LEMMA FlagsStep == Flags /\ [Next]_vars => Flags'
<1> SUFFICES ASSUME Flags, [Next]_vars PROVE Flags'
  OBVIOUS
<1> USE DEF loopVars, encoderVars, Flags
<1>1. CASE UNCHANGED vars \/ Done
  BY <1>1 DEF vars, Done
<1>2. CASE Poll \/ PollHttp \/ OfferForces \/ OfferFails \/ StartTicks
             \/ TickNothing \/ FanDone
  BY <1>2 DEF Poll, PollHttp, OfferForces, OfferFails, StartTicks,
              TickNothing, FanDone, Onward
<1>3. CASE FanOut \/ Reap \/ Shutdown \/ Advance
  BY <1>3 DEF FanOut, Reap, Shutdown, Advance, Destroy
<1>4. ASSUME NEW ssl \in SslOutcomes, TickSession(ssl) PROVE Flags'
  BY <1>4 DEF TickSession, Becomes, Onward
<1>5. ASSUME NEW i \in Slots, NEW d \in Datagrams, Receive(i, d) PROVE Flags'
  BY <1>5 DEF Receive, Becomes
<1>6. ASSUME NEW i \in Slots, Offer(i) \/ CloseRequest(i) PROVE Flags'
  BY <1>6 DEF Offer, CloseRequest, Becomes
<1>7. CASE Encoder
  BY <1>7 DEF Encoder, EncoderTakes, EncoderExchanges, EncoderCodes,
              EncoderClears, EncoderPushes, EncoderStep
<1> QED
  BY <1>1, <1>2, <1>3, <1>4, <1>5, <1>6, <1>7 DEF Next, Loop, Outside

LEMMA LenTail ==
  ASSUME NEW S, NEW u \in Seq(S), NEW b \in S
  PROVE  /\ Len(u) \in Nat /\ Len(Append(u, b)) = Len(u) + 1
         /\ u # <<>> => Len(Tail(u)) = Len(u) - 1 /\ Tail(u) \in Seq(S)
  OBVIOUS

LEMMA BoundsStep == IInv /\ Bounds /\ [Next]_vars => Bounds'
<1> SUFFICES ASSUME IInv, Bounds, [Next]_vars PROVE Bounds'
  OBVIOUS
<1> USE DEF loopVars, encoderVars, Bounds
<1>0. ring \in Seq(BOOLEAN) /\ is_idr \in BOOLEAN /\ RingSlots \in Nat \ {0}
  BY ServerAssumption DEF IInv, TypeInv
<1>1. CASE UNCHANGED <<ring, quiet>>
  BY <1>1
<1>2. CASE FanOut
  <2>1. ring # <<>> /\ ring' = Tail(ring) /\ quiet' = quiet
    BY <1>2 DEF FanOut
  <2>2. Len(Tail(ring)) = Len(ring) - 1 /\ Len(ring) \in Nat
    BY <1>0, <2>1, LenTail
  <2> QED
    BY <1>0, <2>1, <2>2
<1>3. CASE EncoderPushes
  <2>1. Len(ring) \in Nat /\ (Len(ring) >= RingSlots => ring # <<>>)
    BY <1>0, LenTail
  <2>2. CASE Len(ring) < RingSlots
    <3>1. ring' = Append(ring, is_idr) /\ quiet' = quiet
      BY <1>3, <2>2 DEF EncoderPushes
    <3>2. Len(ring') = Len(ring) + 1
      BY <1>0, <3>1, LenTail
    <3> QED
      BY <1>0, <2>1, <2>2, <3>1, <3>2
  <2>3. CASE ~(Len(ring) < RingSlots)
    <3>1. ring' = Append(Tail(ring), is_idr) /\ quiet' = quiet
      BY <1>3, <2>3 DEF EncoderPushes
    <3>2. ring # <<>>
      BY <1>0, <2>1, <2>3
    <3>3. Len(Tail(ring)) = Len(ring) - 1 /\ Tail(ring) \in Seq(BOOLEAN)
      BY <1>0, <3>2, LenTail
    <3>4. Len(ring') = Len(Tail(ring)) + 1
      BY <1>0, <3>1, <3>3, LenTail
    <3> QED
      BY <2>1, <3>1, <3>3, <3>4
  <2> QED
    BY <2>2, <2>3
<1>4. CASE ring' = ring /\ \E i \in Slots : quiet' = [quiet EXCEPT ![i] = 0]
  BY <1>4, CapsAreNat
<1>5. CASE Advance
  BY <1>5, CapsAreNat DEF Advance, Lesser
<1>6. CASE Loop
  BY <1>1, <1>2, <1>6
  DEF Loop, Poll, PollHttp, OfferForces, StartTicks, TickSession, TickNothing,
      FanDone, Reap
<1>7. CASE Outside
  BY <1>1, <1>4, <1>7
  DEF Outside, Receive, Offer, CloseRequest, OfferFails, Shutdown
<1>8. CASE Encoder
  BY <1>1, <1>3, <1>8
  DEF Encoder, EncoderTakes, EncoderExchanges, EncoderCodes, EncoderClears
<1> QED
  BY <1>1, <1>5, <1>6, <1>7, <1>8 DEF Next, Done, vars

\* Every variable has its type: clocks stay within their caps, a deadline
\* within its interval, the ring within its slots.
THEOREM ServerTypes == Spec => []TypeOK
<1>1. Init => Flags /\ Bounds
  <2> SUFFICES ASSUME Init PROVE Flags /\ Bounds
    OBVIOUS
  <2>1. Flags
    BY DEF Init, Flags
  <2>2. ring = <<>> /\ quiet = [i \in Slots |-> 0]
    BY DEF Init
  <2>3. Len(ring) = 0 /\ RingSlots \in Nat
    BY <2>2, ServerAssumption
  <2>4. quiet \in [Slots -> 0 .. RxCap]
    BY <2>2, CapsAreNat
  <2> QED
    BY <2>1, <2>3, <2>4 DEF Bounds
<1>2. IInv /\ Flags /\ Bounds => TypeOK
  BY DEF IInv, TypeInv, Flags, Bounds, TypeOK
<1> QED
  BY <1>1, <1>2, InitIInv, NextIInv, FlagsStep, BoundsStep, PTL DEF Spec
-----------------------------------------------------------------------------
(* The encode worker and the loop keep to EncodeThread.                    *)

\* What a session asks for is a request, or nothing.
LEMMA BecomesAsks ==
  ASSUME force_idr \in BOOLEAN, NEW i, NEW s, Becomes(i, s),
         UNCHANGED <<ring, encoderVars>>
  PROVE  Contract!Ask \/ UNCHANGED Contract!encodeVars
<1>1. UNCHANGED <<encoder, force, is_idr, ring>>
  BY DEF encoderVars
<1>2. force_idr' = (force_idr \/ s.asks)
  BY DEF Becomes
<1>3. force_idr' = TRUE \/ force_idr' = force_idr
  BY <1>2, Zenon
<1> QED
  BY <1>1, <1>3 DEF Contract!Ask, Contract!threadVars, Contract!encodeVars

LEMMA LoopKeepsContract ==
  ASSUME force_idr \in BOOLEAN, Loop \/ Outside \/ Advance \/ Done \/ UNCHANGED vars
  PROVE  [Contract!Next]_(Contract!encodeVars)
<1> USE DEF encoderVars, Contract!threadVars
<1>1. CASE UNCHANGED <<force_idr, encoder, force, is_idr, ring>>
  BY <1>1 DEF Contract!encodeVars
<1>2. CASE Contract!Ask \/ Contract!Fetch
  BY <1>2 DEF Contract!Next
<1>3. ASSUME NEW ssl \in SslOutcomes, TickSession(ssl)
      PROVE  Contract!Ask \/ UNCHANGED Contract!encodeVars
  BY <1>3, BecomesAsks DEF TickSession
<1>4. ASSUME NEW i \in Slots, CloseRequest(i) \/ \E d \in Datagrams : Receive(i, d)
      PROVE  Contract!Ask \/ UNCHANGED Contract!encodeVars
  BY <1>4, BecomesAsks DEF CloseRequest, Receive
<1>5. OfferForces => Contract!Ask
  BY DEF OfferForces, Contract!Ask
<1>6. FanOut => Contract!Fetch
  BY DEF FanOut, Contract!Fetch
<1>7. \/ Poll \/ PollHttp \/ StartTicks \/ TickNothing \/ FanDone \/ Reap
      \/ (\E i \in Slots : Offer(i)) \/ OfferFails \/ Shutdown \/ Advance \/ Done
      \/ UNCHANGED vars
      => UNCHANGED <<force_idr, encoder, force, is_idr, ring>>
  BY DEF Poll, PollHttp, StartTicks, TickNothing, FanDone, Reap, Offer,
         OfferFails, Shutdown, Advance, Done, vars
<1>8. CASE Loop
  BY <1>1, <1>2, <1>3, <1>5, <1>6, <1>7, <1>8 DEF Loop
<1>9. CASE Outside
  BY <1>1, <1>2, <1>4, <1>7, <1>9 DEF Outside
<1> QED
  BY <1>1, <1>7, <1>8, <1>9

LEMMA EncoderKeepsContract ==
  ASSUME RingSlots \in Nat \ {0}, ring \in Seq(BOOLEAN), Len(ring) <= RingSlots,
         Encoder
  PROVE  Contract!Next
<1> USE DEF EncoderStep, Contract!Goes
<1>1. EncoderTakes => Contract!Begin
  BY DEF EncoderTakes, Contract!Begin
<1>2. EncoderExchanges => Contract!Exchange
  BY DEF EncoderExchanges, Contract!Exchange
<1>3. ASSUME NEW key \in BOOLEAN, EncoderCodes(key) PROVE Contract!Code(key)
  BY <1>3, Zenon DEF EncoderCodes, Contract!Code
<1>4. EncoderClears => Contract!Clear
  BY DEF EncoderClears, Contract!Clear
<1>5. ASSUME EncoderPushes PROVE Contract!Push
  <2>1. Len(ring) \in Nat /\ (Len(ring) = RingSlots <=> ~(Len(ring) < RingSlots))
    OBVIOUS
  <2>2. ring' = Append(IF Len(ring) = RingSlots THEN Tail(ring) ELSE ring, is_idr)
    BY <1>5, <2>1, Zenon DEF EncoderPushes
  <2> QED
    BY <1>5, <2>2 DEF EncoderPushes, Contract!Push
<1> QED
  BY <1>1, <1>2, <1>3, <1>4, <1>5 DEF Encoder, Contract!Next, Contract!Thread

\* The encode worker as the server sees it, and the loop's use of the flag and
\* of the ring, are what EncodeThread says: with WorkerKeepsContract, what is
\* shown of the server holds with the worker of EncoderWorker in it.
THEOREM ServerKeepsContract == Spec => KeepsContract
<1>1. Init => Contract!Init
  BY DEF Init, Contract!Init
<1>2. TypeOK /\ [Next]_vars => [Contract!Next]_(Contract!encodeVars)
  BY ServerAssumption, LoopKeepsContract, EncoderKeepsContract DEF Next, TypeOK
<1> QED
  BY <1>1, <1>2, ServerTypes, PTL DEF Spec, KeepsContract, Contract!Spec
=============================================================================
