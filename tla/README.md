# A verification of camstream in TLA+

camstream takes pictures from a camera, encodes them as H.264 and sends them to
browsers with WebRTC, either by itself or through a Janus gateway. It is a C
program of a few threads that hand pictures and access units to each other
under a "live video prefers freshness" policy: nothing waits for a slow reader,
old data is dropped. This directory models its concurrent core, checks the
models with TLC on small instances, and proves the central invariants with
TLAPS for every value of the constants. Paths below are relative to the
repository, which is `src/` here.

## 1. Inventory

Threads of the `camstream` binary (`src/src/app/app_server.c:942`):

    source thread --publish--> FrameHub --take--> encode thread --push--> AuRing
                                                                            |
                            network loop (WebRTC) or Janus thread <--pop----+

    shared flags: rtc_active (a viewer is there)  network loop -> encode thread
                  force_idr  (a keyframe is owed) network loop, Janus thread
                                                  <-> encode thread

| component | state | operations | what is hard | what makes it correct |
|---|---|---|---|---|
| frame pool (`media/frame_pool.c`) | free list, per frame `refcount` and `pool_index` | acquire, ref, unref | `refcount++` is done without the pool lock | a buffer is recycled exactly once, when its last user lets go |
| frame hub (`media/frame_hub.c`) | list of consumers, per consumer a lock, `active`, a one frame `slot` | subscribe, unsubscribe, publish, take | three kinds of lock nested; a consumer leaves and is freed while publish walks the list | keep-newest; a slow consumer never stalls the producer; no freed consumer is touched |
| source worker (`media/source_worker.c`) | `running`, `sequence` | thread, start, stop, join | runs against every consumer | frames are numbered in order, a dropped one too |
| access unit ring (`media/au_ring.c`) | `head`, `tail`, `count`, `sequence`, `dropped`, slots | push, pop | overwriting while the reader drains; wrap-around | drop-oldest queue, every loss counted |
| encode worker (`media/encoder_worker.c`) | seven counters, stall watchdog, local keyframe flag | thread | flags changed between two reads; a store that clears requests | a keyframe request is never lost; drop accounting is exact; stalls are reported |
| hardware encoder (`media/encoder_v4l2m2m.c`) | input buffers, error count | encode | the driver works at its own pace and its calls fail | a buffer is in one place only; a call returns |
| software encoder (`media/encoder_x264.c`) | the library's | encode | - | one unit per frame, IDR when asked |
| WebRTC session (`webrtc/webrtc_session.c`) | `state`, peer address, timers, retransmission cache | on_udp, tick, send, close, request_idr | callbacks that re-enter `close`; timers against datagrams; a cache indexed modulo 512 | closed once; a dead viewer is reaped; only cached packets that were asked for are resent |
| DTLS-SRTP (`webrtc/dtls_srtp.c`) | handshake state, receive queue of 64 | on_udp, tick, close | re-entrant state callbacks | media only with keys, made with the certificate of the offer where that names one |
| ICE-lite, SDP, RTP, RTCP (`webrtc/`) | sequence number, timestamps | parse and build | 16 bit wrap-around, fragmentation, loss and retransmission | a unit is cut into packets that reassemble to it, and what is lost is repaired |
| application server (`app/app_server.c`) | session table, `rtc_active`, `force_idr` | offer, close, main loop, start, shutdown | one slot per viewer shared by every handler; order of teardown | the flags agree with the table; nothing is used after it is freed |
| Janus sender (`janus/janus_rtp_sender.c`) | RTP state, report timer, two sockets | thread, start, stop | two ports; a gateway that restarts; sends that fail | keyframe requests reach the encoder; the gateway finds its way back; it stops when told |
| Janus browser client (`web/janus/janus-client.js`) | transactions, timers, sockets, PeerConnection | connect, disconnect, events | answers racing timeouts and reconnections; events of sockets it has forgotten | Stop is final; a page that says it reconnects will; a dead gateway is noticed |
| vision worker (`vision/`) | previous picture, mosaic | thread | a consumer of the hub in its own binary | as any consumer |
| V4L2 camera (`media/v4l2_source.c`) | buffers shared with the driver | start, capture, release, close | error paths that must give a buffer back | the driver loses none but to a failed call |
| test source, pixel conversion, SDP, configuration, web page, libpeer backend | - | - | device and file I/O, pure data | not modelled |

The full list of what is hard to test in this code, each at its line and with
the properties that cover it, is the `hazards` list of `PROJECT.json`.

## 2. Modules

| module | models | built on |
|---|---|---|
| `FrameHub` | hub, pool, source thread, consumer threads | |
| `KeepNewest` | what the hub promises a consumer | refined by `FrameHub` |
| `AuQueue` | what the ring promises: a drop-oldest queue | refined by `AuRing` |
| `EncodeThread` | what the threads that serve viewers may expect of the encode thread | refined by `EncoderWorker` (with libx264) and by `RtcServer` |
| `AuRing` | the ring with its indices and slots | |
| `EncoderWorker` | the encode thread, the flags, both encoders as the thread sees them | extends `AuQueue`; its mailbox is the one of `KeepNewest` |
| `M2mEncoder` | `m2m_encode` and its buffers, driver external | gives the outcomes of the hardware case of `EncoderWorker` |
| `RtcSession` | one viewer: session and DTLS-SRTP engine, handler by handler | |
| `RtcServer` | the network loop, the session table, the flags, ring and encode thread as the loop sees them | extends `RtcSession`; its encode thread is one of `EncodeThread` |
| `RtpStream` | one viewer's packets: cut one by one, protected, kept, lost, asked for again | |
| `JanusSender` | the thread that feeds a Janus gateway, with the encode thread before it and the gateway behind it | extends `AuRing`: its pops and the encoder's pushes are the ring's own actions |
| `Lifecycle` | `app_server_run` from start to end, the V4L2 camera, and every thread as far as it uses what others own | extends `FrameHub`: publish, take, subscribe and unsubscribe are the hub's own actions |
| `JanusClient` | the page that watches through Janus | |
| `FrameHubProofs`, `M2mEncoderProofs`, `RtcServerProofs`, `EncoderWorkerProofs`, `LifecycleProofs`, `JanusSenderProofs` (with the ring's), `JanusClientProofs`, `RtpStreamProofs` | theorems | |
| `MC...` | instances for TLC | |

There are two ways in which the models meet. `JanusSender` and `Lifecycle`
*contain* the ring and the hub: a step of theirs that touches it is the action
of that module, and it is proved that they obey its specification, so that what
is proved of the ring and of the hub holds in them. `EncoderWorker` and
`RtcServer` are joined through specifications: they use the mailbox and the queue
that `FrameHub` and `AuRing` are shown to implement, rather than their code,
which keeps their state spaces small without leaving the behaviour open. And
`RtcServer` supposes no more of the encode thread than `EncodeThread` says, which
`EncoderWorker` implements whatever the other threads do with its flags, its
mailbox and its ring.

Each implementation module also defines, next to an action, variants of it
"with a bug" (a missing lock, a reference kept); they are not part of any
specification. Each names a mistake the properties would catch, and
`PROJECT.json` says which.

### FrameHub

`pc` gives each thread's place in the code. A critical section that takes no
second lock is one step; publish holds the hub lock over the whole walk,
`consumerLock` over each delivery, and inside that `frame_unref` takes the pool
lock: those are separate steps, so that a consumer may run between them.
`refcount` is read and written in two steps in `frame_ref` (`RefRead`,
`RefWrite`), because nothing that `frame_unref` takes excludes it; and in two in
`frame_unref`. `content` is the frame's `sequence` and stands for its pixels.
The consumers' list is a set, visited in any order: the order only matters to
which consumer gets the frame first. Allocation failure is left out.

A consumer subscribes once, takes and releases frames, and leaves once; its
thread has ended before `encoder_worker_destroy` unsubscribes, so that one
control state per consumer is enough.

### AuRing

`head`, `tail` and `count` are the code's; `slot` holds what was written to
each slot and how long it was, garbage before that. Access units differ by
size (what fits a slot, what fits the reader's buffer) and by an opaque datum.
`BufferCapacity` may be smaller than `SlotCapacity`: the interface permits it
and then a unit that does not fit is consumed and lost. In the program both are
512 KiB (with 8 slots), and the encoder's own buffer too, so a push is never
refused there.

### EncoderWorker

A frame is told apart only by how the thread treats it: of the right size, of
another, or empty. `active` and `force_idr` are read and written by single
atomic steps, where the code has atomic operations. The encoder appears by
what it can return: libx264 gives a unit for each frame; the hardware may hold
frames back, give several at once, or take none in. `waiting` and `dry` are
history variables: units without a keyframe since one was asked for; active
frames since the last unit.

`EncodeThread` is what remains when frames, viewers and counters are hidden: it
takes a request together with the decision to code a keyframe for it, answers
later requests only with a keyframe, and pushes what it coded. `Stage` maps the
worker's places to it; a thread that a fatal error ended is one whose last call of
the encoder does not return. A hardware encoder that takes no frame in keeps
nothing of the sort, and that is the lost request of section 5.

### M2mEncoder

Each V4L2 buffer operation is a step and each may fail; the driver's only own
action is `Code`. Capture buffers are counted, input buffers are named, because
it is the input buffers the code can lose.

### RtcSession

All sessions are handled on the network thread, so a handler runs to its end;
what is hard is that session and DTLS engine call each other back in the middle
of it. Each handler is therefore an operator from the session record before
the call to the one after it, and a chain of callbacks is their composition in
the order of the code: `Close` marks the session closed, then closes DTLS,
whose state callback enters `CloseAgain` and finds nothing left to do; `Connect`
is reached from `Pump`, from a datagram or from a tick.

Time stamps are kept as ages (`rx`, `age`, `idr`) and a deadline as the time
until it (`sr`), all cut off where the code's comparisons no longer tell them
apart. The tick compares stamps with a clock read at the start of the round of
ticks, `lag` ago; `AgeAt` is the code's comparison of such an old clock with
stamps that may be newer.

`ssl` is what a call into OpenSSL comes to: more datagrams wanted, an error
(with which a failure to make the keys is counted, as both end the session), a
`close_notify`, or an ended handshake with a certificate that matches the
fingerprint in the offer, or with another or none. `expected` says whether there
is a fingerprint to match: an offer whose `a=fingerprint:` line is empty is
accepted (`sdp.c:118`, `:173`), and then `derive_srtp_keys` compares nothing
(`dtls_srtp.c:471`) and makes keys with whatever certificate came (`Presents`,
`Finish`). A datagram is told apart by its first byte, as in
`rtc_session_on_udp`: STUN, a DTLS record, RTP and RTCP, anything else. What is not
authentic SRTCP feedback has no effect whatever it contains. A STUN message is
the list of its attributes: `IsBindingRequest`, `UsernameMatches` and `VerifyMi`
say what the code's loops over them look for (the first of each type, this
session's ufrag before or, with one colon, behind it), the HMAC itself is a
Boolean. `Messages` are those that come; the theorems hold for any set of them.
Statistics are left out, and `idr_requested`, which nothing reads. `shown` (the
addresses that have shown the session's password), `cert`, `keyed` and `ends` are
history.

### RtcServer

`phase` is where the loop stands: poll, datagrams, HTTP, ticks, fan-out, reap.
Offers take the first free slot; `rtc_active` and `force_idr` are set by
separate steps, as the encode thread may run between them. The ring holds, of
each unit, whether it is a keyframe. A refused offer (`OfferFails`) destroys a
session which never was in the table. `quiet`, `overrun` and `endings` are
history: silence since a datagram came, a keyframe overwritten in the ring, and
how often `on_closed` ran for the sessions that are gone.

### RtpStream

An octet of a NAL unit is its place in the unit, an access unit the lengths of
its NAL units, so that cutting and putting together are the code's arithmetic
without its bytes. `SendPacket` is one round of the loop of `rtp_h264_packetize`
with its call of `rtp_packet_sink`; `nal` and `offset` are where it stands, and
while it goes on earlier packets travel and arrive. `First` is the sequence number
before the first packet, close to the wrap. The sink sends and keeps a packet that
SRTP protects and drops one that it does not; the network loses any of them,
delivers the rest in any order and also loses NACKs and answers. The browser is
external: it unwraps numbers as SRTP does, asks for what is missing below the
highest number it has, and forms units as RFC 6184 says (`Rebuilt`). An SRTP packet
carries its index through its authentication tag, which covers the roll-over
counter: a number unwrapped wrongly makes a packet that is not authentic
(`Accepts`).

The code answers a NACK from slot `seq % 512` and never compares the number
found there. `Answer` does the same, and the runs show that it is harmless: what
is resent in error is a newer packet of the same stream, which SRTP's replay
check drops or which fills another gap. For repair to work the browser must not
fall half the numbers behind: `MaxLag` bounds this where a unit is sent (32768
packets, seconds of video, in the code). `UnitsRestored` does not need it.
Empty NAL units are left out: the packetizer looks one unit ahead for the marker,
and an encoder does not make them. (`docs/11:112` calls NACK format 2; code and
`docs/16` agree on 1.)

### JanusSender

`pc` is where `sender_thread` stands: `poll`, the datagrams, the drain, the
packets of a unit, the report. A unit of size *n* is cut into *n* packets; how is
`RtpStream`'s matter. A packet has a number, modulo `Numbers`, and as history its
unit, its place there and how many were made before it (`at`). `sendto` may fail
and the gateway be down; a report may not be sent or be lost on its way, and the
next one is due in five seconds all the same (`Reports`). The socket holds
`MaxInbox` datagrams, and more may come for ever. `learned` is the
address the gateway would send feedback to: it learns it from the reports, from
the port they leave from, and forgets it when it restarts. Feedback is a compound
packet of PLI, FIR, others and malformed ones. A unit that does not fit the
reader's buffer ends the drain as an empty ring does, as in the code.

### Lifecycle

`plan` is the list of what the main thread has yet to create, and after that of
what it has yet to release: `StartOrder` (with or without Janus), `StopOrder`
(after the loop), `FailOrder` (at `fail:`) are the code's own orders, `Unwind` says
where each failure goes. Each step of the start may fail. `thread` says how far
each worker's thread is in its loop, as far as it uses what others own: the
source thread captures, publishes (step by step, through `FrameHub`) and
releases; the encode thread takes, releases and pushes, may end on a fatal error,
and is unsubscribed by the main thread under its name.
`queued` and `held` are the camera's buffers. Two things it shows about ends that
are not errors of order but incomplete: after the loop nobody destroys the ring,
and when the listener cannot be had nobody frees the mongoose manager; when there
is no source or no hub the DTLS library is not shut down. `CleanExit` lists these
cases, the process exits in all of them. A failed `VIDIOC_QBUF` is only printed
and its buffer is gone for good; `BuffersKept` says nothing else loses one. Two
things are left out of the camera: a `VIDIOC_DQBUF` that fails (`EIO`) and has
dequeued a buffer all the same, and an index the driver was never granted, which
`v4l2_source.c:146` answers without giving the buffer back (`buffer_count` is the
count granted, so a conforming driver has no such index). That the Janus thread ends
once it is told to is taken for granted here; `JanusSender` says when it does
(`SenderStops`).

### JanusClient

JavaScript runs a handler to its end, so a handler is an action. The gateway
answers each transaction with what was asked, an error, something useless, late or
never, sends its events on any socket that got so far (an orphaned one too), and
may fall silent for good. What the ICE connection does changes a text only: the
page overrides `setState`, and for `ice` returns before it touches the client's
state or the buttons (`janus-client.js:771`), so that it is no action.
`StopIsFinal` says nothing of the PeerConnection: an offer that comes on an
orphaned socket, which Stop does not close, makes one again (`Offered`).
Behaviours of the page worth knowing, which no text of the repository contradicts:
a click on Connect does not clear the reconnect timer, so that a second socket may
be opened; the end of an old socket tears down the session of a new one and
orphans it; an error in answer to a pending transaction is only logged, and the
page waits for ever.

## 3. Runs

| run | checks | bounds, and why they are enough |
|---|---|---|
| `hub_one_consumer` | `Control` (locks, list, pointers), `Ownership` (exact counts, free list, stable contents), `DropsOnlyWhenHeld`, `Freshest`, that the hub implements `KeepNewest`, `PublishReturns` | 1 consumer, as both binaries have; 2 buffers, so that capture finds the pool empty when one is in use and one waits (the programs have more, and by `DropsOnlyWhenHeld` never do); 6 frames, so that each buffer is reused |
| `hub_refcount_race` | finding 1 | 2 consumers |
| `worker` | keyframe requests and `EncodeThread` (software encoder), drop accounting, watchdog, end of the thread | both encoders, chosen at the start; 4 frames, stall threshold 2: a report, its re-arming and a second window fit; 1 frame inside the hardware encoder |
| `m2m` | buffers, errors, keyframe flag, termination of a call | 3 input buffers, each reusable; error limit 3, reachable if errors came free |
| `server` | the two state machines, keys, closing, timers, keyframes, `rtc_active` | 1 session (sessions do not touch each other's state), reused for further viewers, with a fingerprint in their offer or none; idle timeout 1 and watchdog 2, so that each fires alone and with the other; ten STUN messages, one for each way to be accepted or refused; a clock that lags by 1; a ring of 1, so that it overruns |
| `server_setup` | finding 2 | 1 session |
| `lifecycle` | order of release, completeness of the end, the camera's buffers, termination | both builds; every step of the start may fail; 2 frames in the pool, so that it runs out; 2 driver buffers and one `VIDIOC_QBUF` that fails; 2 captures |
| `janus_sender` | the ring under its real users, whole units, feedback, a gateway that restarts, stopping | ring of 2 with 3 units pushed, so that it overruns; units of one packet and of two; a socket that holds 1 datagram, but any number of datagrams one after the other; 1 restart; numbers modulo 3, so that they wrap within two units |
| `janus_feedback` | finding 3 | as above, 1 unit |
| `janus_client` | `StopIsFinal`, `RetryArmed`, `SilenceNoticed` | 2 sockets not yet closed, so that an old one disturbs a new one; 2 transactions under way |
| `client_retry` | finding 4 | as above |
| `rtp` | `UnitsRestored`, `LossRepaired` | units of one packet and of three (two fragments and a NAL unit); up to 7 packets around a wrap at 10, from 7; a cache of 2, so that slots are overwritten; a NACK entry names 2 numbers, a datagram 3; the browser at most 2 packets behind when a unit is sent; 1 packet SRTP refuses. Sending ends (7 packets), so `LossRepaired` shows that repair converges after it; while new packets are lost for ever there may always be one to repair |

Deadlock is checked in all of them. `Done` steps mark the states in which the
program is really over.

### Fairness

* `FrameHub`: weak fairness of the source thread's steps, of `frame_unref` once
  entered and of `Unlink`: the scheduler runs threads that are not blocked, and
  critical sections are short. A consumer is *not* assumed to take a frame,
  finish with it or leave, so `PublishReturns` says that capture depends on no
  consumer's progress.
* `EncoderWorker`: weak fairness of the thread. The encoder call returns:
  libx264 computes, and `CallReturns` of `M2mEncoder` shows it of the hardware.
* `M2mEncoder`: weak fairness of the calling thread, none of the driver: every
  wait in the code has a timeout (50 ms, 8 ms, 0).
* `RtcServer`: weak fairness of the loop's own steps, which includes that the
  sockets run dry and HTTP requests end, so that the loop goes round (the code
  reads a socket until it would block; a peer that sends faster than the loop
  reads would hold it there). Weak fairness of the encode thread. Strong
  fairness of `Advance`, because `MaxLag` stops time during the ticks: time
  passes. Nothing makes a peer send, OpenSSL succeed or a viewer come.
* `Lifecycle`: each thread runs (weak fairness of the source thread and of the
  Janus thread); strong fairness of the main thread and of the encode thread,
  which wait for hub locks that the publisher takes again and again: a mutex is
  granted in the end. Nobody has to send a signal, and the camera has to deliver
  nothing.
* `JanusSender`: weak fairness of the thread, but not of a failing `poll`, and of
  the passing of five seconds; of infinitely many reports to a gateway that is up
  one arrives (strong fairness of `Reports(TRUE)`): without it no report need ever
  get there. The gateway, the rest of the network and the encode thread owe
  nothing, not even a pause. `handle_rtcp` reads until the socket is empty and the
  drain pops until the ring is, and neither looks at `running` or at the clock
  (`janus_rtp_sender.c:210`, `:291`). So `SenderStops` and `Relearns` say what the
  code can promise: they hold unless datagrams, or access units, come for ever
  faster than the thread handles them (`Flooded`, `Overfed`). The run has behaviours
  that are flooded, in which a stopped thread does not end. Its pushes are
  bounded, so none is overfed; the condition is for the program, where the encode
  thread goes on pushing while the sender is joined (`app_server.c:1322` before
  `:1336`), at the rate of the camera.
* `JanusClient`: timers go off; a socket that is closing, or that a silent
  gateway does not open, is closed in the end, as browsers do. Neither user nor
  gateway owes anything. (The keepalive's fairness is strong since the interval
  waits for the last keepalive to end and for the socket to be open.)
* `RtpStream`: a handler runs to its end; the browser keeps asking; of infinitely
  many NACKs some come through with their answers (strong fairness of a lossless
  answer); what is on its way and new arrives.

## 4. Proofs

All by TLAPS, for every value of the constants permitted by the named
assumptions (distinct thread names, a positive number of buffers, slots).

* `FrameHubProofs!TypeCorrect`, `ControlCorrect`: for *any* set of consumers.
  The inductive invariant is `TypeOK /\ Control`: each lock is held by exactly
  the thread inside its section (`LockOwners`), the list is the set of
  subscribers (`Membership`), each thread's pointers are what its place in the
  code says (`Pointers`), and publish walks a part of the list
  (`NoFreedConsumer`). The last alone is not inductive: that `Unlink` cannot
  run while the walk goes on follows from `LockOwners`.
* `FrameHubProofs!OwnershipCorrect`, `FreedExactlyOnce`: assuming one
  consumer (`SingleConsumer`), which is what each binary subscribes. The
  invariant adds to `Control` that reference counts are exact, that the free
  list is the complement of the referenced frames, that what a reader reads
  is what it took, and three strengthenings: `Private` (nobody else points to
  the frame under way), `CountCurrent` (a count just read is still the count
  when it is written back, which is what fails with two consumers) and
  `IndexKnown`. Finding 1 shows that the assumption cannot be dropped.
* `FrameHubProofs!HubKeepsNewest`, `NewestWaits`, `NeverDropsInVain`, under
  the same assumption: the hub implements `KeepNewest`, what waits between two
  publishes is the newest picture in any buffer, and a frame is dropped for want
  of a buffer only while the consumer has them all, which takes a pool of two. The
  invariant adds to the above that no picture is newer than the one under way
  (`Filled`), that what the consumer has or will take is older than one not yet
  delivered (`Older`), and that nothing delivered is newer than what waits
  (`Fresh`, but for a frame `Ahead` of its delivery).
* `JanusSenderProofs!RingCorrect`, `ReaderAdvances`, `RingImplementsQueue`: for any
  number of slots, capacities and data. The invariant relates the indices
  modulo the number of slots (`IndicesAgree`), says that the slots from head
  hold consecutive numbers up to the last (`Consecutive`) and that all units
  are held, popped or dropped (`Accounted`); the refinement maps `queue` to the
  slots from `head`, `count` of them, and each step to a step of `AuQueue` or a
  stutter.
* `EncoderWorkerProofs!CountersAddUp`, `RequestsKept`, `StallsReported`,
  `AlarmsTrue`: for any threshold, depth of the hardware pipeline and number of
  frames. `RequestKept` is strengthened to `Owed`: libx264 holds no frame back, so
  that a request that is not in the flag is in the frame being coded or in the
  keyframe on its way, and the flag is only cleared behind a keyframe. The
  watchdog's two properties follow from `Watched`: the count it derives from
  `frames_seen` and that of the history variable `dry` never differ by more than
  the frame in hand.
* `EncoderWorkerProofs!WorkerKeepsContract`, `RtcServerProofs!ServerKeepsContract`:
  the encode worker with libx264, and the one in the server's model together with
  all that the loop does to the flag and the ring, implement `EncodeThread`. The
  first uses `Owed`, by which libx264 gives exactly one unit, of the frame it is
  called with. The server's thread differs from `EncodeThread`'s only in that it
  begins when a frame is there and `rtc_active` is set, as `Take` and `CheckActive`
  of `EncoderWorker` do. (`RequestKept` of hardware encoders, which `EncodeThread`
  does not describe, is false: section 5.)
* `FrameHubProofs!NoCircularWait`: for any set of consumers, whoever waits for one
  of the three kinds of lock waits for a thread that holds one further in
  (`LocksNest`), so that no threads wait for each other in a circle. That a
  consumer which holds the hub lock finds its own lock free follows from
  `LockOwners`.
* `RtcServerProofs!AlwaysAgree`, `AlwaysSecured`, `EndedOnce`, `EncoderFollows`:
  for any number of slots, any timeouts and any addresses. The inductive
  invariant is that each session in the table is `Sound` (its two states agree,
  it is secured, it ended once if closed and not at all otherwise), that each
  freed session was ended once, and `ActiveWhileWatched`. There is a lemma for
  each handler. Those that close start from a weaker condition, `Open`, since in
  the middle of a callback the DTLS engine is ahead of the session and `Agrees`
  is false; that closing restores it is the content of the proof. `AlwaysSecured`
  says of a session whose offer has a fingerprint that its keys were made with
  the matching certificate; where the offer's is empty the code compares
  nothing, and only the rest of the statement holds. That a peer's
  address has shown the password (`shown`) comes from `OnStun`, for any set of
  messages.
* `RtcServerProofs!FreshViewersOwed`, `NobodyReapedEarly`, `ServerTypes`: two
  strengthenings carry them. Before it streams a session has asked for nothing
  (`Unasked`), so the interval between requests cannot silence its first one, and
  each handler `Serves` it: whoever begins to stream asks. The session's own
  count of silence never exceeds what the history variable `quiet` counts
  (`Waits`). A keyframe on its way to a fresh viewer is then in `force_idr`, with
  the encoder, in the ring, or overrun there, which the statement permits.
* `M2mEncoderProofs!BuffersApart`, `ErrorsCostBuffers`, `KeyframesHandedOver`: for
  any sets of buffers, any driver and any limit of errors. `OnePlace` counts the
  places of a buffer; the proof works on `Apart`, which says that the places are
  disjoint and no buffer is queued twice. `NeverFatal`: with no more buffers than
  errors permitted (6 and 64 in the code) the fatal error is never returned,
  because each error takes a buffer with it and an error needs one.
* `LifecycleProofs!LifeImplementsHub`, `HubCorrectInProgram`: each step of the
  program is a step of `FrameHub` or leaves the hub alone, whoever makes it; with
  the theorems above, `Control`, `LocksNest` and `Ownership` hold in every run of
  the program.
  `NothingLeftDangling`, `BuffersReturned`: for any pool and any set of driver
  buffers. `NothingDangling` is not inductive; `LifeInv` adds that
  no step of the rest of the plan comes before one it depends on (`Ordered`,
  against the few pairs `BadStart` and `BadStop`), that during the start what the
  plan no longer lists is there (`Present`), and that during the stop what it still
  lists is used only by threads it lists too (`Quiet`). The code's orders enter
  the proof only as `Ordered`: another order without those pairs would do.
* `LifecycleProofs!ExitsClean`: when the program is over, nothing but what `CleanExit`
  lists is left. What the plan will not release (`Forgotten`) is settled at the
  moment the plan is made, and then never changes: so the invariant `ExitInv` says
  of each of the plans of the stop that it forgets one of the permitted sets only.
  For a start that fails early this takes that nothing exists at that point which
  comes later in the plan of the start (`Planned`). That the hub is left
  alone needs in addition who can be inside one of its calls (`Calls`).
* `JanusSenderProofs!SenderImplementsRing`, `SenderReadsQueue`: the sender and
  the encode thread use the ring as `AuRing` says, and so read a drop-oldest
  queue of it.
* `JanusSenderProofs!UnitsWhole`: what a receiver takes for an access unit is one,
  whole, for any units, any losses and any modulus `Numbers`, unless as many
  packets are lost in a row as there are numbers. The invariant says at which place
  of which unit each packet made stands; the step from numbers modulo `Numbers` to
  how many packets were made is `SameNumber`.
* `RtpStreamProofs!StreamRestored`: what a browser takes for a unit depacketizes to
  one that was sent, each NAL unit octet for octet, for any lengths of NAL
  units, payload budget, cache, modulus and losses, whatever is resent. The
  invariant `IInv`: a packet made is what the packetizer gives at its place
  (`WellFormed`), the next one continues where it ends (`InOrder`), and what is
  kept, under way or received is one of those made, with its own index
  (`Genuine`), which is where slots answered without comparing the number are
  harmless. That the depacketizer then undoes the packetizer is `KeepsPace`: after
  each packet it has what the packetizer had dealt out.
* `JanusClientProofs!StopEndsAll`, `RetryIsArmed`: for any number of sockets and
  transactions. The strengthening says that after Stop the client's socket is
  closing, so that no `onopen` and no late answer can send through it, and that
  a page that says "reconnecting" has forgotten its socket.

Where a proof needs induction over the packets of a run, it takes the least number
for which the statement fails (`Smallest`, `Ascends`): a fact about a set of
numbers, which the provers can use.

Only model-checked: everything under fairness (`PublishReturns`, `StopJoins`,
`CallReturns`, `SilenceEnds`, `IceEnds`, `FreshViewerServed`, `ShutdownEnds`,
`FeedbackRaises`, `Relearns`, `SenderStops`, `SilenceNoticed`, `LossRepaired`),
which is out of the prover's reach, and with `LossRepaired` what the expansion of a
NACK computes (`NackSeq`, `Fci`). `LocksNest` is proved, and checked by no run of its
own: `Control`, from which it follows, is.

## 5. Findings

1. **`refcount` race** (`frame_pool.c:103`, run `hub_refcount_race`).
   `frame_ref` increments under the hub and consumer locks, `frame_unref`
   decrements under the pool lock. Publish refs a frame for consumer B while
   consumer A, already served, releases it: one of the updates is lost, and the
   buffer is recycled under a reader or never. The comment at
   `frame_pool.c:96-102` argues that every path serialises on one of the two
   locks, which does not serialise them with each other. It takes two
   consumers; the binaries have one each, for which exactness is proved.
2. **Half-open sessions** (`webrtc_session.c:463` and `:678`, run
   `server_setup`). The idle stamp is set before a datagram is looked at, and the
   handshake watchdog looks at RTC_ICE only. So nothing ends a session in
   RTC_NEW or RTC_DTLS that goes on receiving datagrams, against `README.md:619`
   and the diagram at `:611`. (In RTC_DTLS, OpenSSL's own retransmission timer,
   external here, gives up minutes after the server has sent a flight.) In
   RTC_ICE the watchdog does its work: `IceEnds`.
3. **Feedback to the wrong port** (`janus_rtp_sender.c:211`, run
   `janus_feedback`). The sender reports leave from the sending socket, so that is
   the address Janus learns; only the listening socket is read. A viewer's
   request for a keyframe, relayed to the address learned, is lost, against steps
   3 to 5 of `docs/22_janus_transport.md:235`. What does reach the listening socket
   raises the flag: `FeedbackRaises`.
4. **Connect after Stop** (`janus-client.js:128`, run `client_retry`).
   `intentionalClose` is never reset, so that the Connect button does nothing
   once Stop was used, though `index.html:232` says "Click Connect to retry."

Three more disagreements are visible in the models but have no run of their own:

* **Lost keyframe request** (`encoder_v4l2m2m.c:552`). `force_idr` is exchanged
  for 0 before the encoder is called; a hardware encoder that takes no frame in
  returns 0 and the request is gone, against `docs/22_janus_transport.md:239`.
  `RequestKept` is therefore stated, and proved, of libx264 (`Remembered` without
  the condition fails).
* **An empty fingerprint is not compared** (`dtls_srtp.c:471`). The comments at
  `dtls_srtp.c:80` and `:198` and `docs/11_webrtc_internals.md:84` say that the
  peer's certificate is checked against the `a=fingerprint` of the offer, and
  `README.md:323` that an offer that lacks one gets 400. The parser asks for the
  line, not for its value (`sdp.c:118`, `:173`), and an empty value skips the
  comparison: `MediaSecured` holds with the condition `expected` only.
* **Input buffers leak** (`encoder_v4l2m2m.c:593`). A failed `VIDIOC_QBUF`
  abandons the buffer; after as many failures as there are buffers every call
  returns "no output ready yet", and since each error costs a buffer
  (`ErrorsCost`) the limit of 64 errors is never reached: `NeverFatal`, with the 6
  buffers of `encoder_v4l2m2m.c:31`.

## 6. Not modelled

* Device I/O beyond the buffers (probing, formats), OpenSSL, libsrtp, libx264,
  mongoose: external, with the outcomes the code distinguishes, but for a libx264
  that gives no unit (`encoder_x264.c:144`): it is opened without B-frames and
  lookahead and gives one for each frame.
* The refusal of an offer after the session was put into the table
  (`app_server.c:598-631`): the answer always fits its buffer.
* The test source, pixel conversion and the mosaic of the vision binary:
  arithmetic on images, with no state that another part depends on.
* SDP, the byte layout of STUN messages, HTTP requests, configuration and the
  status page:
  parsing and formatting. That an offer is accepted or not is a choice in
  `RtcServer`.
* The libpeer backend: an alternative to `webrtc_session.c` around a library that
  is not in the repository.
* The queue of 64 datagrams before OpenSSL: `pump_ssl` runs after each datagram
  and empties it, so that it never holds more than one.
* Statistics and counters that nothing but the status page reads; trickled
  candidates and the video element of the page.
* Failed allocations, except where `Lifecycle` lets a step of the start fail.

What would come next: the mailbox of `EncoderWorker` tied to `KeepNewest` as its
ring is to `AuQueue`, and SDP as far as it decides whether an offer is accepted.
