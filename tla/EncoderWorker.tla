--------------------------- MODULE EncoderWorker ---------------------------
(***************************************************************************)
(* The encode worker thread (src/src/media/encoder_worker.c) between the   *)
(* mailbox of the frame hub and the ring of access units, and the two      *)
(* atomic flags it shares with the network loop: `active', a viewer is     *)
(* there, and `force_idr', somebody needs a keyframe.                      *)
(*                                                                         *)
(* The mailbox is the one KeepNewest describes, the ring is AuQueue, which *)
(* FrameHub and AuRing implement.  A frame is told apart only by how the   *)
(* worker treats it.  The encoder is known by what it returns: libx264     *)
(* gives an access unit for every frame; a V4L2 M2M encoder holds up to    *)
(* Depth frames, gives several units at once, and may take nothing in.     *)
(***************************************************************************)
EXTENDS AuQueue

CONSTANTS
  Backends,     \* encoders built in: "x264" (encoder_x264.c) and
                \* "m2m" (encoder_v4l2m2m.c)
  Depth,        \* bound: frames inside a hardware encoder
  StallFrames,  \* STALL_WATCHDOG_FRAMES
  MaxFrames     \* bound: frames the worker takes

ASSUME WorkerAssumption ==
  /\ Backends \subseteq {"x264", "m2m"}
  /\ Depth \in Nat \ {0}
  /\ StallFrames \in Nat \ {0}
  /\ MaxFrames \in Nat

\* A frame of the encoder's size, of another size, or without data.
Kinds == {"match", "mismatch", "empty"}

VARIABLES
  backend,              \* the encoder that start chose
  box,                  \* the mailbox: a frame, or "none"
  force_idr,            \* *worker->force_idr
  active,               \* *worker->active
  running,              \* worker->running
  pc,                   \* where the worker stands
  kind,                 \* the frame it has in hand
  was_active,
  stall_warned,
  last_encode_at_seen,
  force,                \* the worker's local copy of force_idr
  is_idr,               \* the unit the encoder returned is a keyframe
  stats,                \* EncoderWorkerStats
  inflight,             \* frames inside the encoder: TRUE for a keyframe
  waiting,              \* history: units without keyframe pushed since a
                        \* keyframe was asked for, -1 when none is owed
  dry                   \* history: frames taken while active since the last
                        \* unit, or since the worker last saw nobody watch

flagVars == <<force_idr, active, running>>
dogVars  == <<was_active, stall_warned, last_encode_at_seen, dry>>
unitVars == <<force, is_idr, inflight>>
vars == <<backend, queueVars, flagVars, dogVars, unitVars, box, pc, kind,
          stats, waiting>>

Counters == {"frames_seen", "frames_encoded", "skipped_idle",
             "skipped_mismatch", "skipped_bad_size", "no_output"}

Init ==
  /\ QueueInit
  /\ backend \in Backends
  /\ box = "none"
  /\ force_idr = FALSE /\ active = FALSE /\ running = TRUE
  /\ pc = "poll" /\ kind = "match"
  /\ was_active = FALSE /\ stall_warned = FALSE /\ last_encode_at_seen = 0
  /\ force = FALSE /\ is_idr = FALSE /\ inflight = <<>>
  /\ stats = [c \in Counters |-> 0]
  /\ waiting = -1 /\ dry = 0

Count(c) == stats' = [stats EXCEPT ![c] = @ + 1]

-----------------------------------------------------------------------------
(* The other threads.                                                      *)

\* The source publishes: the newest frame is the one in the mailbox.
Publish(k) ==
  /\ stats["frames_seen"] < MaxFrames
  /\ box' = k
  /\ UNCHANGED <<backend, queueVars, flagVars, dogVars, unitVars, pc, kind,
                 stats, waiting>>

\* The network loop sets rtc_active: a viewer came, or the last one left.
SetActive(b) ==
  /\ active # b
  /\ active' = b
  /\ UNCHANGED <<backend, queueVars, dogVars, unitVars, box, force_idr,
                 running, pc, kind, stats, waiting>>

\* A viewer that has just come, or a PLI or FIR, asks for a keyframe.
Request ==
  /\ force_idr' = TRUE
  /\ waiting' = IF waiting = -1 THEN 0 ELSE waiting
  /\ UNCHANGED <<backend, queueVars, dogVars, unitVars, box, active, running,
                 pc, kind, stats>>

\* The network loop, or the Janus sender, takes a unit out of the ring.
Drain ==
  /\ Pop
  /\ UNCHANGED <<backend, flagVars, dogVars, unitVars, box, pc, kind, stats,
                 waiting>>

\* encoder_worker_stop.
Stop ==
  /\ running
  /\ running' = FALSE
  /\ UNCHANGED <<backend, queueVars, dogVars, unitVars, box, force_idr, active,
                 pc, kind, stats, waiting>>

-----------------------------------------------------------------------------
(* encoder_thread.                                                         *)

\* frame_hub_take finds a frame.
Take ==
  /\ pc = "poll" /\ running
  /\ box # "none"
  /\ kind' = box
  /\ box' = "none"
  /\ Count("frames_seen")
  /\ pc' = "check"
  /\ UNCHANGED <<backend, queueVars, flagVars, dogVars, unitVars, waiting>>

\* A variant with a bug: the loop ends only when the mailbox is empty.
ExitWhenEmpty ==
  /\ pc = "poll" /\ ~running /\ box = "none"
  /\ pc' = "stopped"
  /\ UNCHANGED <<backend, queueVars, flagVars, dogVars, unitVars, box, kind,
                 stats, waiting>>

Exit ==
  /\ pc = "poll" /\ ~running
  /\ pc' = "stopped"
  /\ UNCHANGED <<backend, queueVars, flagVars, dogVars, unitVars, box, kind,
                 stats, waiting>>

\* A variant with a bug: the flag is exchanged before the frame is dropped.
CheckIdleExchanges ==
  /\ pc = "check" /\ ~active
  /\ was_active' = FALSE
  /\ force_idr' = FALSE
  /\ Count("skipped_idle")
  /\ dry' = 0
  /\ pc' = "poll"
  /\ UNCHANGED <<backend, queueVars, active, running, unitVars, stall_warned,
                 last_encode_at_seen, box, kind, waiting>>

\* Nobody is watching: drop the frame.
CheckIdle ==
  /\ pc = "check" /\ ~active
  /\ was_active' = FALSE
  /\ Count("skipped_idle")
  /\ dry' = 0
  /\ pc' = "poll"
  /\ UNCHANGED <<backend, queueVars, flagVars, unitVars, stall_warned,
                 last_encode_at_seen, box, kind, waiting>>

\* The frame from which the stall watchdog counts: a viewer that has just come
\* re-arms it.  With a bug: nothing does.
SinceEver  == last_encode_at_seen
Since      == IF was_active THEN last_encode_at_seen ELSE stats["frames_seen"]

\* It reports once when too many frames have gone by since the last unit.
Watchdog ==
  /\ was_active' = TRUE
  /\ last_encode_at_seen' = Since
  /\ stall_warned' = \/ stall_warned /\ was_active
                     \/ stats["frames_seen"] - Since >= StallFrames

\* Somebody is: a frame of the wrong size, or without data, is dropped.
CheckActive ==
  /\ pc = "check" /\ active
  /\ Watchdog
  /\ CASE kind = "mismatch" -> /\ Count("skipped_mismatch")
                               /\ dry' = dry + 1
                               /\ pc' = "poll"
       [] kind = "empty"    -> /\ Count("skipped_bad_size")
                               /\ dry' = dry + 1
                               /\ pc' = "poll"
       [] kind = "match"    -> /\ pc' = "exchange"
                               /\ UNCHANGED <<stats, dry>>
  /\ UNCHANGED <<backend, queueVars, flagVars, unitVars, box, kind, waiting>>

\* atomic_exchange(force_idr, 0).
Exchange ==
  /\ pc = "exchange"
  /\ force' = force_idr
  /\ force_idr' = FALSE
  /\ pc' = "encode"
  /\ UNCHANGED <<backend, queueVars, active, running, dogVars, is_idr,
                 inflight, box, kind, stats, waiting>>

\* A fatal encoder error ends the thread.
EncodeFails ==
  /\ pc = "encode"
  /\ pc' = "failed"
  /\ UNCHANGED <<backend, queueVars, flagVars, dogVars, unitVars, box, kind,
                 stats, waiting>>

\* Frames the encoder may hold after taking in one coded as `key', and how
\* many units it gives: libx264 codes each frame at once.
Coded(key) == Append(inflight, key)
Outputs(key) ==
  {n \in 0 .. Len(Coded(key)) :
     Len(Coded(key)) - n <= IF backend = "m2m" THEN Depth ELSE 0}

\* A keyframe when one is asked for.  With a bug: the picture type is always
\* left to the encoder.
ObeysNever(key) == TRUE
Obeys(key)    == force => key

\* The encoder takes the frame in, as a keyframe when that is asked for or
\* when a group of pictures begins, and gives `n' units of earlier frames or
\* this one: none, or one access unit made of all of them.
EncodeTakes(key, n) ==
  /\ pc = "encode"
  /\ Obeys(key)
  /\ n \in Outputs(key)
  /\ inflight' = SubSeq(Coded(key), n + 1, Len(Coded(key)))
  /\ IF n = 0
     THEN /\ Count("no_output")
          /\ dry' = dry + 1
          /\ pc' = "poll"
          /\ UNCHANGED <<is_idr, stall_warned, last_encode_at_seen>>
     ELSE /\ Count("frames_encoded")
          /\ is_idr' = \E i \in 1 .. n : Coded(key)[i]
          /\ last_encode_at_seen' = stats["frames_seen"]
          /\ stall_warned' = FALSE
          /\ dry' = 0
          /\ pc' = IF is_idr' THEN "clear" ELSE "push"
  /\ UNCHANGED <<backend, queueVars, flagVars, was_active, force, box, kind,
                 waiting>>

\* Variants with a bug: the frame is not counted; the watchdog is fed.
EncodeRefusesUncounted ==
  /\ pc = "encode" /\ backend = "m2m"
  /\ dry' = dry + 1
  /\ pc' = "poll"
  /\ UNCHANGED <<backend, queueVars, flagVars, was_active, stall_warned, stats,
                 last_encode_at_seen, unitVars, box, kind, waiting>>

EncodeRefusesFeeds ==
  /\ pc = "encode" /\ backend = "m2m"
  /\ Count("no_output")
  /\ last_encode_at_seen' = stats["frames_seen"]
  /\ dry' = dry + 1
  /\ pc' = "poll"
  /\ UNCHANGED <<backend, queueVars, flagVars, was_active, stall_warned,
                 unitVars, box, kind, waiting>>

\* A hardware encoder has no input buffer for the frame, or cannot queue it.
EncodeRefuses ==
  /\ pc = "encode" /\ backend = "m2m"
  /\ Count("no_output")
  /\ dry' = dry + 1
  /\ pc' = "poll"
  /\ UNCHANGED <<backend, queueVars, flagVars, was_active, stall_warned,
                 last_encode_at_seen, unitVars, box, kind, waiting>>

\* A keyframe answers the requests that came while it was made:
\* atomic_store(force_idr, 0).
Clear ==
  /\ pc = "clear"
  /\ force_idr' = FALSE
  /\ pc' = "push"
  /\ UNCHANGED <<backend, queueVars, active, running, dogVars, unitVars, box,
                 kind, stats, waiting>>

PushUnit ==
  /\ pc = "push"
  /\ Push([is_idr |-> is_idr])
  /\ waiting' = IF is_idr THEN -1
                ELSE IF waiting = -1 THEN -1 ELSE waiting + 1
  /\ pc' = "poll"
  /\ UNCHANGED <<backend, flagVars, dogVars, unitVars, box, kind, stats>>

-----------------------------------------------------------------------------
Encode == \/ \E key \in BOOLEAN, n \in 0 .. Depth + 1 : EncodeTakes(key, n)
          \/ EncodeRefuses \/ EncodeFails

Worker == \/ Take \/ Exit \/ CheckIdle \/ CheckActive
          \/ Exchange \/ Encode \/ Clear \/ PushUnit

\* The worker is gone and the ring is empty.
Done == pc \in {"stopped", "failed"} /\ queue = <<>> /\ UNCHANGED vars

Next ==
  \/ \E k \in Kinds : Publish(k)
  \/ \E b \in BOOLEAN : SetActive(b)
  \/ Request \/ Drain \/ Stop
  \/ Worker
  \/ Done

Spec == Init /\ [][Next]_vars

\* The operating system runs the thread, and every call it makes returns:
\* the waits of the hardware encoder have timeouts.
FairSpec == Spec /\ WF_vars(Worker)
-----------------------------------------------------------------------------
(* Properties.                                                             *)

\* Type invariant.
TypeOK ==
  /\ backend \in Backends
  /\ box \in Kinds \cup {"none"}
  /\ {force_idr, active, running, was_active, stall_warned, force, is_idr}
       \subseteq BOOLEAN
  /\ pc \in {"poll", "check", "exchange", "encode", "clear", "push",
             "stopped", "failed"}
  /\ kind \in Kinds
  /\ last_encode_at_seen \in 0 .. stats["frames_seen"]
  /\ stats \in [Counters -> Nat]
  /\ inflight \in Seq(BOOLEAN) /\ Len(inflight) <= Depth
  /\ waiting \in Nat \cup {-1} /\ dry \in Nat
  /\ Len(queue) <= Slots

\* Drop accounting is exact: every frame taken is counted once more when it
\* is done with, except the one in hand and the one a fatal error stopped at.
Accounting ==
  stats["frames_seen"] =
    stats["frames_encoded"] + stats["skipped_idle"] + stats["skipped_mismatch"]
      + stats["skipped_bad_size"] + stats["no_output"]
      + (IF pc \in {"check", "exchange", "encode", "failed"} THEN 1 ELSE 0)

\* A keyframe is on its way to the ring.
Coming ==
  \/ pc = "encode" /\ force
  \/ pc \in {"clear", "push"} /\ is_idr
  \/ \E i \in DOMAIN inflight : inflight[i]

\* A request is remembered until a keyframe reaches the ring, whatever the
\* moment at which it is made: the flag is set, or the keyframe is coming.
Remembered == waiting >= 0 /\ pc # "failed" => force_idr \/ Coming

\* libx264 codes the frame it is called with, and so forgets no request (a
\* hardware encoder that takes no frame in does).
RequestKept == backend = "x264" => Remembered

\* The watchdog reports a stall only after that many frames without a unit
\* (the frame in hand is the last of them) ...
NoFalseAlarm ==
  [][stall_warned' /\ ~stall_warned => dry + 1 >= StallFrames]_vars

\* ... and when there were more, it has.
StallReported == pc # "check" /\ was_active /\ dry > StallFrames => stall_warned

\* With libx264 the thread treats force_idr and the ring as EncodeThread says,
\* whatever the other threads do.  A thread that failed is one whose last call
\* of the encoder does not return.
Stage == IF pc = "failed" THEN "encode"
         ELSE IF pc \in {"exchange", "encode", "clear", "push"} THEN pc
         ELSE "idle"
Ring  == [i \in DOMAIN queue |-> queue[i].unit.is_idr]
Contract == INSTANCE EncodeThread
              WITH RingSlots <- Slots, stage <- Stage, ring <- Ring
KeepsContract ==
  Contract!Init
    /\ [][backend = "x264" => Contract!Next]_<<Contract!encodeVars>>

\* encoder_worker_join returns: a worker told to stop does.
StopJoins == ~running ~> pc \in {"stopped", "failed"}
=============================================================================
