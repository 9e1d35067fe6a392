------------------------- MODULE EncoderWorkerProofs -------------------------
(***************************************************************************)
(* The encode worker for any number of frames, any watchdog threshold and  *)
(* any depth of the hardware encoder: its counters add up, libx264 forgets *)
(* no request for a keyframe, and the stall watchdog reports stalls only,  *)
(* and all of them.                                                        *)
(***************************************************************************)
EXTENDS EncoderWorker, TLAPS

WorkerType ==
  /\ stats \in [Counters -> Nat]
  /\ dry \in Nat /\ last_encode_at_seen \in Nat
  /\ waiting \in Nat \cup {-1}
  /\ {force_idr, was_active, stall_warned, force, is_idr} \subseteq BOOLEAN
  /\ pc \in {"poll", "check", "exchange", "encode", "clear", "push",
             "stopped", "failed"}
  /\ kind \in Kinds /\ box \in Kinds \cup {"none"}

\* libx264 holds nothing back; and RequestKept, with what is coming spelt out.
Owed ==
  /\ pc = "clear" => is_idr
  /\ backend = "x264" =>
       /\ inflight = <<>>
       /\ waiting >= 0 /\ pc # "failed" =>
            \/ force_idr
            \/ pc = "encode" /\ force
            \/ pc \in {"clear", "push"} /\ is_idr

\* Frames since the one the watchdog counts from.
Gap == stats["frames_seen"] - last_encode_at_seen

\* One for a frame in hand that `dry' does not count yet.
InHand == IF pc \in {"check", "exchange", "encode", "failed"} THEN 1 ELSE 0

\* The watchdog's count is the one of the history variable, or one less: it
\* starts at the frame that finds a viewer, not before it.
Watched ==
  /\ pc \in {"exchange", "encode"} => was_active
  /\ ~was_active => dry = 0
  /\ was_active => Gap <= dry + InHand /\ dry + InHand <= Gap + 1
  /\ was_active /\ pc # "check" /\ Gap >= StallFrames => stall_warned

WorkerInv == WorkerType /\ Accounting /\ Owed /\ Watched

LEMMA WorkerInvInit == Init => WorkerInv
<1> SUFFICES ASSUME Init PROVE WorkerInv
  OBVIOUS
<1>1. /\ stats = [c \in Counters |-> 0] /\ dry = 0 /\ last_encode_at_seen = 0
      /\ waiting = -1 /\ pc = "poll" /\ inflight = <<>>
      /\ ~was_active
  BY DEF Init
<1>2. {force_idr, was_active, stall_warned, force, is_idr} \subseteq BOOLEAN
  BY DEF Init
<1>3. WorkerType
  BY <1>1, <1>2 DEF WorkerType, Counters, Init, Kinds
<1>4. Accounting
  BY <1>1 DEF Accounting, Counters
<1>5. Owed
  BY <1>1 DEF Owed
<1>6. Watched
  BY <1>1 DEF Watched
<1> QED
  BY <1>3, <1>4, <1>5, <1>6 DEF WorkerInv

\* Counting one more of a kind.
LEMMA CountFacts ==
  ASSUME WorkerType, NEW c \in Counters, Count(c)
  PROVE  /\ stats' \in [Counters -> Nat] /\ stats'[c] = stats[c] + 1
         /\ \A d \in Counters \ {c} : stats'[d] = stats[d]
         /\ \A d \in Counters : stats[d] \in Nat /\ stats'[d] \in Nat
BY DEF WorkerType, Count

\* The frame in hand is counted when it is done with.
LEMMA DoneWithKeeps ==
  ASSUME WorkerType, Accounting, NEW c \in Counters, c # "frames_seen",
         Count(c), pc \in {"check", "encode"},
         pc' \in {"poll", "clear", "push"}
  PROVE  Accounting'
<1>1. /\ stats'[c] = stats[c] + 1
      /\ \A d \in Counters \ {c} : stats'[d] = stats[d]
      /\ \A d \in Counters : stats[d] \in Nat
  BY CountFacts
<1>6. \A d \in Counters : stats'[d] = IF d = c THEN stats[d] + 1 ELSE stats[d]
  BY <1>1
<1> DEFINE Done5(s) == s["frames_encoded"] + s["skipped_idle"]
                         + s["skipped_mismatch"] + s["skipped_bad_size"]
                         + s["no_output"]
<1>2. stats["frames_seen"] = Done5(stats) + 1
  BY <1>1 DEF Accounting, Counters
<1>3. /\ Done5(stats') = Done5(stats) + 1
      /\ stats'["frames_seen"] = stats["frames_seen"]
  <2>1. CASE c = "frames_encoded"
    BY <1>1, <1>6, <2>1 DEF Counters
  <2>2. CASE c = "skipped_idle"
    BY <1>1, <1>6, <2>2 DEF Counters
  <2>3. CASE c = "skipped_mismatch"
    BY <1>1, <1>6, <2>3 DEF Counters
  <2>4. CASE c = "skipped_bad_size"
    BY <1>1, <1>6, <2>4 DEF Counters
  <2>5. CASE c = "no_output"
    BY <1>1, <1>6, <2>5 DEF Counters
  <2> QED
    BY <2>1, <2>2, <2>3, <2>4, <2>5 DEF Counters
<1>4. Done5(stats') \in Nat
  BY <1>1, <1>3 DEF Counters
<1>5. stats'["frames_seen"] = Done5(stats')
  BY <1>2, <1>3, <1>4
<1> QED
  BY <1>4, <1>5 DEF Accounting

USE DEF Counters, Kinds, InHand, Gap, flagVars, dogVars, unitVars

\* The other threads.
LEMMA OthersKeep ==
  ASSUME WorkerInv,
         \/ \E k \in Kinds : Publish(k)
         \/ \E b \in BOOLEAN : SetActive(b)
         \/ Request \/ Drain \/ Stop \/ Done \/ UNCHANGED vars
  PROVE  WorkerInv'
<1> USE DEF WorkerInv
<1>1. CASE Request
  <2>1. UNCHANGED <<backend, inflight, pc, stats, is_idr, was_active, dry,
                    last_encode_at_seen, stall_warned, force, kind, box>>
    BY <1>1 DEF Request
  <2>2. force_idr' = TRUE /\ waiting' \in Nat \cup {-1}
    BY <1>1 DEF Request, WorkerType
  <2> QED
    BY <2>1, <2>2 DEF WorkerType, Accounting, Owed, Watched
<1>2. CASE \/ \E k \in Kinds : Publish(k)
           \/ \E b \in BOOLEAN : SetActive(b)
           \/ Drain \/ Stop \/ Done \/ UNCHANGED vars
  <2>1. UNCHANGED <<backend, inflight, pc, stats, is_idr, was_active, dry,
                    last_encode_at_seen, stall_warned, force, force_idr,
                    waiting, kind>>
        /\ box' \in Kinds \cup {box}
    BY <1>2 DEF Publish, SetActive, Drain, Stop, Done, vars
  <2>2. WorkerType' /\ Accounting'
    BY <2>1 DEF WorkerType, Accounting
  <2>3. Owed' /\ Watched'
    BY <2>1 DEF Owed, Watched
  <2> QED
    BY <2>2, <2>3
<1> QED
  BY <1>1, <1>2

\* Taking a frame, dropping it, or going on with it.
LEMMA LookKeeps ==
  ASSUME WorkerInv, Take \/ Exit \/ CheckIdle \/ CheckActive
  PROVE  WorkerInv'
<1> USE DEF WorkerInv
<1>0. StallFrames \in Nat \ {0} /\ WorkerType
  BY WorkerAssumption
<1>1. CASE Take
  <2>1. /\ pc = "poll" /\ pc' = "check" /\ Count("frames_seen")
        /\ UNCHANGED <<backend, inflight, is_idr, was_active, dry, waiting,
                       last_encode_at_seen, stall_warned, force, force_idr>>
        /\ box # "none" /\ kind' = box /\ box' = "none"
    BY <1>1 DEF Take
  <2>2. WorkerType' /\ Accounting'
    BY <1>0, <2>1, CountFacts DEF WorkerType, Accounting
  <2>3. Owed' /\ Watched'
    BY <1>0, <2>1, CountFacts DEF WorkerType, Owed, Watched
  <2> QED
    BY <2>2, <2>3
<1>2. CASE Exit
  BY <1>2 DEF Exit, WorkerType, Accounting, Owed, Watched
<1>3. CASE CheckIdle
  <2>1. /\ pc = "check" /\ pc' = "poll" /\ Count("skipped_idle")
        /\ was_active' = FALSE /\ dry' = 0
        /\ UNCHANGED <<backend, inflight, is_idr, waiting, kind, box,
                       last_encode_at_seen, stall_warned, force, force_idr>>
    BY <1>3 DEF CheckIdle
  <2>4. {force_idr, was_active, stall_warned, force, is_idr}' \subseteq BOOLEAN
    BY <1>0, <2>1 DEF WorkerType
  <2>5. WorkerType'
    BY <1>0, <2>1, <2>4, CountFacts DEF WorkerType
  <2>6. Accounting'
    BY <1>0, <2>1, DoneWithKeeps
  <2>2. WorkerType' /\ Accounting'
    BY <2>5, <2>6
  <2>3. Owed' /\ Watched'
    BY <1>0, <2>1 DEF Owed, Watched
  <2> QED
    BY <2>2, <2>3
<1>4. CASE CheckActive
  <2>1. /\ pc = "check" /\ was_active' = TRUE /\ last_encode_at_seen' = Since
        /\ stall_warned' = (\/ stall_warned /\ was_active
                            \/ stats["frames_seen"] - Since >= StallFrames)
        /\ UNCHANGED <<backend, inflight, is_idr, waiting, force, force_idr,
                       kind, box>>
    BY <1>4 DEF CheckActive, Watchdog
  <2>2. \/ pc' = "poll" /\ dry' = dry + 1
             /\ (Count("skipped_mismatch") \/ Count("skipped_bad_size"))
        \/ pc' = "exchange" /\ UNCHANGED <<stats, dry>>
    <3>1. CASE kind = "mismatch"
      BY <1>4, <3>1 DEF CheckActive
    <3>2. CASE kind = "empty"
      BY <1>4, <3>2 DEF CheckActive
    <3>3. CASE kind = "match"
      BY <1>4, <3>3 DEF CheckActive
    <3> QED
      BY <1>0, <3>1, <3>2, <3>3 DEF WorkerType
  <2>3. /\ stats'["frames_seen"] = stats["frames_seen"]
        /\ stats["frames_seen"] \in Nat /\ stats' \in [Counters -> Nat]
        /\ Accounting'
    BY <1>0, <2>1, <2>2, CountFacts DEF Accounting, WorkerType
  <2>4. Since \in Nat /\ stall_warned' \in BOOLEAN
    BY <1>0, <2>1, <2>3 DEF Since, WorkerType
  <2>5. WorkerType'
    BY <1>0, <2>1, <2>2, <2>3, <2>4 DEF WorkerType
  <2>6. Owed'
    BY <2>1, <2>2 DEF Owed
  <2>7. Gap' <= dry' + InHand' /\ dry' + InHand' <= Gap' + 1
    <3>1. CASE was_active
      BY <1>0, <2>1, <2>2, <2>3, <3>1 DEF Since, Watched, WorkerType
    <3>2. CASE ~was_active
      BY <1>0, <2>1, <2>2, <2>3, <3>2 DEF Since, Watched, WorkerType
    <3> QED
      BY <3>1, <3>2
  <2>8. Gap' >= StallFrames => stall_warned'
    BY <2>1, <2>3
  <2> QED
    BY <2>1, <2>3, <2>5, <2>6, <2>7, <2>8 DEF Watched
<1> QED
  BY <1>1, <1>2, <1>3, <1>4

\* What the encoder makes of the frame.
LEMMA EncodeKeeps ==
  ASSUME WorkerInv, Exchange \/ Encode
  PROVE  WorkerInv'
<1> USE DEF WorkerInv
<1>0. StallFrames \in Nat \ {0} /\ WorkerType
  BY WorkerAssumption
<1>1. CASE Exchange
  <2>1. /\ pc = "exchange" /\ pc' = "encode" /\ force' = force_idr
        /\ force_idr' = FALSE
        /\ UNCHANGED <<backend, inflight, is_idr, was_active, dry, waiting,
                       last_encode_at_seen, stall_warned, stats, kind, box>>
    BY <1>1 DEF Exchange
  <2> QED
    BY <2>1 DEF WorkerType, Accounting, Owed, Watched
<1>2. CASE EncodeFails
  BY <1>2 DEF EncodeFails, WorkerType, Accounting, Owed, Watched
<1>3. CASE EncodeRefuses
  <2>1. /\ pc = "encode" /\ pc' = "poll" /\ Count("no_output")
        /\ dry' = dry + 1 /\ backend = "m2m"
        /\ UNCHANGED <<backend, is_idr, was_active, waiting, stall_warned,
                       last_encode_at_seen, force, force_idr, kind, box>>
    BY <1>3 DEF EncodeRefuses
  <2>2. WorkerType' /\ Accounting'
    BY <1>0, <2>1, CountFacts, DoneWithKeeps DEF WorkerType
  <2>3. Owed'
    BY <2>1 DEF Owed
  <2>4. Watched'
    BY <1>0, <2>1, CountFacts DEF WorkerType, Watched
  <2> QED
    BY <2>2, <2>3, <2>4
<1>4. ASSUME NEW key \in BOOLEAN, NEW n \in 0 .. Depth + 1, EncodeTakes(key, n)
      PROVE  WorkerInv'
  <2>1. /\ pc = "encode" /\ Obeys(key) /\ n \in Outputs(key)
        /\ inflight' = SubSeq(Coded(key), n + 1, Len(Coded(key)))
        /\ UNCHANGED <<backend, was_active, waiting, force, force_idr, kind, box>>
    BY <1>4 DEF EncodeTakes
  <2>2. CASE n = 0
    <3>1. /\ Count("no_output") /\ dry' = dry + 1 /\ pc' = "poll"
          /\ UNCHANGED <<is_idr, stall_warned, last_encode_at_seen>>
      BY <1>4, <2>2 DEF EncodeTakes
    <3>2. backend # "x264"
      <4>1. ASSUME backend = "x264" PROVE FALSE
        <5>1. Coded(key) = <<key>>
          BY <4>1 DEF Owed, Coded
        <5> QED
          BY <2>1, <2>2, <4>1, <5>1 DEF Outputs
      <4> QED
        BY <4>1
    <3>3. Accounting'
      BY <1>0, <2>1, <3>1, DoneWithKeeps
    <3>4. WorkerType'
      BY <1>0, <2>1, <3>1, CountFacts DEF WorkerType
    <3>5. Owed'
      BY <2>1, <3>1, <3>2 DEF Owed
    <3>6. Watched'
      BY <1>0, <2>1, <3>1, CountFacts DEF WorkerType, Watched
    <3> QED
      BY <3>3, <3>4, <3>5, <3>6
  <2>3. CASE n # 0
    <3>1. /\ Count("frames_encoded")
          /\ is_idr' = (\E i \in 1 .. n : Coded(key)[i])
          /\ last_encode_at_seen' = stats["frames_seen"]
          /\ stall_warned' = FALSE /\ dry' = 0
          /\ pc' = IF is_idr' THEN "clear" ELSE "push"
      BY <1>4, <2>3 DEF EncodeTakes
    <3>6. is_idr' \in BOOLEAN
      BY <3>1
    <3>7. pc' \in {"clear", "push"}
      BY <3>1
    <3>8. {force_idr, was_active, stall_warned, force, is_idr}'
            \subseteq BOOLEAN
      BY <1>0, <2>1, <3>1, <3>6 DEF WorkerType
    <3>9. stats' \in [Counters -> Nat] /\ stats["frames_seen"] \in Nat
      BY <1>0, <3>1, CountFacts DEF WorkerType
    <3>10. WorkerType'
      BY <1>0, <2>1, <3>1, <3>7, <3>8, <3>9 DEF WorkerType
    <3>11. Accounting'
      BY <1>0, <2>1, <3>1, <3>7, DoneWithKeeps
    <3>2. WorkerType' /\ Accounting'
      BY <3>10, <3>11
    <3>3. ASSUME backend = "x264" PROVE inflight' = <<>> /\ (force => is_idr')
      <4>1. Coded(key) = <<key>>
        BY <3>3 DEF Owed, Coded
      <4>2. n = 1
        BY <2>1, <2>3, <3>3, <4>1 DEF Outputs
      <4>3. inflight' = <<>>
        BY <2>1, <4>1, <4>2
      <4>4. is_idr' = key
        <5>1. 1 .. n = {1} /\ Coded(key)[1] = key
          BY <4>1, <4>2
        <5>2. (\E i \in 1 .. n : Coded(key)[i]) = key
          BY <5>1, Zenon
        <5> QED
          BY <3>1, <5>2, Zenon
      <4> QED
        BY <2>1, <4>3, <4>4 DEF Obeys
    <3>4. Owed'
      <4>1. pc' = "clear" => is_idr'
        BY <3>1
      <4>2. force' = force /\ waiting' = waiting /\ backend' = backend
        BY <2>1
      <4>3. ASSUME backend = "x264", waiting >= 0 PROVE force_idr \/ force
        BY <2>1, <4>3 DEF Owed
      <4>4. ASSUME backend = "x264", waiting >= 0 PROVE force_idr' \/ is_idr'
        BY <2>1, <3>3, <4>3, <4>4
      <4> QED
        <5>1. ASSUME backend' = "x264" PROVE inflight' = <<>>
          BY <3>3, <4>2, <5>1
        <5>2. ASSUME backend' = "x264", waiting' >= 0
              PROVE  force_idr' \/ (pc' \in {"clear", "push"} /\ is_idr')
          BY <3>7, <4>2, <4>4, <5>2
        <5> QED
          BY <4>1, <5>1, <5>2, Zenon DEF Owed
    <3>5. Watched'
      <4>1. was_active' /\ dry' = 0
        BY <2>1, <3>1 DEF Watched
      <4>2. stats'["frames_seen"] = stats["frames_seen"]
        BY <1>0, <3>1, CountFacts
      <4>3. Gap' = 0
        BY <3>1, <3>9, <4>2
      <4>4. InHand' = 0
        BY <3>7
      <4> QED
        BY <1>0, <3>7, <4>1, <4>3, <4>4 DEF Watched
    <3> QED
      BY <3>2, <3>4, <3>5
  <2> QED
    BY <2>2, <2>3
<1> QED
  BY <1>1, <1>2, <1>3, <1>4 DEF Encode

\* A unit goes to the ring; a keyframe has cleared the flag before.
LEMMA PushKeeps ==
  ASSUME WorkerInv, Clear \/ PushUnit
  PROVE  WorkerInv'
<1> USE DEF WorkerInv
<1>1. CASE Clear
  BY <1>1 DEF Clear, WorkerType, Accounting, Owed, Watched
<1>2. CASE PushUnit
  <2>1. /\ pc = "push" /\ pc' = "poll"
        /\ waiting' = IF is_idr THEN -1
                      ELSE IF waiting = -1 THEN -1 ELSE waiting + 1
        /\ UNCHANGED <<backend, inflight, is_idr, was_active, dry, force,
                       last_encode_at_seen, stall_warned, stats, force_idr,
                       kind, box>>
    BY <1>2 DEF PushUnit
  <2>2. WorkerType' /\ Accounting' /\ Watched'
    BY <2>1 DEF WorkerType, Accounting, Watched
  <2>3. Owed'
    BY <2>1 DEF WorkerType, Owed
  <2> QED
    BY <2>2, <2>3
<1> QED
  BY <1>1, <1>2

LEMMA WorkerInvStep == WorkerInv /\ [Next]_vars => WorkerInv'
BY OthersKeep, LookKeeps, EncodeKeeps, PushKeeps DEF Next, Worker

LEMMA WorkerInvAlways == Spec => []WorkerInv
BY WorkerInvInit, WorkerInvStep, PTL DEF Spec

\* Drop accounting is exact, whatever the encoder does.
THEOREM CountersAddUp == Spec => []Accounting
<1>1. WorkerInv => Accounting
  BY DEF WorkerInv
<1> QED
  BY <1>1, WorkerInvAlways, PTL

\* libx264 forgets no request, whenever it is made.
THEOREM RequestsKept == Spec => []RequestKept
<1>1. WorkerInv => RequestKept
  BY DEF WorkerInv, Owed, RequestKept, Remembered, Coming
<1> QED
  BY <1>1, WorkerInvAlways, PTL

\* A stall that lasts longer than the threshold has been reported.
THEOREM StallsReported == Spec => []StallReported
<1>1. WorkerInv => StallReported
  BY WorkerAssumption DEF WorkerInv, WorkerType, Watched, StallReported
<1> QED
  BY <1>1, WorkerInvAlways, PTL

\* And nothing else is.
THEOREM AlarmsTrue == Spec => NoFalseAlarm
<1>1. WorkerInv /\ [Next]_vars
        => [stall_warned' /\ ~stall_warned => dry + 1 >= StallFrames]_vars
  <2> SUFFICES ASSUME WorkerInv, Next, stall_warned', ~stall_warned
               PROVE  dry + 1 >= StallFrames
    OBVIOUS
  <2>1. CheckActive
    BY DEF Next, Publish, SetActive, Request, Drain, Stop, Done, vars, Worker,
           Take, Exit, CheckIdle, Exchange, Encode, EncodeTakes,
           EncodeRefuses, EncodeFails, Clear, PushUnit
  <2>2. pc = "check" /\ stats["frames_seen"] - Since >= StallFrames
    BY <2>1 DEF CheckActive, Watchdog
  <2>3. StallFrames \in Nat \ {0} /\ WorkerType /\ Watched
    BY WorkerAssumption DEF WorkerInv
  <2>4. stats["frames_seen"] \in Nat /\ last_encode_at_seen \in Nat
        /\ dry \in Nat
    BY <2>3 DEF WorkerType
  <2>5. was_active /\ Since = last_encode_at_seen
    BY <2>2, <2>3, <2>4 DEF Since
  <2> QED
    BY <2>2, <2>3, <2>4, <2>5 DEF Watched
<1> QED
  BY <1>1, WorkerInvAlways, PTL DEF Spec, NoFalseAlarm
-----------------------------------------------------------------------------
(* What the threads that serve viewers may expect of the worker.           *)

Items == [unit : [is_idr : BOOLEAN], sequence : Int]

\* Whether each unit of a queue is a keyframe: what Ring is of the ring.
Idrs(q) == [i \in DOMAIN q |-> q[i].unit.is_idr]

LEMMA IdrsTail ==
  ASSUME NEW S, NEW q \in Seq(S), q # <<>>
  PROVE  /\ Idrs(Tail(q)) = Tail(Idrs(q))
         /\ Idrs(q) # <<>> /\ Len(Idrs(q)) = Len(q)
<1>1. DOMAIN q = 1 .. Len(q) /\ Len(q) \in Nat /\ Len(q) # 0
  OBVIOUS
<1>2. Idrs(q) \in Seq({q[i].unit.is_idr : i \in 1 .. Len(q)})
  BY <1>1 DEF Idrs
<1>3. Len(Idrs(q)) = Len(q)
  BY <1>1, <1>2 DEF Idrs
<1>4. Idrs(Tail(q)) = [i \in 1 .. Len(q) - 1 |-> q[i + 1].unit.is_idr]
  BY <1>1 DEF Idrs
<1>5. Tail(Idrs(q)) = [i \in 1 .. Len(q) - 1 |-> q[i + 1].unit.is_idr]
  BY <1>1, <1>2, <1>3 DEF Idrs
<1> QED
  BY <1>1, <1>3, <1>4, <1>5

LEMMA IdrsAppend ==
  ASSUME NEW S, NEW q \in Seq(S), NEW x \in S
  PROVE  /\ Idrs(Append(q, x)) = Append(Idrs(q), x.unit.is_idr)
         /\ Len(Idrs(q)) = Len(q)
<1>1. DOMAIN q = 1 .. Len(q) /\ Len(q) \in Nat
  OBVIOUS
<1>2. Idrs(q) \in Seq({q[i].unit.is_idr : i \in 1 .. Len(q)})
  BY <1>1 DEF Idrs
<1>3. Len(Idrs(q)) = Len(q)
  BY <1>1, <1>2 DEF Idrs
<1> DEFINE all == [i \in 1 .. Len(q) + 1 |->
                     IF i = Len(q) + 1 THEN x.unit.is_idr
                     ELSE q[i].unit.is_idr]
<1>4. Idrs(Append(q, x)) = all
  BY <1>1 DEF Idrs
<1>5. Append(Idrs(q), x.unit.is_idr) = all
  BY <1>1, <1>2, <1>3 DEF Idrs
<1> QED
  BY <1>3, <1>4, <1>5

QueueType == queue \in Seq(Items) /\ sequence \in Int

LEMMA QueueTypeInit == Init => QueueType
BY DEF Init, QueueInit, QueueType

LEMMA QueueTypeStep == WorkerInv /\ QueueType /\ [Next]_vars => QueueType'
<1> SUFFICES ASSUME WorkerInv, QueueType, [Next]_vars PROVE QueueType'
  OBVIOUS
<1>1. CASE PushUnit
  <2> DEFINE x == [unit |-> [is_idr |-> is_idr], sequence |-> sequence]
             q == IF Len(queue) = Slots THEN Tail(queue) ELSE queue
  <2>1. x \in Items
    BY DEF WorkerInv, WorkerType, QueueType, Items
  <2>2. q \in Seq(Items)
    BY SlotsAssumption DEF QueueType
  <2>3. queue' = Append(q, x) /\ sequence' = sequence + 1
    BY <1>1 DEF PushUnit, Push
  <2> HIDE DEF x, q
  <2> QED
    BY <2>1, <2>2, <2>3 DEF QueueType
<1>2. CASE Drain
  BY <1>2 DEF Drain, Pop, QueueType
<1>3. CASE ~PushUnit /\ ~Drain
  <2>1. UNCHANGED <<queue, sequence>>
    BY <1>3 DEF Next, vars, queueVars, Publish, SetActive, Request, Stop, Done,
                Worker, Take, Exit, CheckIdle, CheckActive, Exchange, Encode,
                EncodeTakes, EncodeRefuses, EncodeFails, Clear
  <2> QED
    BY <2>1 DEF QueueType
<1> QED
  BY <1>1, <1>2, <1>3

\* What the frames, the viewers and the counters do is invisible, and so is the
\* end of the thread.
LEMMA OthersInvisible ==
  ASSUME \/ \E k \in Kinds : Publish(k)
         \/ \E b \in BOOLEAN : SetActive(b)
         \/ Stop \/ Done \/ Take \/ Exit \/ CheckIdle \/ EncodeFails
         \/ UNCHANGED vars
  PROVE  UNCHANGED Contract!encodeVars
BY DEF Publish, SetActive, Stop, Done, Take, Exit, CheckIdle, EncodeFails, vars,
       queueVars, Stage, Ring, Contract!encodeVars, Contract!threadVars

\* Each step with libx264 is one that EncodeThread permits.
LEMMA ContractStep ==
  ASSUME WorkerInv, QueueType, [Next]_vars, backend = "x264"
  PROVE  [Contract!Next]_(Contract!encodeVars)
<1> USE DEF Contract!threadVars, Contract!Goes, Contract!Thread, Stage
<1>1. CASE Request
  <2>1. Contract!Ask
    BY <1>1 DEF Request, Contract!Ask, queueVars, Ring
  <2> QED
    BY <2>1 DEF Contract!Next
<1>2. CASE Drain
  <2>1. queue # <<>> /\ queue' = Tail(queue)
        /\ UNCHANGED <<force_idr, force, is_idr, pc>>
    BY <1>2 DEF Drain, Pop
  <2>2. Ring # <<>> /\ Ring' = Tail(Ring)
    BY <2>1, IdrsTail DEF QueueType, Ring, Idrs
  <2>3. Contract!Fetch
    BY <2>1, <2>2 DEF Contract!Fetch
  <2> QED
    BY <2>3 DEF Contract!Next
<1>3. CASE CheckActive
  <2>1. UNCHANGED <<force_idr, force, is_idr, queue>>
        /\ pc = "check" /\ pc' \in {"poll", "exchange"}
    BY <1>3 DEF CheckActive, queueVars, WorkerInv, WorkerType
  <2>2. Contract!Begin \/ UNCHANGED Contract!encodeVars
    BY <2>1 DEF Contract!Begin, Contract!encodeVars, Ring
  <2> QED
    BY <2>2 DEF Contract!Next
<1>4. CASE Exchange
  <2>1. Contract!Exchange
    BY <1>4 DEF Exchange, Contract!Exchange, queueVars, Ring
  <2> QED
    BY <2>1 DEF Contract!Next
<1>5. ASSUME NEW key \in BOOLEAN, NEW n \in 0 .. Depth + 1, EncodeTakes(key, n)
      PROVE  Contract!Code(key)
  <2>1. inflight = <<>> /\ Coded(key) = <<key>>
    BY DEF WorkerInv, Owed, Coded
  <2>2. Len(Coded(key)) = 1
    BY <2>1
  <2>3. n = 1
    BY <1>5, <2>2 DEF EncodeTakes, Outputs
  <2>4. /\ pc = "encode" /\ (force => key)
        /\ UNCHANGED <<force_idr, force, queue>>
    BY <1>5 DEF EncodeTakes, queueVars, Obeys
  <2>5. /\ is_idr' = (\E i \in 1 .. n : Coded(key)[i])
        /\ pc' = IF is_idr' THEN "clear" ELSE "push"
    <3>1. n # 0
      BY <2>3
    <3> QED
      BY <1>5, <3>1, Zenon DEF EncodeTakes
  <2>6. is_idr' = key
    <3>1. 1 .. n = {1}
      BY <2>3
    <3>2. Coded(key)[1] = key
      BY <2>1
    <3>3. (\E i \in 1 .. n : Coded(key)[i]) <=> key
      BY <3>1, <3>2, Zenon
    <3>4. (\E i \in 1 .. n : Coded(key)[i]) = key
      BY <3>3, Zenon
    <3> QED
      BY <2>5, <3>4, Zenon
  <2>7. pc' = IF key THEN "clear" ELSE "push"
    <3>1. is_idr' <=> key
      BY <2>6, Zenon
    <3>2. (is_idr' => pc' = "clear") /\ (~is_idr' => pc' = "push")
      BY <2>5, Zenon
    <3> QED
      BY <3>1, <3>2, Zenon
  <2>8. UNCHANGED Ring
    BY <2>4 DEF Ring
  <2>9. Stage = "encode" /\ Stage' = IF key THEN "clear" ELSE "push"
    BY <2>4, <2>7
  <2> QED
    BY <2>4, <2>6, <2>8, <2>9, Zenon DEF Contract!Code
<1>6. CASE EncodeRefuses
  BY <1>6 DEF EncodeRefuses
<1>7. CASE Clear
  <2>1. Contract!Clear
    BY <1>7 DEF Clear, Contract!Clear, queueVars, Ring
  <2> QED
    BY <2>1 DEF Contract!Next
<1>8. CASE PushUnit
  <2> DEFINE x == [unit |-> [is_idr |-> is_idr], sequence |-> sequence]
             q == IF Len(queue) = Slots THEN Tail(queue) ELSE queue
  <2>1. /\ queue' = Append(q, x)
        /\ pc = "push" /\ pc' = "poll"
        /\ UNCHANGED <<force_idr, force, is_idr>>
    BY <1>8 DEF PushUnit, Push
  <2>2. x \in Items /\ x.unit.is_idr = is_idr
    BY DEF WorkerInv, WorkerType, QueueType, Items
  <2>3. queue \in Seq(Items) /\ Slots \in Nat \ {0}
    BY SlotsAssumption DEF QueueType
  <2>4. q \in Seq(Items)
    BY <2>3
  <2>5. Len(Ring) = Len(queue)
    BY <2>2, <2>3, IdrsAppend DEF Ring, Idrs
  <2>6. Idrs(q) = IF Len(queue) = Slots THEN Tail(Ring) ELSE Ring
    BY <2>3, IdrsTail DEF Ring, Idrs
  <2> HIDE DEF x, q
  <2>7. Ring' = Append(Idrs(q), is_idr)
    <3>1. Ring' = Idrs(queue')
      BY DEF Ring, Idrs
    <3> QED
      BY <2>1, <2>2, <2>4, <3>1, IdrsAppend
  <2>8. Contract!Push
    BY <2>1, <2>5, <2>6, <2>7 DEF Contract!Push
  <2> QED
    BY <2>8 DEF Contract!Next
<1>9. CASE \/ \E k \in Kinds : Publish(k)
           \/ \E b \in BOOLEAN : SetActive(b)
           \/ Stop \/ Done \/ Take \/ Exit \/ CheckIdle \/ EncodeFails
           \/ UNCHANGED vars
  BY <1>9, OthersInvisible
<1> QED
  BY <1>1, <1>2, <1>3, <1>4, <1>5, <1>6, <1>7, <1>8, <1>9
     DEF Next, Worker, Encode, Contract!Next

\* With libx264 the worker is what the threads that serve viewers take it for:
\* whatever they do, it takes a request only to code a keyframe, answers the
\* later ones only with one, and pushes what it coded.
THEOREM WorkerKeepsContract == Spec => KeepsContract
<1>1. Init => Contract!Init
  <2>1. ASSUME Init PROVE Ring = <<>>
    BY <2>1 DEF Init, QueueInit, Ring
  <2> QED
    BY <2>1 DEF Init, Contract!Init, Stage
<1>2. Spec => []QueueType
  BY QueueTypeInit, QueueTypeStep, WorkerInvAlways, PTL DEF Spec
<1>3. WorkerInv /\ QueueType /\ [Next]_vars
        => [backend = "x264" => Contract!Next]_<<Contract!encodeVars>>
  BY ContractStep
<1> QED
  BY <1>1, <1>2, <1>3, WorkerInvAlways, PTL DEF Spec, KeepsContract
=============================================================================
