--------------------------- MODULE LifecycleProofs ---------------------------
(***************************************************************************)
(* The whole program implements the hub it is built on: whatever the main  *)
(* thread starts, stops and releases, and whichever thread calls into the  *)
(* hub under the encode worker's name, the hub sees one of its own steps.  *)
(***************************************************************************)
EXTENDS Lifecycle, FrameHubProofs

\* The encode worker is a thread of the hub.
LEMMA EncoderFacts == Encoder \in Consumers /\ Encoder \in Threads
                      /\ Publisher \in Threads /\ SingleConsumer
BY LifecycleAssumption DEF Threads, SingleConsumer

\* The main thread creates, fails, starts and stops: the hub sees at most the
\* encode worker subscribe or unsubscribe.
LEMMA MainStep == Main => [Next]_vars
<1> SUFFICES ASSUME Main PROVE [Next]_vars
  OBVIOUS
<1>1. ASSUME Subscribe(Encoder) PROVE Next
  BY <1>1, EncoderFacts DEF Next, Consume
<1>2. CASE CreateEncoderWorker \/ AbandonEncoderWorker
  BY <1>1, <1>2 DEF CreateEncoderWorker, AbandonEncoderWorker
<1>3. CASE MainUnsubscribes
  BY <1>3, EncoderFacts DEF MainUnsubscribes, Next, Consume
<1>4. CASE \/ Abandoned \/ StartSource \/ StartSourceFails \/ Serve \/ Return
           \/ \E w \in Workers : StopWorker(w)
  BY <1>4 DEF Abandoned, StartSource, StartSourceFails, Serve, Return,
              StopWorker
<1>5. CASE \E x : Create(x) \/ CreateFails(x) \/ StartThread(x) \/ Skip(x)
                    \/ Destroy(x)
  BY <1>5 DEF Create, CreateFails, StartThread, Skip, Destroy
<1> QED
  BY <1>2, <1>3, <1>4, <1>5 DEF Main

\* The source worker publishes, or works on the camera.
LEMMA SourceStep == SourceThread => [Next]_vars
<1> SUFFICES ASSUME SourceThread PROVE [Next]_vars
  OBVIOUS
<1>1. CASE PublishBegins
  BY <1>1 DEF PublishBegins, Next, Publish
<1>2. CASE PublishGoesOn
  BY <1>2, EncoderFacts DEF PublishGoesOn, Next, Publish
<1>3. CASE \/ SourceChecks \/ CapturesNothing \/ PublishEnds \/ Releases
           \/ \E b \in Buffers : Captures(b) \/ CapturesBad(b)
  BY <1>3 DEF SourceChecks, CapturesNothing, PublishEnds, Releases, Captures,
              CapturesBad
<1> QED
  BY <1>1, <1>2, <1>3 DEF SourceThread

\* The encode worker takes and releases frames, pushes units, or ends.
LEMMA EncoderStep == EncoderThread => [Next]_vars
<1> SUFFICES ASSUME EncoderThread PROVE [Next]_vars
  OBVIOUS
<1>1. CASE EncoderTakes \/ EncoderReleases
  BY <1>1, EncoderFacts DEF EncoderTakes, EncoderReleases, Next, Consume
<1>2. CASE EncoderUnrefs
  BY <1>2, EncoderFacts DEF EncoderUnrefs, Next
<1>3. CASE EncoderPushes \/ EncoderEnds
  BY <1>3 DEF EncoderPushes, EncoderEnds
<1> QED
  BY <1>1, <1>2, <1>3 DEF EncoderThread

LEMMA LifeStep == [LifeNext]_lifeVars => [Next]_vars
<1> SUFFICES ASSUME [LifeNext]_lifeVars PROVE [Next]_vars
  OBVIOUS
<1>1. CASE Stop \/ JanusEnds \/ Ended \/ UNCHANGED lifeVars
  BY <1>1 DEF Stop, JanusEnds, Ended, lifeVars
<1> QED
  BY <1>1, MainStep, SourceStep, EncoderStep DEF LifeNext

\* Every run of the program is, for the hub, a run of its specification.
THEOREM LifeImplementsHub == LifeSpec => Spec
<1>1. LifeInit => Init
  BY DEF LifeInit
<1> QED
  BY <1>1, LifeStep, PTL DEF LifeSpec, Spec

\* So locks and their order, list and references are right in the whole program
\* too, up to the last step of its shutdown.
THEOREM HubCorrectInProgram ==
  LifeSpec => [](Control /\ LocksNest /\ Ownership)
<1>1. Spec => []Ownership
  BY EncoderFacts, OwnershipCorrect
<1> QED
  BY <1>1, LifeImplementsHub, ControlCorrect, NoCircularWait, PTL
-----------------------------------------------------------------------------
(* Nothing that is released is still in use.  The inductive invariant says *)
(* what the rest of the plan promises about the order of things.           *)

Things == {"dtls", "source", "hub", "source_worker", "source_thread", "encoder",
           "ring", "encoder_worker", "encoder_thread", "janus_sender",
           "janus_thread", "mgr", "listener"}

Places == {"none", "top", "capture", "publish", "publishing", "release",
           "push", "fatal", "done"}

RangeOf(s) == {s[i] : i \in DOMAIN s}
Rest == RangeOf(plan)

\* Nothing comes before what `bad' says must come first.
Ordered(s, bad) == \A i, j \in DOMAIN s : i < j => <<s[i], s[j]>> \notin bad

\* A thread is started after what it uses, and a thing is created once.
BadStart == {<<"source_thread", "source">>, <<"source_thread", "hub">>,
             <<"source_thread", "source_worker">>,
             <<"source_thread", "source_thread">>,
             <<"encoder_worker", "hub">>, <<"encoder_thread", "hub">>,
             <<"encoder_thread", "encoder">>,
             <<"encoder_thread", "encoder_worker">>,
             <<"janus_thread", "janus_sender">>, <<"hub", "hub">>}

\* A thread is over before what it uses is released.
BadStop == {<<"source", "source_worker">>, <<"hub", "source_worker">>,
            <<"hub", "encoder_worker">>, <<"encoder", "encoder_worker">>,
            <<"ring", "encoder_worker">>, <<"ring", "janus_sender">>}

LifeType ==
  /\ main \in {"starting", "abandoning", "serving", "stopping", "ended"}
  /\ plan \in Seq(Things)
  /\ thread \in [Workers -> Places]

\* The first part of NothingDangling, worker by worker.
UsesAlive ==
  /\ Live("source_worker") => {"source_worker", "source", "hub"} \subseteq alive
  /\ Live("encoder_worker") =>
       {"encoder_worker", "hub", "encoder", "ring"} \subseteq alive
  /\ Live("janus_sender") => {"janus_sender", "ring"} \subseteq alive

\* A buffer is lent while the source worker has a frame in hand.
Lent ==
  held # None =>
    /\ thread["source_worker"] \in {"publish", "publishing", "release"}
    /\ held \notin queued

\* The encode worker's mailbox goes with the encode worker.
Listed ==
  list # {} => /\ "hub" \in alive
               /\ main = "abandoning" \/ "encoder_worker" \in alive

\* What the plan no longer lists is there.
Present ==
  /\ {"source", "hub", "source_worker", "encoder", "encoder_worker"}
       \subseteq Rest \cup alive
  /\ "encoder_thread" \in Rest \/ "ring" \in alive
  /\ "janus_thread" \in Rest => "janus_sender" \in Rest \cup alive
  /\ "hub" \in Rest => "hub" \notin alive
  /\ "source_thread" \in Rest => thread["source_worker"] = "none"

\* What the plan still lists is used only by threads it lists too.
Quiet ==
  /\ {"source", "hub"} \cap Rest # {} /\ Live("source_worker")
       => "source_worker" \in Rest
  /\ {"hub", "encoder", "ring"} \cap Rest # {} /\ Live("encoder_worker")
       => "encoder_worker" \in Rest
  /\ "ring" \in Rest /\ Live("janus_sender") => "janus_sender" \in Rest
  /\ "hub" \in Rest /\ list # {} => "encoder_worker" \in Rest

Starting == main = "starting" => Ordered(plan, BadStart) /\ Present
Serving  == main = "serving" => {"ring", "hub", "encoder_worker"} \subseteq alive
Stopping == main = "stopping" => Ordered(plan, BadStop) /\ Quiet

LifeInv == LifeType /\ UsesAlive /\ Lent /\ Listed /\ Starting /\ Serving
             /\ Stopping

\* Taking the first element off a sequence.
LEMMA TailFacts ==
  ASSUME NEW s \in Seq(Things), s # <<>>
  PROVE  /\ Tail(s) \in Seq(Things)
         /\ RangeOf(s) = {Head(s)} \cup RangeOf(Tail(s))
<1>1. /\ Tail(s) \in Seq(Things) /\ Len(s) \in Nat \ {0} /\ Head(s) = s[1]
      /\ Len(Tail(s)) = Len(s) - 1 /\ DOMAIN s = 1 .. Len(s)
      /\ DOMAIN Tail(s) = 1 .. Len(s) - 1
      /\ \A i \in 1 .. Len(s) - 1 : Tail(s)[i] = s[i + 1]
  OBVIOUS
<1>2. ASSUME NEW x \in RangeOf(s) PROVE x = Head(s) \/ x \in RangeOf(Tail(s))
  <2>1. PICK i \in DOMAIN s : x = s[i]
    BY <1>2 DEF RangeOf
  <2>2. CASE i = 1
    BY <2>1, <2>2, <1>1
  <2>3. CASE i # 1
    <3>1. i - 1 \in DOMAIN Tail(s) /\ x = Tail(s)[i - 1]
      BY <2>1, <2>3, <1>1
    <3> QED
      BY <3>1 DEF RangeOf
  <2> QED
    BY <2>2, <2>3
<1>3. Head(s) \in RangeOf(s)
  <2>1. 1 \in DOMAIN s /\ Head(s) = s[1]
    BY <1>1
  <2> QED
    BY <2>1 DEF RangeOf
<1>4. ASSUME NEW x \in RangeOf(Tail(s)) PROVE x \in RangeOf(s)
  <2>1. PICK i \in DOMAIN Tail(s) : x = Tail(s)[i]
    BY <1>4 DEF RangeOf
  <2>2. i + 1 \in DOMAIN s /\ x = s[i + 1]
    BY <2>1, <1>1
  <2> QED
    BY <2>2 DEF RangeOf
<1> QED
  BY <1>1, <1>2, <1>3, <1>4

LEMMA OrderedTail ==
  ASSUME NEW s \in Seq(Things), s # <<>>, NEW bad, Ordered(s, bad)
  PROVE  /\ Ordered(Tail(s), bad)
         /\ \A y \in RangeOf(Tail(s)) : <<Head(s), y>> \notin bad
<1>1. /\ Len(s) \in Nat \ {0} /\ Head(s) = s[1] /\ DOMAIN s = 1 .. Len(s)
      /\ DOMAIN Tail(s) = 1 .. Len(s) - 1
      /\ \A i \in 1 .. Len(s) - 1 : Tail(s)[i] = s[i + 1]
  OBVIOUS
<1>2. ASSUME NEW i \in DOMAIN Tail(s), NEW j \in DOMAIN Tail(s), i < j
      PROVE  <<Tail(s)[i], Tail(s)[j]>> \notin bad
  <2>1. /\ i + 1 \in DOMAIN s /\ j + 1 \in DOMAIN s /\ i + 1 < j + 1
        /\ Tail(s)[i] = s[i + 1] /\ Tail(s)[j] = s[j + 1]
    BY <1>1, <1>2
  <2> QED
    BY <2>1 DEF Ordered
<1>3. ASSUME NEW y \in RangeOf(Tail(s)) PROVE <<Head(s), y>> \notin bad
  <2>1. PICK j \in DOMAIN Tail(s) : y = Tail(s)[j]
    BY <1>3 DEF RangeOf
  <2>2. 1 \in DOMAIN s /\ j + 1 \in DOMAIN s /\ 1 < j + 1 /\ y = s[j + 1]
    BY <2>1, <1>1
  <2> QED
    BY <2>2, <1>1 DEF Ordered
<1> QED
  BY <1>2, <1>3 DEF Ordered

\* The orders in which the program starts, stops and unwinds.
LEMMA StartFacts ==
  ASSUME NEW janus \in BOOLEAN
  PROVE  /\ StartOrder(janus) \in Seq(Things)
         /\ Ordered(StartOrder(janus), BadStart)
         /\ {"source", "hub", "source_worker", "encoder", "encoder_worker",
             "encoder_thread"} \subseteq RangeOf(StartOrder(janus))
         /\ "janus_thread" \in RangeOf(StartOrder(janus))
              => "janus_sender" \in RangeOf(StartOrder(janus))
<1> USE DEF StartOrder, Ordered, BadStart, RangeOf, Things
<1>1. CASE janus
  <2>1. StartOrder(TRUE) \in Seq(Things)
    OBVIOUS
  <2>2. Ordered(StartOrder(TRUE), BadStart)
    OBVIOUS
  <2>3. RangeOf(StartOrder(TRUE)) =
          {"source", "hub", "source_worker", "source_thread", "encoder",
           "ring", "encoder_worker", "encoder_thread", "janus_sender",
           "janus_thread", "mgr", "listener"}
    OBVIOUS
  <2> HIDE DEF StartOrder, Ordered, BadStart, RangeOf, Things
  <2>4. janus = TRUE
    BY <1>1
  <2> QED
    BY <2>1, <2>2, <2>3, <2>4
<1>2. CASE ~janus
  <2>1. StartOrder(FALSE) \in Seq(Things)
    OBVIOUS
  <2>2. Ordered(StartOrder(FALSE), BadStart)
    OBVIOUS
  <2>3. RangeOf(StartOrder(FALSE)) =
          {"dtls", "source", "hub", "source_worker", "source_thread",
           "encoder", "ring", "encoder_worker", "encoder_thread", "mgr",
           "listener"}
    OBVIOUS
  <2> HIDE DEF StartOrder, Ordered, BadStart, RangeOf, Things
  <2>4. janus = FALSE
    BY <1>2
  <2> QED
    BY <2>1, <2>2, <2>3, <2>4
<1> QED
  BY <1>1, <1>2

LEMMA StopFacts ==
  /\ StopOrder \in Seq(Things) /\ FailOrder \in Seq(Things)
  /\ Ordered(StopOrder, BadStop) /\ Ordered(FailOrder, BadStop)
  /\ Workers \subseteq RangeOf(StopOrder) /\ Workers \subseteq RangeOf(FailOrder)
<1>1. StopOrder \in Seq(Things) /\ FailOrder \in Seq(Things)
  BY DEF StopOrder, FailOrder, Things
<1>2. Ordered(StopOrder, BadStop)
  BY DEF StopOrder, Ordered, BadStop
<1>3. Ordered(FailOrder, BadStop)
  BY DEF FailOrder, Ordered, BadStop
<1>4. RangeOf(StopOrder) =
        {"janus_sender", "listener", "encoder_worker", "encoder",
         "source_worker", "hub", "source", "dtls"}
  BY DEF RangeOf, StopOrder
<1>5. RangeOf(FailOrder) =
        {"listener", "janus_sender", "encoder_worker", "encoder",
         "source_worker", "ring", "hub", "source", "dtls"}
  BY DEF RangeOf, FailOrder
<1> QED
  BY <1>1, <1>2, <1>3, <1>4, <1>5 DEF Workers

\* A step that takes the first element off the plan.
LEMMA PlanTail ==
  ASSUME LifeType, plan # <<>>, plan' = Tail(plan)
  PROVE  /\ plan' \in Seq(Things)
         /\ Rest = {Head(plan)} \cup Rest'
         /\ Ordered(plan, BadStart) =>
              /\ Ordered(plan', BadStart)
              /\ \A y \in Rest' : <<Head(plan), y>> \notin BadStart
         /\ Ordered(plan, BadStop) =>
              /\ Ordered(plan', BadStop)
              /\ \A y \in Rest' : <<Head(plan), y>> \notin BadStop
<1>1. /\ Tail(plan) \in Seq(Things)
      /\ RangeOf(plan) = {Head(plan)} \cup RangeOf(Tail(plan))
  BY TailFacts DEF LifeType
<1>2. ASSUME NEW bad, Ordered(plan, bad)
      PROVE  /\ Ordered(Tail(plan), bad)
             /\ \A y \in RangeOf(Tail(plan)) : <<Head(plan), y>> \notin bad
  BY <1>2, OrderedTail DEF LifeType
<1> QED
  BY <1>1, <1>2 DEF Rest

LEMMA LifeInvInit == LifeInit => LifeInv
<1> SUFFICES ASSUME LifeInit PROVE LifeInv
  OBVIOUS
<1>1. PICK janus \in BOOLEAN : plan = StartOrder(janus)
  BY DEF LifeInit
<1>2. LifeType /\ Starting
  BY <1>1, StartFacts
  DEF LifeInit, LifeType, Starting, Present, Rest, Workers, Places
<1>3. UsesAlive /\ Lent /\ Listed /\ Serving /\ Stopping
  BY DEF LifeInit, Init, UsesAlive, Live, Lent, Listed, Serving, Stopping,
         Workers
<1> QED
  BY <1>2, <1>3 DEF LifeInv

\* Only subscribe and unsubscribe change the list.
LEMMA ListStill ==
  ASSUME \/ Publish \/ Take(Encoder) \/ Release(Encoder)
         \/ UnsubscribeLock(Encoder)
         \/ \E t \in Threads : UnrefRead(t) \/ UnrefWrite(t)
  PROVE  list' = list
<1> USE DEF boxVars, vars, CallUnref
<1>1. CASE Publish
  BY <1>1
  DEF Publish, PublishExhausted, Acquire, Fill, PublishLock, Visit, RefRead,
      RefWrite, Install, PublishUnlock
<1>2. CASE Take(Encoder) \/ Release(Encoder) \/ UnsubscribeLock(Encoder)
  BY <1>2 DEF Take, Release, UnsubscribeLock
<1>3. CASE \E t \in Threads : UnrefRead(t) \/ UnrefWrite(t)
  BY <1>3 DEF UnrefRead, UnrefWrite
<1> QED
  BY <1>1, <1>2, <1>3

\* The mailbox of an encode worker that has unsubscribed is off the list.
LEMMA GoneUnlisted == TypeOK /\ Control /\ pc[Encoder] = "gone" => list = {}
BY LifecycleAssumption DEF TypeOK, Control, Membership

\* A step of a thread: the main thread stays where it is.  It is not the start
\* of a thread, and a buffer is lent, or given back, as the code says.
LEMMA ThreadKeeps ==
  ASSUME LifeInv, UNCHANGED mainVars, list' \subseteq list,
         thread' \in [Workers -> Places],
         \A w \in Workers : Live(w)' => Live(w),
         thread["source_worker"] = "none" => thread'["source_worker"] = "none",
         Lent'
  PROVE  LifeInv'
<1> USE DEF LifeInv, LifeType, mainVars, Workers
<1>1. LifeType'
  OBVIOUS
<1>2. UsesAlive'
  BY DEF UsesAlive
<1>3. Listed'
  BY DEF Listed
<1>4. Starting' /\ Serving'
  BY DEF Starting, Serving, Present, Rest
<1>5. Stopping'
  BY DEF Stopping, Quiet, Rest
<1> QED
  BY <1>1, <1>2, <1>3, <1>4, <1>5

\* A step of the source worker moves its own thread only, which may end.
LEMMA SourceMoves ==
  ASSUME LifeInv, SourceThread
  PROVE  /\ UNCHANGED mainVars /\ thread' \in [Workers -> Places]
         /\ thread["source_worker"] # "none"
         /\ \A w \in Workers : Live(w)' => Live(w)
<1> USE DEF SourceAt, Thread, Live, Workers, Places
<1>1. LifeType /\ thread["source_worker"] \in Places
  BY DEF LifeInv, LifeType
<1>2. /\ UNCHANGED mainVars /\ thread["source_worker"] \notin {"none", "done"}
      /\ \E place \in Places \ {"none"} :
           thread' = [thread EXCEPT !["source_worker"] = place]
  <2>1. CASE PublishGoesOn
    <3>1. UNCHANGED <<mainVars, thread>> /\ thread["source_worker"] = "publishing"
      BY <2>1 DEF PublishGoesOn
    <3>2. thread' = [thread EXCEPT !["source_worker"] = "publishing"]
      BY <1>1, <3>1 DEF LifeType
    <3> QED
      BY <3>1, <3>2
  <2>2. CASE SourceChecks
    BY <2>2 DEF SourceChecks
  <2>3. CASE CapturesNothing \/ PublishBegins \/ PublishEnds \/ Releases
    BY <2>3 DEF CapturesNothing, PublishBegins, PublishEnds, Releases
  <2>4. CASE \E b \in Buffers : Captures(b) \/ CapturesBad(b)
    BY <2>4 DEF Captures, CapturesBad
  <2> QED
    BY <2>1, <2>2, <2>3, <2>4 DEF SourceThread
<1> QED
  BY <1>1, <1>2 DEF LifeType

\* The source worker captures, publishes and gives its buffer back.
LEMMA SourceKeeps ==
  ASSUME LifeInv, SourceThread
  PROVE  LifeInv'
<1> USE DEF SourceAt, Thread, Live, Workers, Places
<1>1. LifeType /\ Lent
  BY DEF LifeInv
<1>2. /\ UNCHANGED mainVars /\ thread' \in [Workers -> Places]
      /\ thread["source_worker"] # "none"
      /\ \A w \in Workers : Live(w)' => Live(w)
  BY SourceMoves
<1>4. list' = list
  <2>1. CASE PublishBegins
    BY <2>1, ListStill DEF PublishBegins, Publish
  <2>2. CASE PublishGoesOn
    BY <2>2, ListStill, EncoderFacts DEF PublishGoesOn, Publish
  <2>3. CASE SourceChecks \/ CapturesNothing \/ PublishEnds \/ Releases
    BY <2>3 DEF SourceChecks, CapturesNothing, PublishEnds, Releases, vars,
                boxVars
  <2>4. CASE \E b \in Buffers : Captures(b) \/ CapturesBad(b)
    BY <2>4 DEF Captures, CapturesBad, vars, boxVars
  <2> QED
    BY <2>1, <2>2, <2>3, <2>4 DEF SourceThread
<1>5. Lent'
  <2> USE <1>1, LifecycleAssumption DEF LifeType, Lent, cameraVars
  <2>1. CASE PublishGoesOn
    BY <2>1 DEF PublishGoesOn
  <2>2. CASE SourceChecks \/ CapturesNothing \/ PublishEnds
    BY <2>2 DEF SourceChecks, CapturesNothing, PublishEnds
  <2>3. CASE PublishBegins
    BY <2>3 DEF PublishBegins
  <2>4. CASE Releases
    BY <2>4 DEF Releases
  <2>5. CASE \E b \in Buffers : Captures(b)
    BY <2>5 DEF Captures
  <2>6. CASE \E b \in Buffers : CapturesBad(b)
    BY <2>6 DEF CapturesBad
  <2> QED
    BY <2>1, <2>2, <2>3, <2>4, <2>5, <2>6 DEF SourceThread
<1> QED
  BY <1>2, <1>4, <1>5, ThreadKeeps

\* A step of the encode worker or of the Janus sender moves that thread only.
LEMMA WorkersMove ==
  ASSUME LifeInv, EncoderThread \/ JanusEnds
  PROVE  /\ UNCHANGED <<mainVars, cameraVars>>
         /\ thread' \in [Workers -> Places]
         /\ thread'["source_worker"] = thread["source_worker"]
         /\ \A w \in Workers : Live(w)' => Live(w)
<1> USE DEF EncoderAt, Thread, Live, Workers, Places
<1>1. LifeType
  BY DEF LifeInv
<1>2. /\ UNCHANGED <<mainVars, cameraVars>>
      /\ \E w \in {"encoder_worker", "janus_sender"}, place \in Places :
           /\ thread[w] \notin {"none", "done"}
           /\ thread' = [thread EXCEPT ![w] = place]
  <2>1. CASE EncoderTakes \/ EncoderUnrefs
    <3>1. /\ UNCHANGED <<mainVars, cameraVars, thread>>
          /\ thread["encoder_worker"] \in {"top", "push", "fatal"}
      BY <2>1 DEF EncoderTakes, EncoderUnrefs
    <3>2. thread' = [thread EXCEPT !["encoder_worker"] =
                                     thread["encoder_worker"]]
      BY <1>1, <3>1 DEF LifeType
    <3> QED
      BY <3>1, <3>2
  <2>2. CASE EncoderReleases \/ EncoderPushes
    BY <2>2 DEF EncoderReleases, EncoderPushes
  <2>3. CASE EncoderEnds
    BY <2>3 DEF EncoderEnds
  <2>4. CASE JanusEnds
    BY <2>4 DEF JanusEnds
  <2> QED
    BY <2>1, <2>2, <2>3, <2>4 DEF EncoderThread
<1> QED
  BY <1>1, <1>2 DEF LifeType

\* The encode worker and the Janus sender go round their loops, or end.
LEMMA WorkersKeep ==
  ASSUME LifeInv, EncoderThread \/ JanusEnds
  PROVE  LifeInv'
<1>1. LifeType /\ Lent
  BY DEF LifeInv
<1>2. /\ UNCHANGED <<mainVars, cameraVars>>
      /\ thread' \in [Workers -> Places]
      /\ thread'["source_worker"] = thread["source_worker"]
      /\ \A w \in Workers : Live(w)' => Live(w)
  BY WorkersMove
<1>4. list' = list
  <2>1. CASE EncoderTakes \/ EncoderReleases
    BY <2>1, ListStill DEF EncoderTakes, EncoderReleases
  <2>2. CASE EncoderUnrefs
    BY <2>2, ListStill, EncoderFacts DEF EncoderUnrefs
  <2>3. CASE EncoderPushes \/ EncoderEnds \/ JanusEnds
    BY <2>3 DEF EncoderPushes, EncoderEnds, JanusEnds, vars, boxVars
  <2> QED
    BY <2>1, <2>2, <2>3 DEF EncoderThread
<1>5. Lent'
  BY <1>1, <1>2 DEF Lent, cameraVars
<1> QED
  BY <1>1, <1>2, <1>4, <1>5, ThreadKeeps

\* What is unwound when a step of the start fails.
LEMMA UnwindFacts ==
  /\ \A x \in {"dtls", "source"} : Unwind(x) = <<>>
  /\ Unwind("hub") = <<"source">>
  /\ \A x : x \notin {"dtls", "source", "hub"} => Unwind(x) = FailOrder
BY DEF Unwind

LEMMA ShortPlans ==
  /\ <<>> \in Seq(Things) /\ Ordered(<<>>, BadStop) /\ RangeOf(<<>>) = {}
  /\ <<"source">> \in Seq(Things) /\ Ordered(<<"source">>, BadStop)
  /\ RangeOf(<<"source">>) = {"source"}
BY DEF Ordered, BadStop, RangeOf, Things

\* A failure of the start: nothing is touched but the plan.
LEMMA GiveUpKeeps ==
  ASSUME LifeInv, NEW x, GiveUp(x), UNCHANGED <<alive, thread, held, list>>,
         Lent', x = "hub" => "hub" \notin alive,
         list # {} => "encoder_worker" \in alive
  PROVE  LifeInv'
<1> USE DEF LifeInv
<1>1. /\ plan' \in Seq(Things) /\ Ordered(plan', BadStop) /\ main' = "stopping"
      /\ \/ Rest' = {}
         \/ x = "hub" /\ Rest' = {"source"}
         \/ Workers \subseteq Rest'
  <2>1. CASE x \in {"dtls", "source"}
    BY <2>1, UnwindFacts, ShortPlans DEF GiveUp, Rest
  <2>2. CASE x = "hub"
    BY <2>2, UnwindFacts, ShortPlans DEF GiveUp, Rest
  <2>3. CASE x \notin {"dtls", "source", "hub"}
    BY <2>3, UnwindFacts, StopFacts DEF GiveUp, Rest
  <2> QED
    BY <2>1, <2>2, <2>3
<1>2. Live("source_worker") => x # "hub"
  BY DEF UsesAlive
<1>3. Quiet'
  BY <1>1, <1>2 DEF Quiet, Live, Workers
<1>4. UsesAlive' /\ Listed'
  BY DEF UsesAlive, Live, Listed
<1>5. LifeType' /\ Starting' /\ Serving' /\ Stopping'
  BY <1>1, <1>3 DEF LifeType, Starting, Serving, Stopping
<1> QED
  BY <1>4, <1>5

\* A step of the start that creates something.
LEMMA CreateKeeps ==
  ASSUME LifeInv, NEW x, Create(x), x \notin {"encoder_thread", "janus_thread"}
  PROVE  LifeInv'
<1> USE DEF LifeInv
<1>1. /\ main = "starting" /\ main' = "starting" /\ plan # <<>>
      /\ x = Head(plan) /\ plan' = Tail(plan) /\ alive' = alive \cup {x}
      /\ UNCHANGED <<thread, held, queued, list>>
  BY DEF Create, At, cameraVars, vars, boxVars
<1>2. /\ plan' \in Seq(Things) /\ Rest = {x} \cup Rest'
      /\ Ordered(plan', BadStart)
      /\ \A y \in Rest' : <<x, y>> \notin BadStart
  BY <1>1, PlanTail DEF Starting
<1>3. Present'
  <2>1. Present
    BY <1>1 DEF Starting
  <2>2. x = "hub" => "hub" \notin Rest'
    BY <1>2 DEF BadStart
  <2> QED
    BY <1>1, <1>2, <2>1, <2>2 DEF Present
<1>4. LifeType' /\ Starting' /\ Serving' /\ Stopping'
  BY <1>1, <1>2, <1>3 DEF LifeType, Starting, Serving, Stopping
<1>5. UsesAlive' /\ Lent' /\ Listed'
  BY <1>1 DEF UsesAlive, Live, Lent, Listed
<1> QED
  BY <1>4, <1>5

\* A step that cannot be had: au_ring_create is passed over.
LEMMA CreateFailsKeeps ==
  ASSUME LifeInv, NEW x, CreateFails(x)
  PROVE  LifeInv'
<1> USE DEF LifeInv
<1>1. /\ main = "starting" /\ plan # <<>> /\ x = Head(plan)
      /\ UNCHANGED <<alive, thread, held, queued, list>>
  BY DEF CreateFails, At, cameraVars, vars, boxVars
<1>2. Lent' /\ (list # {} => "encoder_worker" \in alive)
  BY <1>1 DEF Lent, Listed
<1>3. ASSUME GiveUp(x) PROVE LifeInv'
  <2>1. Rest = {x} \cup RangeOf(Tail(plan))
    BY <1>1, TailFacts DEF LifeType, Rest
  <2>2. x = "hub" => "hub" \notin alive
    BY <1>1, <2>1 DEF Starting, Present
  <2> QED
    BY <1>1, <1>2, <1>3, <2>2, GiveUpKeeps
<1>4. ASSUME x = "ring", plan' = Tail(plan), main' = main PROVE LifeInv'
  <2>1. /\ plan' \in Seq(Things) /\ Rest = {"ring"} \cup Rest'
        /\ Ordered(plan', BadStart)
    BY <1>1, <1>4, PlanTail DEF Starting
  <2>2. Present'
    BY <1>1, <2>1 DEF Starting, Present
  <2>3. UsesAlive' /\ Listed'
    BY <1>1, <1>4 DEF UsesAlive, Live, Listed
  <2> QED
    BY <1>1, <1>2, <1>4, <2>1, <2>2, <2>3
    DEF LifeType, Starting, Serving, Stopping
<1> QED
  BY <1>3, <1>4 DEF CreateFails

\* encoder_worker_create, whether it succeeds or gives its mailbox up again.
LEMMA CreateEncoderKeeps ==
  ASSUME LifeInv, CreateEncoderWorker \/ AbandonEncoderWorker
  PROVE  LifeInv'
<1> USE DEF LifeInv
<1>1. /\ main = "starting" /\ plan # <<>> /\ Head(plan) = "encoder_worker"
      /\ UNCHANGED <<thread, held, queued>>
  BY DEF CreateEncoderWorker, AbandonEncoderWorker, At, cameraVars
<1>2. /\ Tail(plan) \in Seq(Things)
      /\ Rest = {"encoder_worker"} \cup RangeOf(Tail(plan))
      /\ Ordered(Tail(plan), BadStart)
      /\ "hub" \notin RangeOf(Tail(plan))
  <2>1. Ordered(plan, BadStart)
    BY <1>1 DEF Starting
  <2>2. \A y \in RangeOf(Tail(plan)) : <<"encoder_worker", y>> \notin BadStart
    BY <1>1, <2>1, OrderedTail DEF LifeType
  <2> QED
    BY <1>1, <2>1, <2>2, TailFacts, OrderedTail DEF LifeType, Rest, BadStart
<1>3. Present /\ "hub" \in alive
  BY <1>1, <1>2 DEF Starting, Present
<1>4. CASE CreateEncoderWorker
  <2>1. /\ main' = main /\ plan' = Tail(plan)
        /\ alive' = alive \cup {"encoder_worker"}
    BY <1>4 DEF CreateEncoderWorker
  <2>2. Rest' = RangeOf(Tail(plan))
    BY <2>1 DEF Rest
  <2>3. Present'
    BY <1>1, <1>2, <1>3, <2>1, <2>2 DEF Present
  <2>4. UsesAlive' /\ Lent' /\ Listed'
    BY <1>1, <1>3, <2>1 DEF UsesAlive, Live, Lent, Listed
  <2> QED
    BY <1>1, <1>2, <2>1, <2>3, <2>4
    DEF LifeType, Starting, Serving, Stopping
<1>5. CASE AbandonEncoderWorker
  <2>1. main' = "abandoning" /\ plan' = plan /\ alive' = alive
    BY <1>5 DEF AbandonEncoderWorker
  <2>2. UsesAlive' /\ Lent' /\ Listed'
    BY <1>1, <1>3, <2>1 DEF UsesAlive, Live, Lent, Listed
  <2> QED
    BY <1>1, <2>1, <2>2 DEF LifeType, Starting, Serving, Stopping
<1> QED
  BY <1>4, <1>5

\* The threads start after what they use has been created.
LEMMA StartKeeps ==
  ASSUME LifeInv,
         \/ StartSource
         \/ \E x \in {"encoder_thread", "janus_thread"} : StartThread(x)
  PROVE  LifeInv'
<1> USE DEF LifeInv
<1> DEFINE x == Head(plan)
<1>1. /\ main = "starting" /\ main' = "starting" /\ plan # <<>>
      /\ plan' = Tail(plan) /\ UNCHANGED <<alive, held, list>>
      /\ x \in {"source_thread", "encoder_thread", "janus_thread"}
      /\ thread' = [thread EXCEPT ![WorkerOf[x]] = "top"]
      /\ x # "source_thread" => "ring" \in alive /\ queued' = queued
  BY DEF StartSource, StartThread, At, cameraVars, vars, boxVars, Thread,
         WorkerOf
<1>2. /\ plan' \in Seq(Things) /\ Rest = {x} \cup Rest'
      /\ Ordered(plan', BadStart)
      /\ \A y \in Rest' : <<x, y>> \notin BadStart
  BY <1>1, PlanTail DEF Starting
<1>3. Present
  BY <1>1 DEF Starting
<1>4. thread' \in [Workers -> Places]
  BY <1>1 DEF LifeType, Workers, WorkerOf, Places
<1> HIDE DEF x
<1>5. CASE x = "source_thread"
  <2>1. /\ "source_thread" \notin Rest' /\ "source" \notin Rest'
        /\ "hub" \notin Rest' /\ "source_worker" \notin Rest'
    BY <1>2, <1>5 DEF BadStart
  <2>2. thread' = [thread EXCEPT !["source_worker"] = "top"]
    BY <1>1, <1>5 DEF WorkerOf
  <2>3. Present' /\ {"source_worker", "source", "hub"} \subseteq alive
    BY <1>1, <1>2, <1>3, <1>5, <2>1 DEF Present
  <2>4. held' = None
    BY <1>1, <1>2, <1>3, <1>5 DEF Present, Lent
  <2>5. UsesAlive' /\ Lent' /\ Listed'
    BY <1>1, <2>2, <2>3, <2>4
    DEF UsesAlive, Live, Lent, Listed, LifeType, Workers
  <2> QED
    BY <1>1, <1>2, <1>4, <2>3, <2>5 DEF LifeType, Starting, Serving, Stopping
<1>6. CASE x = "encoder_thread"
  <2>1. /\ "hub" \notin Rest' /\ "encoder" \notin Rest'
        /\ "encoder_worker" \notin Rest'
    BY <1>2, <1>6 DEF BadStart
  <2>2. thread' = [thread EXCEPT !["encoder_worker"] = "top"]
    BY <1>1, <1>6 DEF WorkerOf
  <2>3. {"encoder_worker", "hub", "encoder", "ring"} \subseteq alive
    BY <1>1, <1>2, <1>3, <1>6, <2>1 DEF Present
  <2>4. thread'["source_worker"] = thread["source_worker"]
    BY <2>2 DEF LifeType, Workers
  <2>5. Present'
    BY <1>1, <1>2, <1>3, <1>6, <2>4 DEF Present
  <2>6. UsesAlive' /\ Lent' /\ Listed'
    BY <1>1, <1>6, <2>2, <2>3, <2>4
    DEF UsesAlive, Live, Lent, Listed, LifeType, Workers
  <2> QED
    BY <1>1, <1>2, <1>4, <2>5, <2>6 DEF LifeType, Starting, Serving, Stopping
<1>7. CASE x = "janus_thread"
  <2>1. "janus_sender" \notin Rest'
    BY <1>2, <1>7 DEF BadStart
  <2>2. thread' = [thread EXCEPT !["janus_sender"] = "top"]
    BY <1>1, <1>7 DEF WorkerOf
  <2>3. {"janus_sender", "ring"} \subseteq alive
    BY <1>1, <1>2, <1>3, <1>7, <2>1 DEF Present
  <2>4. thread'["source_worker"] = thread["source_worker"]
    BY <2>2 DEF LifeType, Workers
  <2>5. Present'
    BY <1>1, <1>2, <1>3, <1>7, <2>4 DEF Present
  <2>6. UsesAlive' /\ Lent' /\ Listed'
    BY <1>1, <1>7, <2>2, <2>3, <2>4
    DEF UsesAlive, Live, Lent, Listed, LifeType, Workers
  <2> QED
    BY <1>1, <1>2, <1>4, <2>5, <2>6 DEF LifeType, Starting, Serving, Stopping
<1> QED
  BY <1>1, <1>5, <1>6, <1>7

\* The start fails after the mailbox was given up, or when the camera starts.
LEMMA LateFailureKeeps ==
  ASSUME LifeInv, TypeOK, Control, Abandoned \/ StartSourceFails
  PROVE  LifeInv'
<1> USE DEF LifeInv
<1>1. CASE Abandoned
  <2>1. list = {}
    BY <1>1, GoneUnlisted DEF Abandoned
  <2>2. /\ GiveUp("encoder_worker") /\ UNCHANGED <<alive, thread, held, list>>
        /\ Lent'
    BY <1>1 DEF Abandoned, vars, boxVars, cameraVars, Lent
  <2> QED
    BY <2>1, <2>2, GiveUpKeeps
<1>2. CASE StartSourceFails
  <2>1. /\ main = "starting" /\ plan # <<>> /\ Head(plan) = "source_thread"
        /\ GiveUp("source_thread") /\ UNCHANGED <<alive, thread, held, list>>
    BY <1>2 DEF StartSourceFails, At, vars, boxVars
  <2>2. "source_thread" \in Rest
    BY <2>1, TailFacts DEF LifeType, Rest
  <2>3. held = None
    BY <2>1, <2>2 DEF Starting, Present, Lent
  <2> QED
    BY <2>1, <2>3, GiveUpKeeps DEF Lent, Listed
<1> QED
  BY <1>1, <1>2

\* The loop begins and ends; the program returns.
LEMMA PhaseKeeps ==
  ASSUME LifeInv, Serve \/ Stop \/ Return
  PROVE  LifeInv'
<1> USE DEF LifeInv
<1>1. UNCHANGED <<alive, thread, held, queued, list>>
  BY DEF Serve, Stop, Return, vars, boxVars, cameraVars
<1>2. main # "abandoning" /\ main' # "abandoning"
  BY DEF Serve, Stop, Return
<1>3. UsesAlive' /\ Lent' /\ Listed'
  BY <1>1, <1>2 DEF UsesAlive, Live, Lent, Listed
<1>4. CASE Serve
  <2>1. main = "starting" /\ main' = "serving" /\ plan' = plan /\ plan = <<>>
    BY <1>4 DEF Serve
  <2>2. Rest = {}
    BY <2>1, ShortPlans DEF Rest
  <2> QED
    BY <1>1, <1>3, <2>1, <2>2
    DEF LifeType, Starting, Present, Serving, Stopping
<1>5. CASE Stop
  <2>1. main' = "stopping" /\ plan' = StopOrder
    BY <1>5 DEF Stop
  <2>2. Quiet'
    BY <2>1, StopFacts DEF Quiet, Rest, Workers
  <2> QED
    BY <1>1, <1>3, <2>1, <2>2, StopFacts
    DEF LifeType, Starting, Serving, Stopping
<1>6. CASE Return
  BY <1>1, <1>3, <1>6 DEF Return, LifeType, Starting, Serving, Stopping
<1> QED
  BY <1>4, <1>5, <1>6

\* The main thread tells a thread to end, or unsubscribes in its name.
LEMMA WaitKeeps ==
  ASSUME LifeInv, MainUnsubscribes \/ \E w \in Workers : StopWorker(w)
  PROVE  LifeInv'
<1>1. UNCHANGED <<mainVars, thread, held, queued>>
  BY DEF MainUnsubscribes, StopWorker, cameraVars
<1>2. list' \subseteq list
  <2>1. CASE \E w \in Workers : StopWorker(w)
    BY <2>1 DEF StopWorker, vars, boxVars
  <2>2. CASE MainUnsubscribes /\ Unlink(Encoder)
    BY <2>2 DEF Unlink
  <2>3. CASE MainUnsubscribes /\ ~Unlink(Encoder)
    BY <2>3, ListStill, EncoderFacts DEF MainUnsubscribes
  <2> QED
    BY <2>1, <2>2, <2>3
<1>3. Lent' /\ thread' \in [Workers -> Places]
  BY <1>1 DEF LifeInv, LifeType, Lent
<1> QED
  BY <1>1, <1>2, <1>3, ThreadKeeps DEF Live

\* What is released, or was never there, is used by no thread that lives.
LEMMA DestroyKeeps ==
  ASSUME LifeInv, TypeOK, Control, NEW x, Skip(x) \/ Destroy(x)
  PROVE  LifeInv'
<1> USE DEF LifeInv
<1>1. /\ main = "stopping" /\ main' = "stopping" /\ plan # <<>>
      /\ x = Head(plan) /\ plan' = Tail(plan)
      /\ UNCHANGED <<thread, held, list>>
  BY DEF Skip, Destroy, At, cameraVars, vars, boxVars
<1>2. /\ plan' \in Seq(Things) /\ Rest = {x} \cup Rest'
      /\ Ordered(plan', BadStop)
      /\ \A y \in Rest' : <<x, y>> \notin BadStop
  BY <1>1, PlanTail DEF Stopping
<1>3. Quiet
  BY <1>1 DEF Stopping
<1>4. /\ x \in {"source", "hub"} => ~Live("source_worker")
      /\ x \in {"hub", "encoder", "ring"} => ~Live("encoder_worker")
      /\ x = "ring" => ~Live("janus_sender")
      /\ x = "hub" => list = {}
  <2>1. /\ x \in {"source", "hub"} => "source_worker" \notin Rest
        /\ x \in {"hub", "encoder", "ring"} => "encoder_worker" \notin Rest
        /\ x = "ring" => "janus_sender" \notin Rest
    BY <1>2 DEF BadStop
  <2> QED
    BY <1>2, <1>3, <2>1 DEF Quiet
<1>5. x \in Workers => ~Live(x)
  <2>1. CASE Skip(x)
    BY <2>1 DEF Skip, UsesAlive, Workers
  <2>2. CASE Destroy(x)
    BY <2>2 DEF Destroy, MayFree, Joined, Live
  <2> QED
    BY <2>1, <2>2
<1>6. x = "encoder_worker" => list = {}
  <2>1. CASE Skip(x)
    BY <1>1, <2>1 DEF Skip, Listed
  <2>2. CASE Destroy(x)
    BY <2>2, GoneUnlisted DEF Destroy, MayFree
  <2> QED
    BY <2>1, <2>2
<1>7. Quiet'
  BY <1>1, <1>2, <1>3, <1>5, <1>6 DEF Quiet, Live, Workers
<1>8. alive \ alive' \subseteq {x, "mgr"} /\ alive' \subseteq alive
  BY DEF Skip, Destroy
<1>9. UsesAlive'
  <2>1. ASSUME NEW w \in Workers, Live(w)' PROVE Live(w) /\ w # x
    BY <1>1, <1>5, <2>1 DEF Live
  <2> QED
    BY <1>1, <1>4, <1>8, <2>1 DEF UsesAlive, Live, Workers
<1>10. Lent'
  <2>1. queued' \subseteq queued
    BY DEF Skip, Destroy, cameraVars
  <2> QED
    BY <1>1, <2>1 DEF Lent
<1>11. Listed'
  BY <1>1, <1>4, <1>6, <1>8 DEF Listed
<1> QED
  BY <1>1, <1>2, <1>7, <1>9, <1>10, <1>11
  DEF LifeType, Starting, Serving, Stopping

\* LifeInv is inductive, given that the hub is in order.
LEMMA LifeInvStep ==
  LifeInv /\ TypeOK /\ Control /\ [LifeNext]_lifeVars => LifeInv'
<1> SUFFICES ASSUME LifeInv, TypeOK, Control, [LifeNext]_lifeVars
             PROVE  LifeInv'
  OBVIOUS
<1>1. CASE Ended \/ UNCHANGED lifeVars
  <2>1. UNCHANGED <<mainVars, thread, held, queued, list>>
    BY <1>1 DEF Ended, lifeVars, vars, boxVars, cameraVars
  <2>2. Lent' /\ thread' \in [Workers -> Places]
    BY <2>1 DEF LifeInv, LifeType, Lent
  <2> QED
    BY <2>1, <2>2, ThreadKeeps DEF Live
<1>2. CASE Main
  BY <1>2, CreateKeeps, CreateFailsKeeps, CreateEncoderKeeps, StartKeeps,
     LateFailureKeeps, PhaseKeeps, WaitKeeps, DestroyKeeps DEF Main
<1> QED
  BY <1>1, <1>2, SourceKeeps, WorkersKeep, PhaseKeeps DEF LifeNext

\* No thread uses what the main thread has released, however far the start
\* came and whichever thread has died before.
THEOREM NothingLeftDangling == LifeSpec => []NothingDangling
<1>1. LifeSpec => [](TypeOK /\ Control)
  BY LifeImplementsHub, TypeCorrect, ControlCorrect, PTL
<1>2. LifeInv => NothingDangling
  BY DEF LifeInv, NothingDangling, UsesAlive, Uses, Lent, Listed, Serving,
         Live, Workers
<1> QED
  BY <1>1, <1>2, LifeInvInit, LifeInvStep, PTL DEF LifeSpec
-----------------------------------------------------------------------------
(* The driver's buffers.                                                   *)

\* The buffers that are neither the driver's nor lent.
Mislaid == Buffers \ (queued \cup {held})

CameraInv ==
  /\ failures \in Nat
  /\ Live("source_worker") => Cardinality(Mislaid) <= failures

\* Mislaying at most one more buffer.
LEMMA MislaidFacts ==
  ASSUME NEW S, NEW T, NEW b, S \subseteq Buffers, T \subseteq S \cup {b}
  PROVE  /\ Cardinality(S) \in Nat /\ Cardinality(T) \in Nat
         /\ Cardinality(T) <= Cardinality(S) + 1
         /\ T \subseteq S => Cardinality(T) <= Cardinality(S)
<1>1. IsFiniteSet(S)
  BY LifecycleAssumption, FS_Subset
<1>2. /\ IsFiniteSet(S \cup {b})
      /\ Cardinality(S \cup {b}) = IF b \in S THEN Cardinality(S)
                                   ELSE Cardinality(S) + 1
  BY <1>1, FS_AddElement
<1>3. /\ IsFiniteSet(T) /\ Cardinality(T) <= Cardinality(S \cup {b})
      /\ T \subseteq S => Cardinality(T) <= Cardinality(S)
  BY <1>1, <1>2, FS_Subset
<1> QED
  BY <1>1, <1>2, <1>3, FS_CardinalityType

LEMMA CameraInvInit == LifeInit => CameraInv
BY DEF LifeInit, CameraInv, Live, Workers

\* A step loses at most one buffer, and then counts a failure.
LEMMA CameraInvStep ==
  LifeInv /\ CameraInv /\ [LifeNext]_lifeVars => CameraInv'
<1> SUFFICES ASSUME LifeInv, CameraInv, [LifeNext]_lifeVars PROVE CameraInv'
  OBVIOUS
<1> USE DEF Live
<1>1. /\ failures \in Nat /\ Lent /\ thread \in [Workers -> Places]
      /\ Mislaid \subseteq Buffers
  BY DEF CameraInv, LifeInv, LifeType, Mislaid
<1>2. ASSUME Mislaid' \subseteq Mislaid, failures' = failures,
             Live("source_worker")' => Live("source_worker")
      PROVE  CameraInv'
  <2>1. /\ Cardinality(Mislaid') \in Nat /\ Cardinality(Mislaid) \in Nat
        /\ Cardinality(Mislaid') <= Cardinality(Mislaid)
    <3>1. Mislaid' \subseteq Mislaid \cup {None}
      BY <1>2
    <3> QED
      BY <1>1, <1>2, <3>1, MislaidFacts
  <2> QED
    BY <1>1, <1>2, <2>1 DEF CameraInv
<1>3. ASSUME NEW b, Mislaid' \subseteq Mislaid \cup {b}, Live("source_worker"),
             failures' = failures + 1
      PROVE  CameraInv'
  <2>1. /\ Cardinality(Mislaid') \in Nat /\ Cardinality(Mislaid) \in Nat
        /\ Cardinality(Mislaid') <= Cardinality(Mislaid) + 1
    BY <1>1, <1>3, MislaidFacts
  <2> QED
    BY <1>1, <1>3, <2>1 DEF CameraInv
<1>4. ASSUME UNCHANGED cameraVars,
             Live("source_worker")' => Live("source_worker")
      PROVE  CameraInv'
  BY <1>2, <1>4 DEF cameraVars, Mislaid
<1>5. CASE SourceThread
  <2>1. Live("source_worker")
    BY <1>5
    DEF SourceThread, SourceChecks, CapturesNothing, Captures, CapturesBad,
        PublishBegins, PublishGoesOn, PublishEnds, Releases, SourceAt
  <2>2. CASE SourceChecks \/ CapturesNothing \/ PublishBegins \/ PublishGoesOn
             \/ PublishEnds
    BY <1>4, <2>1, <2>2
    DEF SourceChecks, CapturesNothing, PublishBegins, PublishGoesOn,
        PublishEnds
  <2>3. ASSUME NEW b \in Buffers, Captures(b) PROVE CameraInv'
    <3>1. /\ thread["source_worker"] = "capture" /\ failures' = failures
          /\ queued' = queued \ {b} /\ held' = b
      BY <2>3 DEF Captures, SourceAt
    <3>2. held = None
      BY <1>1, <3>1 DEF Lent
    <3>3. Mislaid' \subseteq Mislaid
      BY <3>1, <3>2, LifecycleAssumption DEF Mislaid
    <3> QED
      BY <1>2, <2>1, <3>1, <3>3
  <2>4. ASSUME NEW b \in Buffers, CapturesBad(b) PROVE CameraInv'
    BY <1>1, <1>2, <1>3, <2>1, <2>4 DEF CapturesBad, Requeue, Mislaid
  <2>5. CASE Releases
    BY <1>1, <1>2, <1>3, <2>1, <2>5 DEF Releases, Requeue, Mislaid
  <2> QED
    BY <1>5, <2>2, <2>3, <2>4, <2>5 DEF SourceThread
<1>6. CASE EncoderThread \/ JanusEnds
  BY <1>1, <1>4, <1>6
  DEF EncoderThread, EncoderTakes, EncoderReleases, EncoderUnrefs,
      EncoderPushes, EncoderEnds, EncoderAt, JanusEnds, Thread, Workers
<1>7. CASE StartSource
  <2>1. Mislaid' = {} /\ failures' = failures
    BY <1>7 DEF StartSource, Mislaid
  <2> QED
    BY <1>1, <2>1, FS_EmptySet DEF CameraInv
<1>8. CASE StartSourceFails \/ \E x : Skip(x) \/ Destroy(x)
  <2>1. failures' = failures /\ thread' = thread /\ held' = held
    BY <1>8 DEF StartSourceFails, Skip, Destroy, cameraVars
  <2>2. CASE StartSourceFails
    <3>1. /\ main = "starting" /\ plan # <<>>
          /\ Head(plan) = "source_thread"
      BY <2>2 DEF StartSourceFails, At
    <3>2. "source_thread" \in Rest
      BY <3>1, TailFacts DEF LifeInv, LifeType, Rest
    <3>3. thread["source_worker"] = "none"
      BY <3>1, <3>2 DEF LifeInv, Starting, Present
    <3> QED
      BY <1>1, <2>1, <3>3 DEF CameraInv
  <2>3. CASE \E x : Skip(x) \/ Destroy(x)
    <3>1. UNCHANGED queued \/ Destroy("source")
      BY <2>3 DEF Skip, Destroy, cameraVars
    <3>2. CASE Destroy("source")
      <4>1. main = "stopping" /\ plan # <<>> /\ Head(plan) = "source"
            /\ plan' = Tail(plan)
        BY <3>2 DEF Destroy, At
      <4>2. "source_worker" \notin Rest /\ "source" \in Rest
        BY <4>1, PlanTail DEF LifeInv, Stopping, BadStop
      <4>3. ~Live("source_worker")
        BY <4>1, <4>2 DEF LifeInv, Stopping, Quiet
      <4> QED
        BY <1>1, <2>1, <4>3 DEF CameraInv
    <3> QED
      BY <1>4, <2>1, <3>1, <3>2 DEF cameraVars
  <2> QED
    BY <1>8, <2>2, <2>3
<1>9. CASE \E x \in {"encoder_thread", "janus_thread"} : StartThread(x)
  BY <1>1, <1>4, <1>9 DEF StartThread, Thread, WorkerOf, Workers
<1>10. CASE \/ Stop \/ Serve \/ Return \/ Abandoned \/ CreateEncoderWorker
            \/ AbandonEncoderWorker \/ MainUnsubscribes \/ Ended
            \/ UNCHANGED lifeVars
            \/ \E x : Create(x) \/ CreateFails(x) \/ StopWorker(x)
  BY <1>4, <1>10
  DEF Stop, Serve, Return, Abandoned, CreateEncoderWorker,
      AbandonEncoderWorker, MainUnsubscribes, Ended, lifeVars, Create,
      CreateFails, StopWorker
<1> QED
  BY <1>5, <1>6, <1>7, <1>8, <1>9, <1>10 DEF LifeNext, Main

\* No path of the capture keeps a buffer from the driver, except a
\* VIDIOC_QBUF that failed.
THEOREM BuffersReturned == LifeSpec => []BuffersKept
<1>1. LifeSpec => [](TypeOK /\ Control)
  BY LifeImplementsHub, TypeCorrect, ControlCorrect, PTL
<1>2. CameraInv => BuffersKept
  BY DEF CameraInv, BuffersKept, Mislaid
<1> QED
  BY <1>1, <1>2, LifeInvInit, LifeInvStep, CameraInvInit, CameraInvStep, PTL
  DEF LifeSpec
-----------------------------------------------------------------------------
(* What is left when the program is over.  The invariant says what the     *)
(* rest of the plan will not release: it is settled when the plan is made. *)

Made == {"dtls", "source", "hub", "source_worker", "encoder", "ring",
         "encoder_worker", "janus_sender", "mgr", "listener"}

\* Nothing else is there before the DTLS library, the source and the hub: a
\* step that fails so early has little to unwind.
LaterFirst == (Things \X {"dtls"})
                \cup ((Things \ {"dtls"}) \X {"source"})
                \cup ((Things \ {"dtls", "source"}) \X {"hub"})

Kept == {{}, {"ring"}, {"mgr"}, {"dtls"}}

\* What is there and not in the plan, nor released with the listener.
Forgotten ==
  alive \ (Rest \cup IF "listener" \in alive \cap Rest THEN {"mgr"} ELSE {})

Planned ==
  main \in {"starting", "abandoning"} =>
    /\ Ordered(plan, LaterFirst)
    /\ \A y \in alive, z \in Rest : <<y, z>> \notin LaterFirst
    /\ "listener" \in Rest \cup alive
Listens   == main = "serving" => "listener" \in alive
Unwinding == main = "stopping" =>
               /\ Forgotten \in Kept
               /\ \A w \in Workers : Live(w) => w \in Rest
Over      == main = "ended" => alive \in Kept /\ \A w \in Workers : ~Live(w)

\* Who is inside a call of the hub.
Calls ==
  /\ pc[Publisher] # "idle" => thread["source_worker"] = "publishing"
  /\ pc[Encoder] \notin {"out", "gone"}
       => main = "abandoning" \/ "encoder_worker" \in alive

ExitInv == alive \subseteq Made /\ Planned /\ Listens /\ Unwinding /\ Over
             /\ Calls

LEMMA ExitInvInit == LifeInit => ExitInv
<1> SUFFICES ASSUME LifeInit PROVE ExitInv
  OBVIOUS
<1>1. PICK janus \in BOOLEAN : plan = StartOrder(janus)
  BY DEF LifeInit
<1>2. /\ Ordered(StartOrder(TRUE), LaterFirst)
      /\ "listener" \in RangeOf(StartOrder(TRUE))
  <2>1. Ordered(StartOrder(TRUE), LaterFirst)
    BY DEF StartOrder, Ordered, LaterFirst, Things
  <2>2. StartOrder(TRUE)[12] = "listener" /\ 12 \in DOMAIN StartOrder(TRUE)
    BY DEF StartOrder
  <2> QED
    BY <2>1, <2>2 DEF RangeOf
<1>3. /\ Ordered(StartOrder(FALSE), LaterFirst)
      /\ "listener" \in RangeOf(StartOrder(FALSE))
  <2>1. Ordered(StartOrder(FALSE), LaterFirst)
    BY DEF StartOrder, Ordered, LaterFirst, Things
  <2>2. StartOrder(FALSE)[11] = "listener" /\ 11 \in DOMAIN StartOrder(FALSE)
    BY DEF StartOrder
  <2> QED
    BY <2>1, <2>2 DEF RangeOf
<1>4. Ordered(plan, LaterFirst) /\ "listener" \in Rest
  BY <1>1, <1>2, <1>3 DEF Rest
<1>5. main = "starting" /\ alive = {}
  BY DEF LifeInit
<1>6. Calls
  BY EncoderFacts, ThreadFacts DEF LifeInit, Init, Calls
<1> QED
  BY <1>4, <1>5, <1>6 DEF ExitInv, Planned, Listens, Unwinding, Over

\* The publisher's steps leave the encode worker where it is in the hub ...
LEMMA PublisherOnly ==
  ASSUME TypeOK, Publish \/ UnrefRead(Publisher) \/ UnrefWrite(Publisher)
  PROVE  pc'[Encoder] = pc[Encoder]
<1>1. pc \in [Threads -> PublisherLabels \cup ConsumerLabels]
      /\ Encoder # Publisher
  BY EncoderFacts, ThreadFacts DEF TypeOK
<1>2. pc' = pc \/ \E label : pc' = [pc EXCEPT ![Publisher] = label]
  <2>1. CASE Publish
    BY <2>1
    DEF Publish, PublishExhausted, Acquire, Fill, PublishLock, Visit, RefRead,
        RefWrite, Install, PublishUnlock, Goto, CallUnref
  <2>2. CASE UnrefRead(Publisher) \/ UnrefWrite(Publisher)
    BY <2>2 DEF UnrefRead, UnrefWrite, Goto
  <2> QED
    BY <2>1, <2>2
<1> QED
  BY <1>1, <1>2, EncoderFacts

\* ... and the other way round; it only enters by subscribing.
LEMMA EncoderOnly ==
  ASSUME TypeOK,
         \/ Consume(Encoder) \/ UnrefRead(Encoder) \/ UnrefWrite(Encoder)
  PROVE  /\ pc'[Publisher] = pc[Publisher]
         /\ Subscribe(Encoder) \/ pc[Encoder] \notin {"out", "gone"}
<1>1. pc \in [Threads -> PublisherLabels \cup ConsumerLabels]
      /\ Encoder # Publisher
  BY EncoderFacts, ThreadFacts DEF TypeOK
<1>2. pc' = pc \/ \E label : pc' = [pc EXCEPT ![Encoder] = label]
  <2>1. CASE Consume(Encoder)
    BY <2>1
    DEF Consume, Subscribe, Take, Release, UnsubscribeLock, Unlink, Goto,
        CallUnref
  <2>2. CASE UnrefRead(Encoder) \/ UnrefWrite(Encoder)
    BY <2>2 DEF UnrefRead, UnrefWrite, Goto
  <2> QED
    BY <2>1, <2>2
<1>3. Subscribe(Encoder) \/ pc[Encoder] \notin {"out", "gone"}
  BY DEF Consume, Take, Release, UnsubscribeLock, Unlink, UnrefRead, UnrefWrite
<1> QED
  BY <1>1, <1>2, <1>3, EncoderFacts

\* The main thread stays where it is, and no thread starts.
LEMMA ExitStill ==
  ASSUME ExitInv, UNCHANGED mainVars, Calls',
         \A w \in Workers : Live(w)' => Live(w)
  PROVE  ExitInv'
<1> USE DEF ExitInv, mainVars
<1>1. Rest' = Rest /\ Forgotten' = Forgotten
  BY DEF Rest, Forgotten
<1>2. Planned' /\ Listens'
  BY <1>1 DEF Planned, Listens
<1>3. Unwinding' /\ Over'
  BY <1>1 DEF Unwinding, Over
<1> QED
  BY <1>2, <1>3

\* The source worker is inside a call of the hub only while it publishes.
LEMMA SourceExits ==
  ASSUME ExitInv, LifeInv, TypeOK, SourceThread
  PROVE  ExitInv'
<1> USE DEF SourceAt, Thread
<1>1. /\ UNCHANGED mainVars /\ thread' \in [Workers -> Places]
      /\ \A w \in Workers : Live(w)' => Live(w)
  BY SourceMoves
<1>2. Calls
  BY DEF ExitInv
<1>3. thread \in [Workers -> Places]
  BY DEF LifeInv, LifeType
<1>4. ASSUME pc'[Encoder] = pc[Encoder],
             pc'[Publisher] # "idle" => thread'["source_worker"] = "publishing"
      PROVE  ExitInv'
  <2>1. Calls'
    BY <1>1, <1>2, <1>4 DEF Calls, mainVars
  <2> QED
    BY <1>1, <2>1, ExitStill
<1>5. CASE PublishBegins
  <2>1. Publish
    BY <1>5 DEF PublishBegins, Publish
  <2>2. CASE Acquire
    BY <1>3, <1>4, <1>5, <2>1, <2>2, PublisherOnly
    DEF PublishBegins, PublishExhausted, Acquire, Workers
  <2>3. CASE PublishExhausted
    BY <1>3, <1>4, <2>1, <2>3, PublisherOnly DEF PublishExhausted
  <2> QED
    BY <1>5, <2>2, <2>3 DEF PublishBegins
<1>6. CASE PublishGoesOn
  <2>1. Publish \/ UnrefRead(Publisher) \/ UnrefWrite(Publisher)
    BY <1>6, EncoderFacts DEF PublishGoesOn, Publish
  <2>2. thread'["source_worker"] = "publishing"
    BY <1>6 DEF PublishGoesOn
  <2> QED
    BY <1>4, <2>1, <2>2, PublisherOnly
<1>7. CASE \/ SourceChecks \/ CapturesNothing \/ PublishEnds \/ Releases
           \/ \E b \in Buffers : Captures(b) \/ CapturesBad(b)
  <2>1. UNCHANGED pc
    BY <1>7 DEF SourceChecks, CapturesNothing, PublishEnds, Releases, Captures,
                CapturesBad, vars
  <2>2. pc[Publisher] = "idle"
    BY <1>2, <1>7 DEF Calls, SourceChecks, CapturesNothing, PublishEnds,
                      Releases, Captures, CapturesBad
  <2> QED
    BY <1>4, <2>1, <2>2
<1> QED
  BY <1>5, <1>6, <1>7 DEF SourceThread

\* The encode worker calls the hub as long as it is there.
LEMMA WorkersExit ==
  ASSUME ExitInv, LifeInv, TypeOK, EncoderThread \/ JanusEnds
  PROVE  ExitInv'
<1>1. /\ UNCHANGED mainVars
      /\ thread'["source_worker"] = thread["source_worker"]
      /\ \A w \in Workers : Live(w)' => Live(w)
  BY WorkersMove
<1>2. \/ UNCHANGED pc
      \/ /\ pc'[Publisher] = pc[Publisher]
         /\ pc[Encoder] \notin {"out", "gone"}
  <2>1. CASE EncoderTakes \/ EncoderReleases \/ EncoderUnrefs
    <3>1. \/ Consume(Encoder) \/ UnrefRead(Encoder) \/ UnrefWrite(Encoder)
      BY <2>1 DEF EncoderTakes, EncoderReleases, EncoderUnrefs, Consume
    <3>2. pc[Encoder] \notin {"out", "gone"}
      BY <2>1 DEF EncoderTakes, EncoderReleases, EncoderUnrefs, Take, Release,
                  UnrefRead, UnrefWrite
    <3> QED
      BY <3>1, <3>2, EncoderOnly
  <2>2. CASE EncoderPushes \/ EncoderEnds \/ JanusEnds
    BY <2>2 DEF EncoderPushes, EncoderEnds, JanusEnds, vars
  <2> QED
    BY <2>1, <2>2 DEF EncoderThread
<1>3. Calls'
  BY <1>1, <1>2 DEF ExitInv, Calls, mainVars
<1> QED
  BY <1>1, <1>3, ExitStill

\* The main thread waits for a thread.
LEMMA WaitExits ==
  ASSUME ExitInv, TypeOK, MainUnsubscribes \/ \E w \in Workers : StopWorker(w)
  PROVE  ExitInv'
<1>1. UNCHANGED <<mainVars, thread>>
  BY DEF MainUnsubscribes, StopWorker
<1>2. \/ UNCHANGED pc
      \/ /\ pc'[Publisher] = pc[Publisher]
         /\ pc[Encoder] \notin {"out", "gone"}
  <2>1. CASE MainUnsubscribes
    <3>1. \/ Consume(Encoder) \/ UnrefRead(Encoder) \/ UnrefWrite(Encoder)
      BY <2>1 DEF MainUnsubscribes, Consume
    <3>2. pc[Encoder] \notin {"out", "gone"}
      BY <2>1 DEF MainUnsubscribes, UnsubscribeLock, Unlink, UnrefRead,
                  UnrefWrite
    <3> QED
      BY <3>1, <3>2, EncoderOnly
  <2>2. CASE \E w \in Workers : StopWorker(w)
    BY <2>2 DEF StopWorker, vars
  <2> QED
    BY <2>1, <2>2
<1>3. Calls'
  BY <1>1, <1>2 DEF ExitInv, Calls, mainVars
<1> QED
  BY <1>1, <1>3, ExitStill DEF Live

\* A step of the start that is done, or passed over.
LEMMA PlanGoesOn ==
  ASSUME ExitInv, LifeType, main = "starting", main' = "starting",
         plan # <<>>, plan' = Tail(plan), NEW made,
         made \subseteq {Head(plan)} \cap Made, alive' = alive \cup made,
         Head(plan) = "listener" => "listener" \in made, Calls'
  PROVE  ExitInv'
<1>1. /\ Ordered(plan, LaterFirst) /\ "listener" \in Rest \cup alive
      /\ \A y \in alive, z \in Rest : <<y, z>> \notin LaterFirst
      /\ alive \subseteq Made
  BY DEF ExitInv, Planned
<1>2. /\ Ordered(plan', LaterFirst) /\ Rest = {Head(plan)} \cup Rest'
      /\ \A z \in Rest' : <<Head(plan), z>> \notin LaterFirst
  <2>1. RangeOf(plan) = {Head(plan)} \cup RangeOf(plan')
    BY TailFacts DEF LifeType
  <2>2. /\ Ordered(plan', LaterFirst)
        /\ \A z \in RangeOf(plan') : <<Head(plan), z>> \notin LaterFirst
    BY <1>1, OrderedTail DEF LifeType
  <2> QED
    BY <2>1, <2>2 DEF Rest
<1>3. \A y \in alive', z \in Rest' : <<y, z>> \notin LaterFirst
  BY <1>1, <1>2
<1>4. "listener" \in Rest' \cup alive' /\ alive' \subseteq Made
  BY <1>1, <1>2
<1>5. Planned' /\ Listens' /\ Unwinding' /\ Over'
  BY <1>2, <1>3, <1>4 DEF Planned, Listens, Unwinding, Over
<1> QED
  BY <1>4, <1>5 DEF ExitInv

\* What is created, and what is not: only au_ring_create is passed over.
LEMMA CreateExits ==
  ASSUME ExitInv, LifeType, NEW x,
         \/ Create(x) /\ x \in Made
         \/ CreateFails(x) /\ x = "ring"
  PROVE  ExitInv'
<1>1. /\ main = "starting" /\ main' = "starting" /\ plan # <<>>
      /\ Head(plan) = x /\ plan' = Tail(plan)
      /\ UNCHANGED <<pc, thread>> /\ alive \subseteq alive'
  BY DEF Create, CreateFails, At, vars
<1>2. Calls'
  BY <1>1 DEF ExitInv, Calls
<1>3. CASE Create(x) /\ x \in Made
  <2>1. alive' = alive \cup {x}
    BY <1>3 DEF Create
  <2> QED
    BY <1>1, <1>2, <1>3, <2>1, PlanGoesOn
<1>4. CASE CreateFails(x) /\ x = "ring"
  <2>1. alive' = alive \cup {}
    BY <1>4 DEF CreateFails
  <2> QED
    BY <1>1, <1>2, <1>4, <2>1, PlanGoesOn
<1> QED
  BY <1>3, <1>4

\* encoder_worker_create enters the hub.
LEMMA CreateEncoderExits ==
  ASSUME ExitInv, LifeType, TypeOK, CreateEncoderWorker \/ AbandonEncoderWorker
  PROVE  ExitInv'
<1>1. /\ main = "starting" /\ plan # <<>> /\ Head(plan) = "encoder_worker"
      /\ UNCHANGED thread
  BY DEF CreateEncoderWorker, AbandonEncoderWorker, At
<1>2. pc'[Publisher] = pc[Publisher]
  BY EncoderOnly DEF CreateEncoderWorker, AbandonEncoderWorker, Consume
<1>3. CASE CreateEncoderWorker
  <2>1. /\ main' = "starting" /\ plan' = Tail(plan)
        /\ alive' = alive \cup {"encoder_worker"}
    BY <1>1, <1>3 DEF CreateEncoderWorker
  <2>2. Calls'
    BY <1>1, <1>2, <2>1 DEF ExitInv, Calls
  <2> QED
    BY <1>1, <2>1, <2>2, PlanGoesOn DEF Made
<1>4. CASE AbandonEncoderWorker
  <2>1. main' = "abandoning" /\ UNCHANGED <<plan, alive>>
    BY <1>4 DEF AbandonEncoderWorker
  <2>2. Calls'
    BY <1>1, <1>2, <2>1 DEF ExitInv, Calls
  <2>3. Rest' = Rest
    BY <2>1 DEF Rest
  <2> QED
    BY <1>1, <2>1, <2>2, <2>3
    DEF ExitInv, Planned, Listens, Unwinding, Over
<1> QED
  BY <1>3, <1>4

\* Threads start.
LEMMA StartExits ==
  ASSUME ExitInv, LifeInv,
         \/ StartSource
         \/ \E x \in {"encoder_thread", "janus_thread"} : StartThread(x)
  PROVE  ExitInv'
<1>1. /\ main = "starting" /\ main' = "starting" /\ plan # <<>>
      /\ plan' = Tail(plan) /\ alive' = alive \cup {} /\ UNCHANGED pc
      /\ Head(plan) \in {"source_thread", "encoder_thread", "janus_thread"}
  BY DEF StartSource, StartThread, At, vars
<1>2. /\ Head(plan) = "source_thread" => thread["source_worker"] = "none"
      /\ Head(plan) # "source_thread"
           => thread'["source_worker"] = thread["source_worker"]
  <2>1. Head(plan) \in Rest
    BY <1>1, TailFacts DEF LifeInv, LifeType, Rest
  <2>2. CASE StartSource
    BY <1>1, <2>1, <2>2 DEF LifeInv, Starting, Present, StartSource, At
  <2>3. CASE \E x \in {"encoder_thread", "janus_thread"} : StartThread(x)
    BY <2>3
    DEF StartThread, At, Thread, WorkerOf, LifeInv, LifeType, Workers
  <2> QED
    BY <2>2, <2>3
<1>3. Calls'
  BY <1>1, <1>2 DEF ExitInv, Calls
<1> QED
  BY <1>1, <1>3, PlanGoesOn DEF LifeInv

\* What stands in the plans of the end.
LEMMA EndFacts ==
  /\ Made \ RangeOf(StopOrder) = {"ring", "mgr"}
  /\ Made \ RangeOf(FailOrder) = {"mgr"}
  /\ "listener" \in RangeOf(StopOrder)
<1>1. RangeOf(StopOrder) =
        {"janus_sender", "listener", "encoder_worker", "encoder",
         "source_worker", "hub", "source", "dtls"}
  BY DEF RangeOf, StopOrder
<1>2. RangeOf(FailOrder) =
        {"listener", "janus_sender", "encoder_worker", "encoder",
         "source_worker", "ring", "hub", "source", "dtls"}
  BY DEF RangeOf, FailOrder
<1> QED
  BY <1>1, <1>2 DEF Made

\* A failure of the start: what is there by then and not unwound is kept.
LEMMA GiveUpExits ==
  ASSUME ExitInv, LifeInv, main \in {"starting", "abandoning"}, NEW x,
         x \in {"dtls", "source", "hub"} => x \in Rest,
         GiveUp(x), UNCHANGED <<alive, thread>>, Calls'
  PROVE  ExitInv'
<1>1. main' = "stopping" /\ plan' = Unwind(x)
  BY DEF GiveUp
<1>2. /\ alive \subseteq Made
      /\ \A y \in alive, z \in Rest : <<y, z>> \notin LaterFirst
  BY DEF ExitInv, Planned
<1>3. \A w \in Workers : Live(w) => w \in alive
  BY DEF LifeInv, UsesAlive, Workers
<1>4. Forgotten' \in Kept /\ \A w \in Workers : Live(w) => w \in Rest'
  <2>1. CASE x \in {"dtls", "source"}
    <3>1. Rest' = {}
      BY <1>1, <2>1, UnwindFacts, ShortPlans DEF Rest
    <3>2. alive \subseteq {"dtls"} /\ (x = "dtls" => alive = {})
      BY <1>2, <2>1 DEF LaterFirst, Things, Made
    <3>3. alive = {} \/ alive = {"dtls"}
      BY <3>2
    <3> QED
      BY <1>3, <3>1, <3>3 DEF Forgotten, Kept, Workers
  <2>2. CASE x = "hub"
    <3>1. Rest' = {"source"}
      BY <1>1, <2>2, UnwindFacts, ShortPlans DEF Rest
    <3>2. alive \subseteq {"dtls", "source"}
      BY <1>2, <2>2 DEF LaterFirst, Things, Made
    <3>3. Forgotten' = {} \/ Forgotten' = {"dtls"}
      BY <3>1, <3>2 DEF Forgotten
    <3> QED
      BY <1>3, <3>2, <3>3 DEF Kept, Workers
  <2>3. CASE x \notin {"dtls", "source", "hub"}
    <3>1. plan' = FailOrder
      BY <1>1, <2>3, UnwindFacts
    <3>2. /\ Made \ Rest' = {"mgr"}
          /\ Workers \subseteq Rest'
      BY <3>1, EndFacts, StopFacts DEF Rest
    <3>3. Forgotten' = {} \/ Forgotten' = {"mgr"}
      BY <1>2, <3>2 DEF Forgotten
    <3> QED
      BY <3>2, <3>3 DEF Kept
  <2> QED
    BY <2>1, <2>2, <2>3
<1> QED
  BY <1>1, <1>2, <1>4
  DEF ExitInv, Planned, Listens, Unwinding, Over, Live

LEMMA FailureExits ==
  ASSUME ExitInv, LifeInv, TypeOK,
         \/ Abandoned \/ StartSourceFails
         \/ \E x : CreateFails(x) /\ x # "ring"
  PROVE  ExitInv'
<1>1. UNCHANGED <<alive, thread, pc>>
  BY DEF Abandoned, StartSourceFails, CreateFails, vars
<1>2. CASE Abandoned
  <2>1. main = "abandoning" /\ pc[Encoder] = "gone" /\ GiveUp("encoder_worker")
    BY <1>2 DEF Abandoned
  <2>2. Calls'
    BY <1>1, <2>1 DEF ExitInv, Calls
  <2> QED
    BY <1>1, <2>1, <2>2, GiveUpExits
<1>3. ASSUME NEW x, At("starting", x), GiveUp(x) PROVE ExitInv'
  <2>1. main = "starting" /\ plan # <<>> /\ Head(plan) = x
    BY <1>3 DEF At
  <2>2. x \in Rest
    BY <2>1, TailFacts DEF LifeInv, LifeType, Rest
  <2>3. Calls'
    BY <1>1, <2>1 DEF ExitInv, Calls
  <2> QED
    BY <1>1, <1>3, <2>1, <2>2, <2>3, GiveUpExits
<1> QED
  BY <1>2, <1>3 DEF StartSourceFails, CreateFails

\* The loop begins and ends; the program returns.
LEMMA PhaseExits ==
  ASSUME ExitInv, LifeInv, Serve \/ Stop \/ Return
  PROVE  ExitInv'
<1>1. /\ UNCHANGED <<alive, thread, pc>> /\ alive \subseteq Made
      /\ main # "abandoning"
  BY DEF Serve, Stop, Return, vars, ExitInv
<1>2. Calls'
  BY <1>1 DEF ExitInv, Calls
<1>3. CASE Serve
  <2>1. main = "starting" /\ main' = "serving" /\ plan = <<>>
    BY <1>3 DEF Serve
  <2>2. Rest = {}
    BY <2>1, ShortPlans DEF Rest
  <2>3. "listener" \in alive
    BY <2>1, <2>2 DEF ExitInv, Planned
  <2> QED
    BY <1>1, <1>2, <2>1, <2>3
    DEF ExitInv, Planned, Listens, Unwinding, Over
<1>4. CASE Stop
  <2>1. main = "serving" /\ main' = "stopping" /\ plan' = StopOrder
    BY <1>4 DEF Stop
  <2>2. "listener" \in alive
    BY <2>1 DEF ExitInv, Listens
  <2>3. /\ Made \ Rest' = {"ring", "mgr"} /\ "listener" \in Rest'
        /\ Workers \subseteq Rest'
    BY <2>1, EndFacts, StopFacts DEF Rest
  <2>4. Forgotten' = {} \/ Forgotten' = {"ring"}
    BY <1>1, <2>2, <2>3 DEF Forgotten
  <2> QED
    BY <1>1, <1>2, <2>1, <2>3, <2>4
    DEF ExitInv, Planned, Listens, Unwinding, Over, Kept
<1>5. CASE Return
  <2>1. main = "stopping" /\ main' = "ended" /\ plan = <<>>
    BY <1>5 DEF Return
  <2>2. Rest = {}
    BY <2>1, ShortPlans DEF Rest
  <2>3. /\ alive \in Kept /\ \A w \in Workers : ~Live(w)
    BY <2>1, <2>2 DEF ExitInv, Unwinding, Forgotten
  <2> QED
    BY <1>1, <1>2, <2>1, <2>3
    DEF ExitInv, Planned, Listens, Unwinding, Over, Live
<1> QED
  BY <1>3, <1>4, <1>5

\* A step of the end: what it releases, or passes over, the plan had listed.
LEMMA DestroyExits ==
  ASSUME ExitInv, LifeInv, NEW x, Skip(x) \/ Destroy(x)
  PROVE  ExitInv'
<1>1. /\ main = "stopping" /\ main' = "stopping" /\ plan # <<>>
      /\ x = Head(plan) /\ plan' = Tail(plan)
      /\ UNCHANGED <<thread, pc>>
  BY DEF Skip, Destroy, At, vars
<1>2. Rest = {x} \cup Rest'
  BY <1>1, TailFacts DEF LifeInv, LifeType, Rest
<1>3. Forgotten \in Kept /\ \A w \in Workers : Live(w) => w \in Rest
  BY <1>1 DEF ExitInv, Unwinding
<1>4. x \notin alive' /\ alive' \subseteq alive
      /\ alive' = alive \ IF x = "listener" /\ x \in alive THEN {x, "mgr"} ELSE {x}
  BY DEF Skip, Destroy
<1>5. Forgotten' = Forgotten
  <2>1. CASE x = "listener"
    BY <1>2, <1>4, <2>1 DEF Forgotten
  <2>2. CASE x # "listener"
    BY <1>2, <1>4, <2>2 DEF Forgotten
  <2> QED
    BY <2>1, <2>2
<1>6. x \in Workers => ~Live(x)
  <2>1. CASE Skip(x)
    BY <2>1 DEF Skip, LifeInv, UsesAlive, Workers
  <2>2. CASE Destroy(x)
    BY <2>2 DEF Destroy, MayFree, Joined, Live
  <2> QED
    BY <2>1, <2>2
<1>7. Unwinding'
  BY <1>1, <1>2, <1>3, <1>5, <1>6 DEF Unwinding, Live
<1>8. Calls'
  <2>1. CASE x = "encoder_worker" /\ Destroy(x)
    BY <1>1, <2>1 DEF ExitInv, Calls, Destroy, MayFree
  <2>2. CASE x # "encoder_worker" \/ Skip(x)
    BY <1>1, <1>4, <2>2 DEF ExitInv, Calls, Skip
  <2> QED
    BY <2>1, <2>2
<1> QED
  BY <1>1, <1>4, <1>7, <1>8 DEF ExitInv, Planned, Listens, Over

LEMMA ExitInvStep ==
  ExitInv /\ LifeInv /\ TypeOK /\ [LifeNext]_lifeVars => ExitInv'
<1> SUFFICES ASSUME ExitInv, LifeInv, TypeOK, [LifeNext]_lifeVars
             PROVE  ExitInv'
  OBVIOUS
<1>1. CASE Ended \/ UNCHANGED lifeVars
  <2>1. UNCHANGED <<mainVars, thread, pc>>
    BY <1>1 DEF Ended, lifeVars, vars
  <2>2. Calls'
    BY <2>1 DEF ExitInv, Calls, mainVars
  <2> QED
    BY <2>1, <2>2, ExitStill DEF Live
<1>2. CASE Main
  <2>1. ASSUME NEW x \in {"dtls", "source", "hub", "source_worker", "encoder",
                          "ring", "janus_sender", "mgr", "listener"}, Create(x)
        PROVE  ExitInv'
    BY <2>1, CreateExits DEF Made, LifeInv
  <2>2. ASSUME NEW x, CreateFails(x) PROVE ExitInv'
    BY <2>2, CreateExits, FailureExits DEF LifeInv
  <2>3. CASE CreateEncoderWorker \/ AbandonEncoderWorker
    BY <2>3, CreateEncoderExits DEF LifeInv
  <2>4. CASE Abandoned \/ StartSourceFails
    BY <2>4, FailureExits
  <2>5. CASE \/ StartSource
             \/ \E x \in {"encoder_thread", "janus_thread"} : StartThread(x)
    BY <2>5, StartExits
  <2>6. CASE Serve \/ Return
    BY <2>6, PhaseExits
  <2>7. CASE \E x : Skip(x) \/ Destroy(x)
    BY <2>7, DestroyExits
  <2>8. CASE MainUnsubscribes \/ \E w \in Workers : StopWorker(w)
    BY <2>8, WaitExits
  <2> QED
    BY <1>2, <2>1, <2>2, <2>3, <2>4, <2>5, <2>6, <2>7, <2>8 DEF Main
<1> QED
  BY <1>1, <1>2, SourceExits, WorkersExit, PhaseExits DEF LifeNext

\* A pool nobody has a buffer of is full: each is on the free list.
LEMMA PoolFull ==
  ASSUME TypeOK, FreeExactly, \A f \in Frames : ~Referenced(f)
  PROVE  Len(freeList) = PoolCount
<1> DEFINE n == Len(freeList)
<1>1. /\ freeList \in [1 .. n -> Frames] /\ n \in Nat /\ n <= PoolCount
      /\ DOMAIN freeList = 1 .. n /\ PoolCount \in Nat \ {0}
  BY PoolAssumption DEF TypeOK
<1> HIDE DEF n
<1>2. \A f \in Frames : \E i \in 1 .. n : freeList[i] = f
  BY <1>1 DEF FreeExactly
<1>3. freeList \in Surjection(1 .. n, Frames)
  BY <1>1, <1>2 DEF Surjection
<1>4. IsFiniteSet(1 .. n) /\ Cardinality(1 .. n) = n
  BY <1>1, FS_Interval
<1>5. Cardinality(Frames) = PoolCount
  BY <1>1, FS_Interval DEF Frames
<1>6. Cardinality(Frames) <= n
  BY <1>3, <1>4, FS_Surjection
<1>7. n = PoolCount
  BY <1>1, <1>5, <1>6
<1> QED
  BY <1>7 DEF n

\* With the publisher idle and the encode worker out of the hub, the hub is as
\* it was at the start.
LEMMA HubAtRest ==
  ASSUME TypeOK, Control, Ownership, pc[Publisher] = "idle",
         pc[Encoder] \in {"out", "gone"}
  PROVE  /\ Len(freeList) = PoolCount /\ list = {}
         /\ poolLock = None /\ hubLock = None /\ consumerLock[Encoder] = None
<1>1. Consumers = {Encoder} /\ Threads = {Encoder, Publisher}
  BY LifecycleAssumption DEF Threads
<1>2. ~Delivering /\ ~Visiting /\ ~Leaving(Encoder) /\ ~Unreffing(Encoder)
  BY DEF Delivering, Visiting, Installing, Unreffing, Leaving
<1>3. poolLock = None /\ hubLock = None
  BY <1>1, <1>2 DEF TypeOK, Control, LockOwners
<1>4. consumerLock[Encoder] = None
  <2>1. consumerLock[Encoder] \in {Publisher, None}
    BY <1>1 DEF TypeOK
  <2> QED
    BY <1>1, <1>2, <2>1 DEF Control, LockOwners
<1>5. list = {} /\ slot[Encoder] = NoFrame
  BY <1>1, <1>2 DEF TypeOK, Control, Membership
<1>6. frame[Publisher] = NoFrame /\ frame[Encoder] = NoFrame
  BY <1>1, <1>2 DEF Control, Pointers
<1>7. \A f \in Frames : ~Referenced(f)
  BY <1>1, <1>5, <1>6, ThreadFacts DEF Referenced, InMailbox
<1>8. Len(freeList) = PoolCount
  BY <1>7, PoolFull DEF Ownership
<1> QED
  BY <1>3, <1>4, <1>5, <1>8

\* However the start failed or the program was stopped, at the end every thread
\* is over, the hub is at rest and its pool full, and what app_server_run has
\* not released is at most the ring, the mongoose manager or the DTLS library.
THEOREM ExitsClean == LifeSpec => []CleanExit
<1>1. LifeSpec => [](TypeOK /\ Control /\ Ownership)
  BY LifeImplementsHub, TypeCorrect, HubCorrectInProgram, PTL
<1>2. ExitInv /\ TypeOK /\ Control /\ Ownership => CleanExit
  <2> SUFFICES ASSUME ExitInv, TypeOK, Control, Ownership, main = "ended"
               PROVE  /\ \A w \in Workers : ~Live(w)
                      /\ Len(freeList) = PoolCount /\ list = {}
                      /\ poolLock = None /\ hubLock = None
                      /\ consumerLock[Encoder] = None
                      /\ alive \in {{}, {"ring"}, {"mgr"}, {"dtls"}}
    BY DEF CleanExit
  <2>1. alive \in Kept /\ \A w \in Workers : ~Live(w)
    BY DEF ExitInv, Over
  <2>2. "encoder_worker" \notin alive /\ thread["source_worker"] # "publishing"
    BY <2>1 DEF Kept, Live, Workers
  <2>3. pc[Publisher] = "idle" /\ pc[Encoder] \in {"out", "gone"}
    BY <2>2 DEF ExitInv, Calls
  <2> QED
    BY <2>1, <2>3, HubAtRest DEF Kept
<1> QED
  BY <1>1, <1>2, LifeInvInit, LifeInvStep, ExitInvInit, ExitInvStep, PTL
  DEF LifeSpec
=============================================================================
