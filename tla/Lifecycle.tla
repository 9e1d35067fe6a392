----------------------------- MODULE Lifecycle -----------------------------
(***************************************************************************)
(* One run of the program (app_server_run in src/src/app/app_server.c):    *)
(* what it creates, the threads it starts, how it unwinds when a step of   *)
(* that fails, and how it shuts down while its threads still run.  The     *)
(* source worker captures from a V4L2 camera (src/src/media/v4l2_source.c) *)
(* and publishes through FrameHub, whose only consumer is the encode       *)
(* worker.                                                                 *)
(*                                                                         *)
(* `plan' lists what the main thread has yet to create, then what it has   *)
(* yet to release.  Both builds are here: with WebRTC in the program       *)
(* itself, and with the Janus sender.                                      *)
(***************************************************************************)
EXTENDS FrameHub

CONSTANTS
  Encoder,            \* the encode worker as a consumer of the hub
  Buffers,            \* the buffers shared with the camera driver
  MaxRequeueFailures  \* bound: VIDIOC_QBUFs that fail while capturing

ASSUME LifecycleAssumption ==
  /\ Consumers = {Encoder}
  /\ IsFiniteSet(Buffers) /\ None \notin Buffers
  /\ MaxRequeueFailures \in Nat

Workers == {"source_worker", "encoder_worker", "janus_sender"}

\* The step of the plan that starts a worker's thread.
WorkerOf == [source_thread  |-> "source_worker",
             encoder_thread |-> "encoder_worker",
             janus_thread   |-> "janus_sender"]

StartOrder(janus) ==
  IF janus
  THEN <<"source", "hub", "source_worker", "source_thread", "encoder", "ring",
         "encoder_worker", "encoder_thread", "janus_sender", "janus_thread",
         "mgr", "listener">>
  ELSE <<"dtls", "source", "hub", "source_worker", "source_thread", "encoder",
         "ring", "encoder_worker", "encoder_thread", "mgr", "listener">>

\* With a bug: the hub goes before the thread that publishes to it.
StopHubFirst ==
  <<"janus_sender", "listener", "encoder_worker", "encoder", "hub",
    "source_worker", "source", "dtls">>

\* The end of app_server_run after the loop; the ring is forgotten.
StopOrder ==
  <<"janus_sender", "listener", "encoder_worker", "encoder", "source_worker",
    "hub", "source", "dtls">>

\* The order at its label `fail'.
FailOrder ==
  <<"listener", "janus_sender", "encoder_worker", "encoder", "source_worker",
    "ring", "hub", "source", "dtls">>

\* With a bug: the camera stays open when there is no hub.
UnwindForgetsSource(x) == IF x \in {"dtls", "source", "hub"} THEN <<>>
                          ELSE FailOrder

\* What is released when x cannot be had; the first failures return at once.
Unwind(x) == CASE x \in {"dtls", "source"} -> <<>>
               [] x = "hub" -> <<"source">>
               [] OTHER -> FailOrder

VARIABLES
  main,      \* where the main thread stands
  plan,      \* what it has yet to create, or to release
  alive,     \* what is created and not released
  thread,    \* where the thread of each worker stands
  running,   \* the workers whose flag `running' is set
  queued,    \* the buffers the driver may fill
  held,      \* the buffer v4l2_capture lent to the source worker
  failures   \* history: VIDIOC_QBUFs that failed while capturing

mainVars   == <<main, plan, alive>>
cameraVars == <<queued, held, failures>>
lifeVars   == <<vars, mainVars, thread, running, cameraVars>>

LifeInit ==
  /\ Init
  /\ main = "starting"
  /\ \E janus \in BOOLEAN : plan = StartOrder(janus)
  /\ alive = {}
  /\ thread = [w \in Workers |-> "none"]
  /\ running = {}
  /\ queued = {} /\ held = None /\ failures = 0

At(phase, x) == main = phase /\ plan # <<>> /\ Head(plan) = x

\* Step x of the start fails.
GiveUp(x) == main' = "stopping" /\ plan' = Unwind(x)

Thread(w, label) == thread' = [thread EXCEPT ![w] = label]

-----------------------------------------------------------------------------
(* The start.                                                              *)

Create(x) ==
  /\ At("starting", x)
  /\ alive' = alive \cup {x}
  /\ running' = running \cup ({x} \cap Workers)
  /\ plan' = Tail(plan)
  /\ UNCHANGED <<vars, main, thread, cameraVars>>

\* Every step but mg_mgr_init can fail.  au_ring_create is looked at later.
CreateFails(x) ==
  /\ At("starting", x)
  /\ x # "mgr"
  /\ IF x = "ring" THEN plan' = Tail(plan) /\ UNCHANGED main ELSE GiveUp(x)
  /\ UNCHANGED <<vars, alive, thread, running, cameraVars>>

\* encoder_worker_create subscribes to the hub, while frames are published ...
CreateEncoderWorker ==
  /\ At("starting", "encoder_worker")
  /\ Subscribe(Encoder)
  /\ alive' = alive \cup {"encoder_worker"}
  /\ running' = running \cup {"encoder_worker"}
  /\ plan' = Tail(plan)
  /\ UNCHANGED <<main, thread, cameraVars>>

\* ... or its buffers cannot be had, and it unsubscribes again ...
AbandonEncoderWorker ==
  /\ At("starting", "encoder_worker")
  /\ Subscribe(Encoder)
  /\ main' = "abandoning"
  /\ UNCHANGED <<plan, alive, thread, running, cameraVars>>

\* ... and the start fails.
Abandoned ==
  /\ main = "abandoning" /\ pc[Encoder] = "gone"
  /\ GiveUp("encoder_worker")
  /\ UNCHANGED <<vars, alive, thread, running, cameraVars>>

\* source_worker_start: v4l2_start queues every buffer, then the thread runs.
StartSource ==
  /\ At("starting", "source_thread")
  /\ Thread("source_worker", "top")
  /\ queued' = Buffers
  /\ plan' = Tail(plan)
  /\ UNCHANGED <<vars, main, alive, running, held, failures>>

\* It fails with some of the buffers queued.
StartSourceFails ==
  /\ At("starting", "source_thread")
  /\ queued' \in SUBSET Buffers
  /\ GiveUp("source_thread")
  /\ UNCHANGED <<vars, alive, thread, running, held, failures>>

\* encoder_worker_start and janus_rtp_sender_start; not without a ring.
StartThread(x) ==
  /\ At("starting", x)
  /\ "ring" \in alive
  /\ Thread(WorkerOf[x], "top")
  /\ plan' = Tail(plan)
  /\ UNCHANGED <<vars, main, alive, running, cameraVars>>

\* Everything is there: the event loop.
Serve ==
  /\ main = "starting" /\ plan = <<>>
  /\ main' = "serving"
  /\ UNCHANGED <<vars, plan, alive, thread, running, cameraVars>>

\* SIGINT or SIGTERM ends it.
Stop ==
  /\ main = "serving"
  /\ main' = "stopping" /\ plan' = StopOrder
  /\ UNCHANGED <<vars, alive, thread, running, cameraVars>>

-----------------------------------------------------------------------------
(* The end, after the loop or at `fail'.                                   *)

\* What was never created is skipped.
Skip(x) ==
  /\ At("stopping", x) /\ x \notin alive
  /\ plan' = Tail(plan)
  /\ UNCHANGED <<vars, main, alive, thread, running, cameraVars>>

\* *_stop clears the flag the thread looks at.
StopWorker(w) ==
  /\ At("stopping", w) /\ w \in alive \cap running
  /\ running' = running \ {w}
  /\ UNCHANGED <<vars, mainVars, thread, cameraVars>>

Joined(w) == w \notin running /\ thread[w] \in {"none", "done"}

\* *_destroy joins the thread first; that of the encode worker unsubscribes.
MayFree(x) ==
  /\ x \in Workers => Joined(x)
  /\ x = "encoder_worker" => pc[Encoder] = "gone"

\* x is released: mg_mgr_free takes the listener along, v4l2_close unmaps the
\* buffers.
Destroy(x) ==
  /\ At("stopping", x) /\ x \in alive
  /\ MayFree(x)
  /\ alive' = alive \ IF x = "listener" THEN {"listener", "mgr"} ELSE {x}
  /\ queued' = IF x = "source" THEN {} ELSE queued
  /\ plan' = Tail(plan)
  /\ UNCHANGED <<vars, main, thread, running, held, failures>>

\* frame_hub_unsubscribe by the main thread, under the encode worker's name.
MainUnsubscribes ==
  /\ \/ main = "abandoning"
     \/ At("stopping", "encoder_worker") /\ Joined("encoder_worker")
  /\ \/ UnsubscribeLock(Encoder) \/ Unlink(Encoder)
     \/ UnrefRead(Encoder) \/ UnrefWrite(Encoder)
  /\ UNCHANGED <<mainVars, thread, running, cameraVars>>

Return ==
  /\ main = "stopping" /\ plan = <<>>
  /\ main' = "ended"
  /\ UNCHANGED <<vars, plan, alive, thread, running, cameraVars>>

-----------------------------------------------------------------------------
(* source_worker_thread.                                                   *)

SourceAt(from, to) ==
  thread["source_worker"] = from /\ Thread("source_worker", to)

SourceChecks ==
  /\ SourceAt("top", IF "source_worker" \in running THEN "capture" ELSE "done")
  /\ UNCHANGED <<vars, mainVars, running, cameraVars>>

\* v4l2_capture: no buffer within 200 ms, or an error and a nap of 20 ms.
CapturesNothing ==
  /\ SourceAt("capture", "top")
  /\ UNCHANGED <<vars, mainVars, running, cameraVars>>

\* v4l2_capture lends a filled buffer.
Captures(b) ==
  /\ SourceAt("capture", "publish")
  /\ b \in queued /\ sequence < MaxSequence
  /\ queued' = queued \ {b} /\ held' = b
  /\ UNCHANGED <<vars, mainVars, running, failures>>

\* VIDIOC_QBUF gives buffer b back to the driver, or fails, which is only
\* reported.
Requeue(b) ==
  \/ queued' = queued \cup {b} /\ UNCHANGED failures
  \/ /\ failures < MaxRequeueFailures
     /\ queued' = queued \ {b} /\ failures' = failures + 1

\* With a bug: the bad buffer is not given back.
CapturesBadKeeps(b) ==
  /\ SourceAt("capture", "top")
  /\ b \in queued
  /\ queued' = queued \ {b}
  /\ UNCHANGED <<vars, mainVars, running, held, failures>>

\* A buffer that is empty or flagged goes straight back.
CapturesBad(b) ==
  /\ SourceAt("capture", "top")
  /\ b \in queued
  /\ Requeue(b)
  /\ UNCHANGED <<vars, mainVars, running, held>>

\* frame_hub_publish begins; with the pool empty it ends at once.
PublishBegins ==
  /\ \/ Acquire /\ SourceAt("publish", "publishing")
     \/ PublishExhausted /\ SourceAt("publish", "release")
  /\ UNCHANGED <<mainVars, running, cameraVars>>

\* It goes on until its own reference is dropped.
PublishGoesOn ==
  /\ thread["source_worker"] = "publishing"
  /\ \/ Fill \/ PublishLock \/ Visit(Encoder) \/ RefRead \/ RefWrite \/ Install
     \/ PublishUnlock \/ UnrefRead(Publisher) \/ UnrefWrite(Publisher)
  /\ UNCHANGED <<mainVars, thread, running, cameraVars>>

PublishEnds ==
  /\ pc[Publisher] = "idle"
  /\ SourceAt("publishing", "release")
  /\ UNCHANGED <<vars, mainVars, running, cameraVars>>

\* v4l2_release.
Releases ==
  /\ SourceAt("release", "top")
  /\ Requeue(held) /\ held' = None
  /\ UNCHANGED <<vars, mainVars, running>>

SourceThread ==
  \/ SourceChecks \/ CapturesNothing
  \/ \E b \in Buffers : Captures(b) \/ CapturesBad(b)
  \/ PublishBegins \/ PublishGoesOn \/ PublishEnds \/ Releases

-----------------------------------------------------------------------------
(* encoder_thread and the thread of the Janus sender.                      *)

EncoderAt(from, to) ==
  thread["encoder_worker"] = from /\ Thread("encoder_worker", to)

\* The flag is looked at, and the mailbox, which may be empty.
EncoderTakes ==
  /\ thread["encoder_worker"] = "top"
  /\ "encoder_worker" \in running
  /\ Take(Encoder)
  /\ UNCHANGED <<mainVars, thread, running, cameraVars>>

\* The frame is skipped or coded, then released; what came of it decides how
\* the thread goes on.
EncoderReleases ==
  /\ \E next \in {"top", "push", "fatal"} : EncoderAt("top", next)
  /\ Release(Encoder)
  /\ UNCHANGED <<mainVars, running, cameraVars>>

EncoderUnrefs ==
  /\ thread["encoder_worker"] \in {"top", "push", "fatal"}
  /\ UnrefRead(Encoder) \/ UnrefWrite(Encoder)
  /\ UNCHANGED <<mainVars, thread, running, cameraVars>>

\* au_ring_push of what was coded.
EncoderPushes ==
  /\ pc[Encoder] = "idle"
  /\ EncoderAt("push", "top")
  /\ UNCHANGED <<vars, mainVars, running, cameraVars>>

\* With a bug: the flag is not looked at while the mailbox is empty.
EncoderEndsFed ==
  /\ pc[Encoder] = "idle"
  /\ \/ EncoderAt("fatal", "done")
     \/ /\ "encoder_worker" \notin running /\ slot[Encoder] # NoFrame
        /\ EncoderAt("top", "done")
  /\ UNCHANGED <<vars, mainVars, running, cameraVars>>

\* The thread ends when it is told to, or for good after an encoder error.
EncoderEnds ==
  /\ pc[Encoder] = "idle"
  /\ \/ EncoderAt("fatal", "done")
     \/ "encoder_worker" \notin running /\ EncoderAt("top", "done")
  /\ UNCHANGED <<vars, mainVars, running, cameraVars>>

EncoderThread ==
  EncoderTakes \/ EncoderReleases \/ EncoderUnrefs \/ EncoderPushes
    \/ EncoderEnds

\* sender_thread: a round of poll, feedback, ring, report changes nothing here.
JanusEnds ==
  /\ thread["janus_sender"] = "top" /\ "janus_sender" \notin running
  /\ Thread("janus_sender", "done")
  /\ UNCHANGED <<vars, mainVars, running, cameraVars>>

-----------------------------------------------------------------------------

Main ==
  \/ \E x \in {"dtls", "source", "hub", "source_worker", "encoder", "ring",
               "janus_sender", "mgr", "listener"} : Create(x)
  \/ CreateEncoderWorker \/ AbandonEncoderWorker \/ Abandoned
  \/ \E x \in {"dtls", "source", "hub", "source_worker", "encoder", "ring",
               "encoder_worker", "encoder_thread", "janus_sender",
               "janus_thread", "listener"} : CreateFails(x)
  \/ StartSource \/ StartSourceFails
  \/ \E x \in {"encoder_thread", "janus_thread"} : StartThread(x)
  \/ Serve
  \/ \E x \in {"dtls", "source", "hub", "encoder", "ring", "listener"}
              \cup Workers : Skip(x) \/ Destroy(x)
  \/ \E w \in Workers : StopWorker(w)
  \/ MainUnsubscribes \/ Return

Ended == main = "ended" /\ UNCHANGED lifeVars

LifeNext == Main \/ Stop \/ SourceThread \/ EncoderThread \/ JanusEnds \/ Ended

LifeSpec == LifeInit /\ [][LifeNext]_lifeVars

\* Every thread runs; the hub lock is granted in the end to the main thread
\* that waits for it.  Nobody has to stop the program.
FairLifeSpec ==
  /\ LifeSpec
  /\ SF_lifeVars(Main) /\ SF_lifeVars(EncoderThread)
  /\ WF_lifeVars(SourceThread) /\ WF_lifeVars(JanusEnds)
-----------------------------------------------------------------------------
(* Properties.                                                             *)

\* What the thread of a worker uses as long as it runs.
Uses == [source_worker  |-> {"source_worker", "source", "hub"},
         encoder_worker |-> {"encoder_worker", "hub", "encoder", "ring"},
         janus_sender   |-> {"janus_sender", "ring"}]

Live(w) == thread[w] \notin {"none", "done"}

\* No thread ever uses what the main thread has released, however far the
\* start came and whichever thread has died before; a buffer it lends is
\* mapped and not in the driver's hands; the main thread leaves no mailbox in
\* a hub it has released.
NothingDangling ==
  /\ \A w \in Workers : Live(w) => Uses[w] \subseteq alive
  /\ held # None => "source" \in alive /\ held \notin queued
  /\ main = "serving" => {"ring", "hub", "encoder_worker"} \subseteq alive
  /\ list # {} => "hub" \in alive

\* At the end every thread is over, every frame is back in the pool, every
\* lock is free, and all is released but the ring (after the loop), the
\* mongoose manager (when there is no listener) and the DTLS library (when
\* there is no source or no hub).
CleanExit ==
  main = "ended" =>
    /\ \A w \in Workers : ~Live(w)
    /\ Len(freeList) = PoolCount /\ list = {}
    /\ poolLock = None /\ hubLock = None /\ consumerLock[Encoder] = None
    /\ alive \in {{}, {"ring"}, {"mgr"}, {"dtls"}}

\* The driver loses a buffer only to a VIDIOC_QBUF that failed: no error path
\* of the capture starves the camera.
BuffersKept ==
  Live("source_worker") =>
    Cardinality(Buffers \ (queued \cup {held})) <= failures

\* The program ends when it is told to, or when its start fails, whatever
\* thread has died, runs dry or waits for a lock.
ShutdownEnds == main = "stopping" ~> main = "ended"
=============================================================================
