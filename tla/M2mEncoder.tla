----------------------------- MODULE M2mEncoder -----------------------------
(***************************************************************************)
(* The V4L2 memory-to-memory encoder (src/src/media/encoder_v4l2m2m.c):    *)
(* raw frames travel in input buffers, encoded ones in capture buffers,    *)
(* between m2m_encode, called by the encode thread for each frame, and the *)
(* driver, which is external and works at its own pace.  A call of the     *)
(* driver may fail.                                                        *)
(*                                                                         *)
(* Capture buffers are all alike, so only their number counts.             *)
(***************************************************************************)
EXTENDS Integers, Sequences, FiniteSets

CONSTANTS
  Buffers,         \* the input buffers
  None,            \* no buffer
  CaptureBuffers,  \* number of capture buffers
  MaxErrors        \* the 64 of m2m_encode

ASSUME M2mAssumption ==
  /\ IsFiniteSet(Buffers) /\ Buffers # {}
  /\ None \notin Buffers
  /\ CaptureBuffers \in Nat \ {0}
  /\ MaxErrors \in Nat

VARIABLES
  out_free,   \* input buffers never used yet
  index,      \* the input buffer m2m_encode has in hand
  errors,
  force_idr,  \* its argument
  output,     \* number of encoded frames in the caller's buffer
  out_is_idr,
  result,     \* what the last call returned
  pc,
  raw,        \* driver: input buffers queued, oldest first
  consumed,   \* driver: input buffers it has done with
  empty,      \* driver: capture buffers waiting to be filled
  encoded     \* driver: frames encoded, oldest first

driverVars == <<raw, consumed, empty, encoded>>
callVars   == <<force_idr, output, out_is_idr, result>>
vars == <<driverVars, callVars, out_free, index, errors, pc>>

\* m2m_backend_open: the input buffers are free, the capture ones queued.
Init ==
  /\ out_free = Buffers /\ index = None /\ errors = 0
  /\ force_idr = FALSE /\ output = 0 /\ out_is_idr = FALSE /\ result = 0
  /\ pc = "ready"
  /\ raw = <<>> /\ consumed = {} /\ encoded = <<>>
  /\ empty = CaptureBuffers

Return(r) == result' = r /\ pc' = "ready"

\* The driver encodes the oldest raw frame: into a capture buffer with a
\* frame in it or, as drivers do, with none.  A frame that was asked to be a
\* keyframe is one, others may be.
Code(key, bytes) ==
  /\ raw # <<>> /\ empty > 0
  /\ Head(raw).key => key
  /\ raw' = Tail(raw)
  /\ consumed' = consumed \cup {Head(raw).buffer}
  /\ empty' = empty - 1
  /\ encoded' = Append(encoded, [key |-> key, bytes |-> bytes])
  /\ UNCHANGED <<callVars, out_free, index, errors, pc>>

-----------------------------------------------------------------------------
(* m2m_encode.                                                             *)

\* The call: too many errors in a row are fatal.
Call(force) ==
  /\ pc = "ready" /\ result # -1
  /\ force_idr' = force
  /\ output' = 0
  /\ out_is_idr' = FALSE
  /\ IF errors > MaxErrors THEN Return(-1)
     ELSE pc' = "acquire" /\ UNCHANGED result
  /\ UNCHANGED <<driverVars, out_free, index, errors>>

\* m2m_acquire_input_buffer: one never used, or one the driver has done with.
AcquireFree ==
  /\ pc = "acquire"
  /\ \E b \in out_free : out_free' = out_free \ {b} /\ index' = b
  /\ pc' = "queue"
  /\ UNCHANGED <<driverVars, callVars, errors>>

\* A variant with a bug: the buffer is read off the driver but not removed.
AcquireConsumedKeeps ==
  /\ pc = "acquire" /\ out_free = {}
  /\ \E b \in consumed : index' = b
  /\ pc' = "queue"
  /\ UNCHANGED <<driverVars, callVars, out_free, errors>>

AcquireConsumed ==
  /\ pc = "acquire" /\ out_free = {}
  /\ \E b \in consumed : consumed' = consumed \ {b} /\ index' = b
  /\ pc' = "queue"
  /\ UNCHANGED <<raw, empty, encoded, callVars, out_free, errors>>

\* The wait times out, or VIDIOC_DQBUF fails: no output this round.
AcquireFails ==
  /\ pc = "acquire" /\ out_free = {}
  /\ Return(0)
  /\ UNCHANGED <<driverVars, force_idr, output, out_is_idr, out_free, index,
                 errors>>

\* VIDIOC_QBUF of the raw frame.
Queue ==
  /\ pc = "queue"
  /\ raw' = Append(raw, [buffer |-> index, key |-> force_idr])
  /\ index' = None
  /\ pc' = "wait"
  /\ UNCHANGED <<consumed, empty, encoded, callVars, out_free, errors>>

\* A variant: the buffer is given back.
QueueFailsGivesBack ==
  /\ pc = "queue"
  /\ errors' = errors + 1
  /\ out_free' = out_free \cup {index}
  /\ index' = None
  /\ Return(0)
  /\ UNCHANGED <<driverVars, force_idr, output, out_is_idr>>

\* It fails: the function returns, and nothing refers to the buffer any more.
QueueFails ==
  /\ pc = "queue"
  /\ errors' = errors + 1
  /\ index' = None
  /\ Return(0)
  /\ UNCHANGED <<driverVars, force_idr, output, out_is_idr, out_free>>

\* A variant with a bug: the wait has no timeout.
WaitForever ==
  /\ pc = "wait" /\ encoded # <<>>
  /\ pc' = "drain"
  /\ UNCHANGED <<driverVars, callVars, out_free, index, errors>>

\* Wait a little for encoded frames.
Wait ==
  /\ pc = "wait"
  /\ IF encoded = <<>> THEN Return(0) ELSE pc' = "drain" /\ UNCHANGED result
  /\ UNCHANGED <<driverVars, force_idr, output, out_is_idr, out_free, index,
                 errors>>

\* The frame a capture buffer holds makes the access unit a keyframe; with a
\* bug, also when it did not fit.
IsKeyAnyway(unit, fits) == unit.key
IsKey(unit, fits) == unit.bytes /\ fits /\ unit.key

\* What is left in the driver.
Rest == Tail(encoded)

\* Take an encoded frame out of its capture buffer, if there is one and it
\* fits what is left of the caller's buffer, then give the capture buffer
\* back: `requeued' is FALSE when VIDIOC_QBUF fails, which ends the loop.
DrainOne(fits, requeued) ==
  LET unit == Head(encoded) IN
  /\ pc = "drain" /\ encoded # <<>>
  /\ output' = IF unit.bytes /\ fits THEN output + 1 ELSE output
  /\ out_is_idr' = (out_is_idr \/ IsKey(unit, fits))
  /\ encoded' = Rest
  /\ empty' = IF requeued THEN empty + 1 ELSE empty
  /\ pc' = IF requeued /\ Len(encoded) > 1 THEN "drain" ELSE "return"
  /\ UNCHANGED <<raw, consumed, force_idr, result, out_free, index, errors>>

\* VIDIOC_DQBUF of a capture buffer fails.
DrainFails ==
  /\ pc = "drain"
  /\ pc' = "return"
  /\ UNCHANGED <<driverVars, callVars, out_free, index, errors>>

\* Output clears the error count.
Finish ==
  /\ pc = "return"
  /\ errors' = IF output > 0 THEN 0 ELSE errors
  /\ Return(IF output > 0 THEN 1 ELSE 0)
  /\ UNCHANGED <<driverVars, force_idr, output, out_is_idr, out_free, index>>

-----------------------------------------------------------------------------
Encode ==
  \/ \E force \in BOOLEAN : Call(force)
  \/ AcquireFree \/ AcquireConsumed \/ AcquireFails
  \/ Queue \/ QueueFails
  \/ Wait
  \/ \E fits, requeued \in BOOLEAN : DrainOne(fits, requeued)
  \/ DrainFails \/ Finish

Next == Encode \/ \E key, bytes \in BOOLEAN : Code(key, bytes)

\* The encode thread runs, and keeps handing in frames.
Spec == Init /\ [][Next]_vars
FairSpec == Spec /\ WF_vars(Encode)
-----------------------------------------------------------------------------
(* Properties.                                                             *)

BuffersIn(s) == {s[i].buffer : i \in DOMAIN s}
InHand == {index} \ {None}
\* Input buffers that are nowhere: neither free, nor in hand, nor the
\* driver's.
Lost == Buffers \ (out_free \cup InHand \cup BuffersIn(raw) \cup consumed)

\* Type invariant.
TypeOK ==
  /\ out_free \subseteq Buffers /\ consumed \subseteq Buffers
  /\ index \in Buffers \cup {None}
  /\ errors \in Nat
  /\ {force_idr, out_is_idr} \subseteq BOOLEAN
  /\ output \in Nat /\ result \in {-1, 0, 1}
  /\ pc \in {"ready", "acquire", "queue", "wait", "drain", "return"}
  /\ raw \in Seq([buffer : Buffers, key : BOOLEAN])
  /\ encoded \in Seq([key : BOOLEAN, bytes : BOOLEAN])
  /\ empty \in Nat /\ empty + Len(encoded) <= CaptureBuffers

\* An input buffer is at one place only: the frame the driver is reading is
\* never overwritten by the next one.
OnePlace ==
  /\ \A b \in Buffers :
       Cardinality({i \in DOMAIN raw : raw[i].buffer = b})
         + (IF b \in out_free THEN 1 ELSE 0) + (IF b \in consumed THEN 1 ELSE 0)
         + (IF index = b THEN 1 ELSE 0) <= 1
  /\ pc = "queue" <=> index # None

\* Each error costs an input buffer, so there are never more than there are
\* buffers: with 6 of them the limit of 64 is out of reach, the encoder never
\* reports a fatal error, and the encode worker never stops because of it.
ErrorsCost == errors <= Cardinality(Lost)

\* m2m_encode never announces a keyframe without handing over its data: the
\* encode worker clears the pending requests on that word.
KeyReported == pc = "ready" /\ out_is_idr => result = 1

\* A call returns, whatever the driver does: every wait has a timeout.
CallReturns == pc # "ready" ~> pc = "ready"
=============================================================================
