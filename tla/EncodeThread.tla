---------------------------- MODULE EncodeThread ----------------------------
(***************************************************************************)
(* What the threads that serve viewers may expect of the encode thread     *)
(* (src/src/media/encoder_worker.c) with an encoder that codes each frame  *)
(* it is given, as libx264 does: how it treats force_idr and the ring of   *)
(* access units, and nothing of where its frames come from, why it idles   *)
(* or what it counts.  An access unit is TRUE when it is a keyframe.       *)
(*                                                                         *)
(* EncoderWorker implements this, whatever the other threads do; the       *)
(* encode thread of RtcServer is one like it.                              *)
(***************************************************************************)
EXTENDS Integers, Sequences

CONSTANT RingSlots  \* slot_count of the ring

VARIABLES
  force_idr,  \* somebody needs a keyframe
  stage,      \* where the thread stands: "idle" unless it has a frame to code
  force,      \* its local copy of force_idr
  is_idr,     \* the unit it has is a keyframe
  ring        \* the access units in the ring

threadVars == <<stage, force, is_idr>>
encodeVars == <<force_idr, threadVars, ring>>

Init ==
  /\ force_idr = FALSE /\ stage = "idle"
  /\ force = FALSE /\ is_idr = FALSE
  /\ ring = <<>>

\* The other threads ask for keyframes, and take units out of the ring.
Ask   == force_idr' = TRUE /\ UNCHANGED <<threadVars, ring>>
Fetch == /\ ring # <<>>
         /\ ring' = Tail(ring)
         /\ UNCHANGED <<threadVars, force_idr>>

Goes(from, to) == stage = from /\ stage' = to

\* A frame to code, and somebody to watch it.
Begin ==
  /\ Goes("idle", "exchange")
  /\ UNCHANGED <<force_idr, force, is_idr, ring>>

\* The request is taken together with the decision to code for it ...
Exchange ==
  /\ Goes("exchange", "encode")
  /\ force' = force_idr
  /\ force_idr' = FALSE
  /\ UNCHANGED <<is_idr, ring>>

\* ... and a keyframe is what then comes out of the encoder.
Code(key) ==
  /\ force => key
  /\ Goes("encode", IF key THEN "clear" ELSE "push")
  /\ is_idr' = key
  /\ UNCHANGED <<force_idr, force, ring>>

\* A keyframe answers the requests that came while it was made: it is the only
\* thing that does.
Clear ==
  /\ Goes("clear", "push")
  /\ force_idr' = FALSE
  /\ UNCHANGED <<force, is_idr, ring>>

\* The newest unit takes the place of the oldest.
Push ==
  /\ Goes("push", "idle")
  /\ ring' = Append(IF Len(ring) = RingSlots THEN Tail(ring) ELSE ring, is_idr)
  /\ UNCHANGED <<force_idr, force, is_idr>>

Thread == Begin \/ Exchange \/ (\E key \in BOOLEAN : Code(key)) \/ Clear \/ Push

Next == Ask \/ Fetch \/ Thread

Spec == Init /\ [][Next]_encodeVars
=============================================================================
