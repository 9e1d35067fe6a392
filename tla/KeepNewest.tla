----------------------------- MODULE KeepNewest -----------------------------
(***************************************************************************)
(* What the frame hub promises each consumer: a mailbox of one frame, in   *)
(* which a newer frame replaces one not yet taken, so that a consumer sees *)
(* ever newer frames, each at most once, and never one that changes while  *)
(* it waits in the mailbox.                                                *)
(***************************************************************************)
EXTENDS Integers

CONSTANT Consumers

VARIABLES
  box,  \* the sequence number of the frame in the mailbox, or -1
  got   \* the sequence number of the last frame taken, or -1

Init == /\ box = [c \in Consumers |-> -1]
        /\ got = [c \in Consumers |-> -1]

\* A frame newer than all this consumer had replaces what the mailbox holds.
Deliver(c) ==
  /\ box[c]' > box[c] /\ box[c]' > got[c]
  /\ box' = [box EXCEPT ![c] = box[c]']
  /\ UNCHANGED got

Take(c) ==
  /\ box[c] # -1
  /\ got' = [got EXCEPT ![c] = box[c]]
  /\ box' = [box EXCEPT ![c] = -1]

\* The consumer leaves; what its mailbox held is lost.
Discard(c) ==
  /\ box[c] # -1
  /\ box' = [box EXCEPT ![c] = -1]
  /\ UNCHANGED got

Next == \E c \in Consumers : Deliver(c) \/ Take(c) \/ Discard(c)

Spec == Init /\ [][Next]_<<box, got>>
=============================================================================
