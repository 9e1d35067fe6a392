------------------------------- MODULE AuRing -------------------------------
(***************************************************************************)
(* The ring of encoded access units (src/src/media/au_ring.c) between the  *)
(* encode thread, which pushes, and the network loop or the Janus sender,  *)
(* which pops.  Each call runs under the ring's lock from its first read   *)
(* of the ring to its last write, so it is one step; what a caller copies  *)
(* in or out is copied inside that step.                                   *)
(***************************************************************************)
EXTENDS Integers, Sequences

CONSTANTS
  Slots,           \* slot_count
  SlotCapacity,    \* slot_capacity
  BufferCapacity,  \* capacity of the reader's buffer
  Data,            \* contents of access units
  Garbage,         \* contents of memory nobody wrote
  MaxSequence      \* bound: units pushed

ASSUME RingAssumption ==
  /\ Slots \in Nat \ {0}
  /\ SlotCapacity \in Nat \ {0}
  /\ BufferCapacity \in Nat
  /\ MaxSequence \in Nat
  /\ Garbage \notin Data

\* What the encoder hands to au_ring_push; size 0 stands for an empty unit,
\* SlotCapacity + 1 for any that does not fit a slot.
Units == [data : Data, size : 0 .. SlotCapacity + 1, is_idr : BOOLEAN]

Index == 0 .. Slots - 1

VARIABLES
  backing,   \* contents of each slot
  meta,      \* AuMeta of each slot
  head,      \* next to read
  tail,      \* next to write
  count,
  dropped,
  sequence,
  buffer,    \* history: the last unit the reader received
  taken      \* history: number of units that left through au_ring_pop

vars == <<backing, meta, head, tail, count, dropped, sequence, buffer, taken>>

ZeroMeta == [size |-> 0, is_idr |-> FALSE, sequence |-> 0]

Metas == [size : Nat, is_idr : BOOLEAN, sequence : Nat]

\* au_ring_create.
Init ==
  /\ backing = [i \in Index |-> Garbage]
  /\ meta = [i \in Index |-> ZeroMeta]
  /\ head = 0
  /\ tail = 0
  /\ count = 0
  /\ dropped = 0
  /\ sequence = 0
  /\ buffer = [data |-> Garbage,
               meta |-> [size |-> 0, is_idr |-> FALSE, sequence |-> -1]]
  /\ taken = 0

After(i) == (i + 1) % Slots

\* A push into a full ring overwrites the oldest unit; with a bug, the head is
\* not moved.
MakeRoomKeepsHead ==
  /\ dropped' = IF count = Slots THEN dropped + 1 ELSE dropped
  /\ UNCHANGED head
MakeRoom ==
  /\ head' = IF count = Slots THEN After(head) ELSE head
  /\ dropped' = IF count = Slots THEN dropped + 1 ELSE dropped

\* Units that stay when one is pushed.
Kept == IF count = Slots THEN count - 1 ELSE count

\* au_ring_push: refused when empty or too large for a slot.
Push(au) ==
  /\ 0 < au.size /\ au.size <= SlotCapacity
  /\ sequence < MaxSequence
  /\ MakeRoom
  /\ backing' = [backing EXCEPT ![tail] = au.data]
  /\ meta' = [meta EXCEPT ![tail] = [size |-> au.size,
                                     is_idr |-> au.is_idr,
                                     sequence |-> sequence]]
  /\ sequence' = sequence + 1
  /\ tail' = After(tail)
  /\ count' = Kept + 1
  /\ UNCHANGED <<buffer, taken>>

\* What a reader whose buffer is large enough receives; with a bug, the
\* contents are copied after the head has moved on.
OldestAdvanced == [data |-> backing[After(head)], meta |-> meta[head]]
Oldest == [data |-> backing[head], meta |-> meta[head]]

\* au_ring_pop: the oldest unit leaves the ring; it is copied out only when
\* the reader's buffer can hold it.
Pop ==
  /\ count # 0
  /\ buffer' = IF meta[head].size <= BufferCapacity THEN Oldest ELSE buffer
  /\ head' = After(head)
  /\ count' = count - 1
  /\ taken' = taken + 1
  /\ UNCHANGED <<backing, meta, tail, dropped, sequence>>

\* The bound is reached and the ring is empty.
Done == sequence = MaxSequence /\ count = 0 /\ UNCHANGED vars

Next == (\E au \in Units : Push(au)) \/ Pop \/ Done

Spec == Init /\ [][Next]_vars
-----------------------------------------------------------------------------
(* Properties.                                                             *)

\* Type invariant.
TypeOK ==
  /\ backing \in [Index -> Data \cup {Garbage}]
  /\ meta \in [Index -> Metas]
  /\ head \in Index /\ tail \in Index
  /\ count \in 0 .. Slots
  /\ dropped \in Nat /\ sequence \in Nat /\ taken \in Nat
  /\ buffer \in [data : Data \cup {Garbage},
                 meta : [size : Nat, is_idr : BOOLEAN, sequence : Int]]

\* The slot of the i-th unit held, from 0.
SlotOf(i) == (head + i) % Slots

\* head, tail and count agree: the units held end where the next one goes.
IndicesAgree == tail = SlotOf(count)

\* The units held carry consecutive numbers and end with the newest, also
\* after the indices wrap and after the oldest is overwritten.
Consecutive ==
  \A i \in 0 .. count - 1 : meta[SlotOf(i)].sequence = sequence - count + i

\* Every unit pushed is still held, or was popped, or was counted as dropped.
Accounted == sequence = count + taken + dropped

\* The reader has only units older than all those held.
ReaderBehind == buffer.meta.sequence < sequence - count

\* What a reader receives is newer than all it received before.
NeverGoesBack ==
  [][buffer' # buffer => buffer'.meta.sequence > buffer.meta.sequence]_vars

\* The ring implements the drop-oldest queue: what is popped is, contents and
\* all, the oldest unit pushed and not yet popped or overwritten.
Item(data, m) ==
  [unit |-> [data |-> data, size |-> m.size, is_idr |-> m.is_idr],
   sequence |-> m.sequence]
Held == [i \in 1 .. count |-> Item(backing[SlotOf(i - 1)], meta[SlotOf(i - 1)])]
Received == IF buffer.meta.sequence = -1 THEN <<>>
            ELSE <<Item(buffer.data, buffer.meta)>>
Queue == INSTANCE AuQueue WITH queue <- Held, got <- Received
ImplementsQueue ==
  Queue!QueueInit
    /\ [][\/ \E au \in Units : Queue!Push(au)
          \/ Queue!Pop
          \/ Queue!Discard]_<<Queue!queueVars>>
=============================================================================
