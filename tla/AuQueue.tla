------------------------------ MODULE AuQueue ------------------------------
(***************************************************************************)
(* What the access unit ring promises (src/include/media/au_ring.h): a     *)
(* first in first out queue of at most Slots access units in which a new   *)
(* one, when the queue is full, takes the place of the oldest: "live video *)
(* always prefers freshness over completeness".                            *)
(***************************************************************************)
EXTENDS Integers, Sequences

CONSTANT
  Slots  \* slot_count

ASSUME SlotsAssumption == Slots \in Nat \ {0}

VARIABLES
  queue,     \* the units held, oldest first
  sequence,  \* number of units pushed: the next unit's number
  dropped,   \* number of units overwritten
  got        \* what the reader received last: <<>> at first, then <<unit>>

queueVars == <<queue, sequence, dropped, got>>

QueueInit ==
  /\ queue = <<>>
  /\ sequence = 0
  /\ dropped = 0
  /\ got = <<>>

\* au_ring_push of `au'.
Push(au) ==
  LET full == Len(queue) = Slots IN
  /\ queue' = Append(IF full THEN Tail(queue) ELSE queue,
                     [unit |-> au, sequence |-> sequence])
  /\ dropped' = IF full THEN dropped + 1 ELSE dropped
  /\ sequence' = sequence + 1
  /\ UNCHANGED got

\* au_ring_pop: the oldest unit leaves the queue and reaches the reader ...
Pop ==
  /\ queue # <<>>
  /\ got' = <<Head(queue)>>
  /\ queue' = Tail(queue)
  /\ UNCHANGED <<sequence, dropped>>

\* ... unless it is larger than the reader's buffer: then it is lost.
Discard ==
  /\ queue # <<>>
  /\ queue' = Tail(queue)
  /\ UNCHANGED <<sequence, dropped, got>>
=============================================================================
