------------------------------ MODULE FrameHub ------------------------------
(***************************************************************************)
(* The frame hub (src/src/media/frame_hub.c) on its reference counted      *)
(* frame pool (src/src/media/frame_pool.c): one source worker thread       *)
(* publishes, each consumer thread owns a one frame mailbox (`slot').      *)
(*                                                                         *)
(* Grain of atomicity.  A critical section that takes no second lock and   *)
(* touches only what its lock guards is one step, enabled when the lock is *)
(* free.  Nested sections hold their locks across steps.  The field        *)
(* `refcount' is read and written in two steps wherever the code says ++   *)
(* or --, because frame_ref does so without the pool lock.                 *)
(*                                                                         *)
(* The hub's linked list is a set: publish visits it under the hub lock in *)
(* some order, and no property depends on which.                           *)
(***************************************************************************)
EXTENDS Integers, Sequences, FiniteSets

CONSTANTS
  Consumers,   \* consumer threads, each with its FrameHubConsumer
  Publisher,   \* the source worker thread
  None,        \* "no thread", "no consumer"
  PoolCount,   \* pool_count of frame_hub_create
  MaxSequence  \* bound: frames the source captures

ASSUME ThreadsAssumption ==
  /\ Publisher \notin Consumers
  /\ None \notin Consumers \cup {Publisher}
ASSUME PoolAssumption == PoolCount \in Nat \ {0}
ASSUME BoundAssumption == MaxSequence \in Nat

Threads == Consumers \cup {Publisher}
Frames  == 0 .. PoolCount - 1
NoFrame == -1

VARIABLES
  freeList,      \* frame_pool.free_list[0 .. free_count - 1], a stack
  refcount,      \* Frame.refcount
  poolIndex,     \* Frame.pool_index: the frame itself, -1 once released
  content,       \* Frame.sequence, standing for everything copied into data
  poolLock,      \* holder of frame_pool.lock
  hubLock,       \* holder of frame_hub.lock
  consumerLock,  \* holder of FrameHubConsumer.lock
  list,          \* the hub's consumer list
  active,        \* FrameHubConsumer.active
  slot,          \* FrameHubConsumer.slot
  sequence,      \* sequence of source_worker_thread
  pc,            \* where each thread stands
  frame,         \* each thread's `frame' pointer
  arg,           \* the frame a frame_unref in progress releases
  ret,           \* where that frame_unref returns to
  reg,           \* the refcount it, or frame_ref, has read
  target,        \* the consumer publish is delivering to
  todo,          \* the consumers publish has yet to visit
  got            \* history: sequence of the last frame each consumer took

poolVars  == <<freeList, refcount, poolIndex, content>>
lockVars  == <<poolLock, hubLock, consumerLock>>
boxVars   == <<list, active, slot>>
callVars  == <<arg, ret, reg>>
visitVars == <<target, todo>>
vars == <<poolVars, lockVars, boxVars, callVars, visitVars,
          sequence, pc, frame, got>>

Goto(t, label) == pc' = [pc EXCEPT ![t] = label]

Init ==
  /\ freeList = [i \in 1 .. PoolCount |-> i - 1]
  /\ refcount = [f \in Frames |-> 0]
  /\ poolIndex = [f \in Frames |-> f]
  /\ content = [f \in Frames |-> 0]
  /\ poolLock = None
  /\ hubLock = None
  /\ consumerLock = [c \in Consumers |-> None]
  /\ list = {}
  /\ active = [c \in Consumers |-> FALSE]
  /\ slot = [c \in Consumers |-> NoFrame]
  /\ sequence = 0
  /\ pc = [t \in Threads |-> IF t = Publisher THEN "idle" ELSE "out"]
  /\ frame = [t \in Threads |-> NoFrame]
  /\ arg = [t \in Threads |-> NoFrame]
  /\ ret = [t \in Threads |-> "idle"]
  /\ reg = [t \in Threads |-> 0]
  /\ target = None
  /\ todo = {}
  /\ got = [c \in Consumers |-> -1]

-----------------------------------------------------------------------------
(* frame_unref, called by every thread.                                    *)

\* Enter frame_unref(f); the thread goes on at `label' when it returns.
CallUnref(t, f, label) ==
  /\ arg' = [arg EXCEPT ![t] = f]
  /\ ret' = [ret EXCEPT ![t] = label]
  /\ Goto(t, "unref")

\* Take the pool lock and read refcount.
UnrefRead(t) ==
  /\ pc[t] = "unref"
  /\ poolLock = None
  /\ poolLock' = t
  /\ reg' = [reg EXCEPT ![t] = refcount[arg[t]]]
  /\ Goto(t, "unrefWrite")
  /\ UNCHANGED <<poolVars, hubLock, consumerLock, boxVars, arg, ret,
                 visitVars, sequence, frame, got>>

\* A variant with a bug: the frame goes back one reference too early.
FreesEarly(t) == reg[t] = 2 /\ poolIndex[arg[t]] # NoFrame

\* Does releasing arg[t] put it back on the free list?
Frees(t) == reg[t] = 1 /\ poolIndex[arg[t]] # NoFrame

\* The free list after it.
Recycled(t) == IF Frees(t) /\ Len(freeList) < PoolCount
               THEN Append(freeList, poolIndex[arg[t]]) ELSE freeList

\* Write refcount, recycle the frame when it drops to zero, unlock, return.
\* A refcount that is already zero is reported and left alone.  The caller
\* forgets the pointer it released: its own one, or, when it is closing its
\* mailbox, the slot.
UnrefWrite(t) ==
  LET f == arg[t] IN
  /\ pc[t] = "unrefWrite"
  /\ poolLock' = None
  /\ refcount' = IF reg[t] <= 0 THEN refcount
                 ELSE [refcount EXCEPT ![f] = reg[t] - 1]
  /\ freeList' = Recycled(t)
  /\ poolIndex' = IF Frees(t) THEN [poolIndex EXCEPT ![f] = NoFrame]
                  ELSE poolIndex
  /\ arg' = [arg EXCEPT ![t] = NoFrame]
  /\ Goto(t, ret[t])
  /\ frame' = IF ret[t] = "idle" THEN [frame EXCEPT ![t] = NoFrame] ELSE frame
  /\ slot' = IF ret[t] = "gone" THEN [slot EXCEPT ![t] = NoFrame] ELSE slot
  /\ sequence' = IF t = Publisher /\ ret[t] = "idle" THEN sequence + 1
                 ELSE sequence
  /\ UNCHANGED <<content, hubLock, consumerLock, list, active, ret, reg,
                 visitVars, got>>

-----------------------------------------------------------------------------
(* The source worker: frame_hub_publish for each captured frame.           *)

\* frame_pool_acquire finds the pool empty: this frame is dropped.
PublishExhausted ==
  /\ pc[Publisher] = "idle"
  /\ sequence < MaxSequence
  /\ poolLock = None
  /\ freeList = <<>>
  /\ sequence' = sequence + 1
  /\ UNCHANGED <<poolVars, lockVars, boxVars, callVars, visitVars, pc, frame,
                 got>>

\* frame_pool_acquire pops an index under the pool lock.
Acquire ==
  /\ pc[Publisher] = "idle"
  /\ sequence < MaxSequence
  /\ poolLock = None
  /\ freeList # <<>>
  /\ frame' = [frame EXCEPT ![Publisher] = freeList[Len(freeList)]]
  /\ freeList' = SubSeq(freeList, 1, Len(freeList) - 1)
  /\ Goto(Publisher, "fill")
  /\ UNCHANGED <<refcount, poolIndex, content, lockVars, boxVars, callVars,
                 visitVars, sequence, got>>

\* After the pool lock is released: reset the frame, copy the image into it.
Fill ==
  LET f == frame[Publisher] IN
  /\ pc[Publisher] = "fill"
  /\ refcount' = [refcount EXCEPT ![f] = 1]
  /\ poolIndex' = [poolIndex EXCEPT ![f] = f]
  /\ content' = [content EXCEPT ![f] = sequence]
  /\ Goto(Publisher, "hubLock")
  /\ UNCHANGED <<freeList, lockVars, boxVars, callVars, visitVars, sequence,
                 frame, got>>

\* Lock the hub and start the loop over its consumers.
PublishLock ==
  /\ pc[Publisher] = "hubLock"
  /\ hubLock = None
  /\ hubLock' = Publisher
  /\ todo' = list
  /\ Goto(Publisher, "deliver")
  /\ UNCHANGED <<poolVars, poolLock, consumerLock, boxVars, callVars, target,
                 sequence, frame, got>>

\* Lock the next consumer; one that is not active is unlocked and skipped.
Visit(c) ==
  /\ pc[Publisher] = "deliver"
  /\ c \in todo
  /\ consumerLock[c] = None
  /\ todo' = todo \ {c}
  /\ target' = c
  /\ IF active[c]
     THEN /\ consumerLock' = [consumerLock EXCEPT ![c] = Publisher]
          /\ Goto(Publisher, "ref")
     ELSE UNCHANGED <<consumerLock, pc>>
  /\ UNCHANGED <<poolVars, poolLock, hubLock, boxVars, callVars, sequence,
                 frame, got>>

\* frame_ref: refcount++ without the pool lock, as a read ...
RefRead ==
  /\ pc[Publisher] = "ref"
  /\ reg' = [reg EXCEPT ![Publisher] = refcount[frame[Publisher]]]
  /\ Goto(Publisher, "refWrite")
  /\ UNCHANGED <<poolVars, lockVars, boxVars, arg, ret, visitVars, sequence,
                 frame, got>>

\* A variant with a bug: the frame that is replaced is not released.
RefWriteKeepsOld ==
  /\ pc[Publisher] = "refWrite"
  /\ refcount' = [refcount EXCEPT ![frame[Publisher]] = reg[Publisher] + 1]
  /\ Goto(Publisher, "install")
  /\ UNCHANGED <<freeList, poolIndex, content, lockVars, boxVars, callVars,
                 visitVars, sequence, frame, got>>

\* ... and a write; then a frame still in the mailbox is dropped first.
RefWrite ==
  /\ pc[Publisher] = "refWrite"
  /\ refcount' = [refcount EXCEPT ![frame[Publisher]] = reg[Publisher] + 1]
  /\ IF slot[target] # NoFrame
     THEN CallUnref(Publisher, slot[target], "install")
     ELSE Goto(Publisher, "install") /\ UNCHANGED <<arg, ret>>
  /\ UNCHANGED <<freeList, poolIndex, content, lockVars, boxVars, reg,
                 visitVars, sequence, frame, got>>

\* A variant with a bug: an occupied mailbox keeps what it has.
InstallIfEmpty ==
  /\ pc[Publisher] = "install"
  /\ slot' = IF slot[target] = NoFrame
             THEN [slot EXCEPT ![target] = frame[Publisher]] ELSE slot
  /\ consumerLock' = [consumerLock EXCEPT ![target] = None]
  /\ Goto(Publisher, "deliver")
  /\ UNCHANGED <<poolVars, poolLock, hubLock, list, active, callVars,
                 visitVars, sequence, frame, got>>

\* The new frame is the mailbox's; unlock the consumer.
Install ==
  /\ pc[Publisher] = "install"
  /\ slot' = [slot EXCEPT ![target] = frame[Publisher]]
  /\ consumerLock' = [consumerLock EXCEPT ![target] = None]
  /\ Goto(Publisher, "deliver")
  /\ UNCHANGED <<poolVars, poolLock, hubLock, list, active, callVars,
                 visitVars, sequence, frame, got>>

\* The loop is over: unlock the hub, then drop the publisher's reference.
PublishUnlock ==
  /\ pc[Publisher] = "deliver"
  /\ todo = {}
  /\ hubLock' = None
  /\ target' = None
  /\ CallUnref(Publisher, frame[Publisher], "idle")
  /\ UNCHANGED <<poolVars, poolLock, consumerLock, boxVars, reg, todo,
                 sequence, frame, got>>

-----------------------------------------------------------------------------
(* A consumer thread: the encode worker, or the vision worker.             *)

\* A variant with a bug: the hub stays locked.
SubscribeKeepsLock(c) ==
  /\ pc[c] = "out"
  /\ hubLock = None
  /\ hubLock' = c
  /\ list' = list \cup {c}
  /\ active' = [active EXCEPT ![c] = TRUE]
  /\ Goto(c, "idle")
  /\ UNCHANGED <<poolVars, poolLock, consumerLock, slot, callVars, visitVars,
                 sequence, frame, got>>

\* frame_hub_subscribe.
Subscribe(c) ==
  /\ pc[c] = "out"
  /\ hubLock = None
  /\ list' = list \cup {c}
  /\ active' = [active EXCEPT ![c] = TRUE]
  /\ Goto(c, "idle")
  /\ UNCHANGED <<poolVars, lockVars, slot, callVars, visitVars, sequence,
                 frame, got>>

\* A variant with a bug: the mailbox still points to the frame taken.
TakeKeepsSlot(c) ==
  /\ pc[c] = "idle"
  /\ consumerLock[c] = None
  /\ slot[c] # NoFrame
  /\ frame' = [frame EXCEPT ![c] = slot[c]]
  /\ got' = [got EXCEPT ![c] = content[slot[c]]]
  /\ Goto(c, "using")
  /\ UNCHANGED <<poolVars, lockVars, boxVars, callVars, visitVars, sequence>>

\* frame_hub_take: empty the mailbox, keep polling when it was empty.
Take(c) ==
  /\ pc[c] = "idle"
  /\ consumerLock[c] = None
  /\ frame' = [frame EXCEPT ![c] = slot[c]]
  /\ slot' = [slot EXCEPT ![c] = NoFrame]
  /\ IF slot[c] # NoFrame
     THEN /\ Goto(c, "using")
          /\ got' = [got EXCEPT ![c] = content[slot[c]]]
     ELSE UNCHANGED <<pc, got>>
  /\ UNCHANGED <<poolVars, lockVars, list, active, callVars, visitVars,
                 sequence>>

\* The consumer has read the image and hands the frame back.
Release(c) ==
  /\ pc[c] = "using"
  /\ CallUnref(c, frame[c], "idle")
  /\ UNCHANGED <<poolVars, lockVars, boxVars, reg, visitVars, sequence, frame,
                 got>>

\* A variant with a bug: the hub is not locked.
UnsubscribeUnlocked(c) ==
  /\ pc[c] = "idle"
  /\ Goto(c, "unlink")
  /\ UNCHANGED <<poolVars, lockVars, boxVars, callVars, visitVars, sequence,
                 frame, got>>

\* frame_hub_unsubscribe: the hub lock first ...
UnsubscribeLock(c) ==
  /\ pc[c] = "idle"
  /\ hubLock = None
  /\ hubLock' = c
  /\ Goto(c, "unlink")
  /\ UNCHANGED <<poolVars, poolLock, consumerLock, boxVars, callVars,
                 visitVars, sequence, frame, got>>

\* ... then the consumer's; unlink, unlock both, and only then drop the
\* mailboxed frame and free the consumer.
Unlink(c) ==
  /\ pc[c] = "unlink"
  /\ consumerLock[c] = None
  /\ hubLock' = None
  /\ list' = list \ {c}
  /\ active' = [active EXCEPT ![c] = FALSE]
  /\ IF slot[c] # NoFrame
     THEN CallUnref(c, slot[c], "gone")
     ELSE Goto(c, "gone") /\ UNCHANGED <<arg, ret>>
  /\ UNCHANGED <<poolVars, poolLock, consumerLock, slot, reg, visitVars,
                 sequence, frame, got>>

-----------------------------------------------------------------------------

Publish ==
  \/ PublishExhausted \/ Acquire \/ Fill \/ PublishLock
  \/ \E c \in Consumers : Visit(c)
  \/ RefRead \/ RefWrite \/ Install \/ PublishUnlock

Consume(c) ==
  \/ Subscribe(c) \/ Take(c) \/ Release(c) \/ UnsubscribeLock(c) \/ Unlink(c)

\* The bound is reached and every consumer has left: the program is over.
Done ==
  /\ pc[Publisher] = "idle" /\ sequence = MaxSequence
  /\ \A c \in Consumers : pc[c] = "gone"
  /\ UNCHANGED vars

Next ==
  \/ Publish
  \/ \E c \in Consumers : Consume(c)
  \/ \E t \in Threads : UnrefRead(t) \/ UnrefWrite(t)
  \/ Done

Spec == Init /\ [][Next]_vars

\* The source thread runs, and a thread inside a critical section or inside
\* unsubscribe gets out of it.  Nothing obliges a consumer to take a frame,
\* to finish with one, or to stop polling.
Fairness ==
  /\ WF_vars(Publish)
  /\ \A t \in Threads : WF_vars(UnrefRead(t) \/ UnrefWrite(t))
  /\ \A c \in Consumers : WF_vars(Unlink(c))

FairSpec == Spec /\ Fairness
-----------------------------------------------------------------------------
(* Properties.                                                             *)

PublisherLabels == {"idle", "fill", "hubLock", "deliver", "ref", "refWrite",
                    "install", "unref", "unrefWrite"}
ConsumerLabels  == {"out", "idle", "using", "unlink", "gone", "unref",
                    "unrefWrite"}

\* Type invariant; lock owners are the threads whose code can own them.
TypeOK ==
  /\ freeList \in Seq(Frames) /\ Len(freeList) <= PoolCount
  /\ refcount \in [Frames -> Int]
  /\ poolIndex \in [Frames -> Frames \cup {NoFrame}]
  /\ content \in [Frames -> Nat]
  /\ poolLock \in Threads \cup {None}
  /\ hubLock \in Threads \cup {None}
  /\ consumerLock \in [Consumers -> {Publisher, None}]
  /\ list \subseteq Consumers
  /\ active \in [Consumers -> BOOLEAN]
  /\ slot \in [Consumers -> Frames \cup {NoFrame}]
  /\ sequence \in Nat
  /\ pc \in [Threads -> PublisherLabels \cup ConsumerLabels]
  /\ pc[Publisher] \in PublisherLabels
  /\ \A c \in Consumers : pc[c] \in ConsumerLabels
  /\ frame \in [Threads -> Frames \cup {NoFrame}]
  /\ arg \in [Threads -> Frames \cup {NoFrame}]
  /\ ret \in [Threads -> {"idle", "install", "gone"}]
  /\ ret[Publisher] # "gone" /\ \A c \in Consumers : ret[c] # "install"
  /\ reg \in [Threads -> Int]
  /\ target \in Consumers \cup {None}
  /\ todo \subseteq Consumers
  /\ got \in [Consumers -> Int]

Unreffing(t) == pc[t] \in {"unref", "unrefWrite"}

\* The publisher is between frame_ref and c->slot = frame.
Installing ==
  \/ pc[Publisher] = "install"
  \/ Unreffing(Publisher) /\ ret[Publisher] = "install"
\* It holds the lock of the consumer `target' ...
Visiting   == pc[Publisher] \in {"ref", "refWrite"} \/ Installing
\* ... and the hub's.
Delivering == pc[Publisher] = "deliver" \/ Visiting

\* c has unlinked itself and is dropping the frame its mailbox held.
Leaving(c) == Unreffing(c) /\ ret[c] = "gone"

\* Every consumer publish has yet to visit, and the one it is delivering to,
\* is on the list: unsubscribe cannot free a consumer under the loop.
NoFreedConsumer ==
  /\ Delivering => todo \subseteq list
  /\ Visiting => target \in list

\* Each lock is held by the thread that is inside its critical section.
LockOwners ==
  /\ \A t \in Threads : poolLock = t <=> pc[t] = "unrefWrite"
  /\ \A c \in Consumers : hubLock = c <=> pc[c] = "unlink"
  /\ hubLock = Publisher <=> Delivering
  /\ \A c \in Consumers :
       consumerLock[c] = Publisher <=> Visiting /\ target = c

\* A consumer is on the list from subscribe to unsubscribe, is active for
\* just as long, and has a mailboxed frame no longer than its unlinking.
Membership ==
  \A c \in Consumers :
    /\ c \in list <=> pc[c] \notin {"out", "gone"} /\ ~Leaving(c)
    /\ active[c] <=> c \in list
    /\ slot[c] # NoFrame => c \in list \/ Leaving(c)

\* What each thread has in its hands at each point of its code.
Pointers ==
  /\ pc[Publisher] = "idle" <=> frame[Publisher] = NoFrame
  /\ Unreffing(Publisher) =>
       arg[Publisher] = IF ret[Publisher] = "idle" THEN frame[Publisher]
                        ELSE slot[target]
  /\ \A c \in Consumers :
       /\ frame[c] # NoFrame
            <=> pc[c] = "using" \/ (Unreffing(c) /\ ret[c] = "idle")
       /\ Unreffing(c) => arg[c] = IF ret[c] = "idle" THEN frame[c]
                                   ELSE slot[c]
  /\ \A t \in Threads : Unreffing(t) => arg[t] \in Frames

\* The control part of the inductive invariant: it holds of any consumers.
Control == LockOwners /\ Membership /\ Pointers /\ NoFreedConsumer

\* Thread t stands where its next step takes a lock, and u holds that lock.
Awaits(t, u) ==
  \/ /\ hubLock = u
     /\ pc[t] \in {"out", "hubLock"} \/ (t # Publisher /\ pc[t] = "idle")
  \/ /\ poolLock = u
     /\ pc[t] = "unref" \/ (t = Publisher /\ pc[t] = "idle")
  \/ pc[t] = "deliver" /\ \E c \in todo : consumerLock[c] = u
  \/ t # Publisher /\ pc[t] \in {"idle", "unlink"} /\ consumerLock[t] = u

\* The innermost lock a thread holds: the hub's is outside a consumer's, which
\* is outside the pool's.
Depth(t) == IF poolLock = t THEN 3
            ELSE IF \E c \in Consumers : consumerLock[c] = t THEN 2
            ELSE IF hubLock = t THEN 1 ELSE 0

\* Who waits for a lock waits for a thread further in: no thread waits for
\* itself, and no threads wait for each other in a circle.
LocksNest ==
  \A t, u \in Threads : Awaits(t, u) => Depth(t) < Depth(u)

\* References the publisher has on f: none before it resets the frame, one
\* of its own, and one it has made for the mailbox it is about to fill.
PublisherRefs(f) ==
  IF frame[Publisher] # f \/ pc[Publisher] = "fill" THEN 0
  ELSE IF Installing THEN 2 ELSE 1

\* The mailbox of c counts until what it holds has been released.
InMailbox(c, f) ==
  slot[c] = f /\ ~(pc[Publisher] = "install" /\ target = c)

References(f) ==
  PublisherRefs(f)
    + Cardinality({c \in Consumers : InMailbox(c, f)})
    + Cardinality({c \in Consumers : frame[c] = f})

\* refcount is the number of references: no update of it is ever lost.
RefcountExact == \A f \in Frames : refcount[f] = References(f)

Referenced(f) ==
  \/ \E t \in Threads : frame[t] = f
  \/ \E c \in Consumers : InMailbox(c, f)

\* A buffer is on the free list exactly when nobody points to it, and at most
\* once: released neither early (reuse under a reader) nor never (a leak).
FreeExactly ==
  /\ \A f \in Frames :
       (\E i \in DOMAIN freeList : freeList[i] = f) <=> ~Referenced(f)
  /\ \A i, j \in DOMAIN freeList : freeList[i] = freeList[j] => i = j

\* While a consumer reads a frame the source never writes another into it.
ContentStable ==
  \A c \in Consumers : frame[c] # NoFrame => content[frame[c]] = got[c]

\* frame_unref never sees a count of zero nor a full free list, so that
\* neither of the errors it reports occurs.
NoDoubleUnref ==
  \A t \in Threads : pc[t] = "unrefWrite" =>
    /\ reg[t] > 0
    /\ Frees(t) => Len(freeList) < PoolCount

\* The frame being published is not yet in any mailbox.
Undelivered ==
  \/ pc[Publisher] \in {"fill", "hubLock"} \/ Visiting
  \/ pc[Publisher] = "deliver" /\ todo # {}

\* What nobody else may have: the frame being published, before it is
\* delivered, and the frame a consumer has taken, once out of its mailbox.
\* (The last conjunct: a single consumer is also the last to be visited.)
Private ==
  /\ Undelivered => \A c \in Consumers : /\ frame[c] # frame[Publisher]
                                         /\ slot[c] # frame[Publisher]
  /\ \A c \in Consumers : frame[c] # NoFrame => slot[c] # frame[c]
  /\ Visiting => todo = {}

\* A count that was read is still the count when it is written back.
CountCurrent ==
  /\ \A t \in Threads : pc[t] = "unrefWrite" => reg[t] = refcount[arg[t]]
  /\ pc[Publisher] = "refWrite" => reg[Publisher] = refcount[frame[Publisher]]

\* A frame in use knows its place in the pool.
IndexKnown ==
  \A f \in Frames :
    Referenced(f) /\ ~(pc[Publisher] = "fill" /\ frame[Publisher] = f)
      => poolIndex[f] = f

\* The data part of the inductive invariant, for a single consumer.
Ownership ==
  RefcountExact /\ FreeExactly /\ ContentStable /\ Private /\ CountCurrent
    /\ IndexKnown

\* Capture finds the pool empty, and drops a frame, only while the consumers
\* have every buffer: one in use and one waiting each, at most.
DropsOnlyWhenHeld ==
  pc[Publisher] = "idle" /\ freeList = <<>> =>
    PoolCount <= Cardinality({c \in Consumers : slot[c] # NoFrame})
                   + Cardinality({c \in Consumers : frame[c] # NoFrame})

\* Between two publishes a subscriber's mailbox holds nothing, or the newest
\* picture there is in any buffer.
Freshest ==
  \A c \in Consumers :
    pc[Publisher] = "idle" /\ active[c] /\ slot[c] # NoFrame
      => \A f \in Frames : content[f] <= content[slot[c]]

\* A slow consumer never stalls the producer: every publish returns, though
\* no consumer is obliged to do anything with its frame.
PublishReturns == pc[Publisher] # "idle" ~> pc[Publisher] = "idle"

\* Each mailbox behaves as the one frame keep-newest register of KeepNewest.
Mailboxes == INSTANCE KeepNewest WITH
  box <- [c \in Consumers |-> IF slot[c] = NoFrame THEN -1
                              ELSE content[slot[c]]]
KeepsNewest == Mailboxes!Spec
=============================================================================
