--------------------------- MODULE FrameHubProofs ---------------------------
(***************************************************************************)
(* Theorems about FrameHub, for every pool size and every bound.           *)
(*                                                                         *)
(* Type correctness and the lock discipline hold for any set of consumers. *)
(* That reference counts are exact, so that a buffer is neither reused     *)
(* under a reader nor lost, is proved of a hub with a single consumer,     *)
(* which is how the program uses it: with two it is false.                 *)
(***************************************************************************)
EXTENDS FrameHub, FiniteSetTheorems, SequenceTheorems, TLAPS

\* The threads are told apart, and "none" is not one of them.
LEMMA ThreadFacts ==
  /\ Publisher \in Threads /\ Consumers \subseteq Threads
  /\ \A c \in Consumers : c # Publisher /\ c # None
  /\ Publisher # None /\ \A t \in Threads : t # None
  /\ NoFrame \notin Frames /\ NoFrame \in Int
  /\ PoolCount \in Nat \ {0}
BY ThreadsAssumption, PoolAssumption DEF Threads, Frames, NoFrame

\* Popping the free list yields a frame and leaves a list of frames.
LEMMA PopFacts ==
  ASSUME NEW s \in Seq(Frames), s # <<>>, Len(s) <= PoolCount
  PROVE  /\ s[Len(s)] \in Frames
         /\ SubSeq(s, 1, Len(s) - 1) \in Seq(Frames)
         /\ Len(SubSeq(s, 1, Len(s) - 1)) = Len(s) - 1
         /\ \A i \in 1 .. Len(s) - 1 : SubSeq(s, 1, Len(s) - 1)[i] = s[i]
         /\ Len(s) \in Nat \ {0}
         /\ Len(SubSeq(s, 1, Len(s) - 1)) <= PoolCount
<1>1. Len(s) \in Nat \ {0} /\ \A i \in 1 .. Len(s) : s[i] \in Frames
  OBVIOUS
<1> DEFINE r == SubSeq(s, 1, Len(s) - 1)
<1>2. \A i \in 1 .. Len(s) - 1 : s[i] \in Frames
  BY <1>1
<1>3. /\ r \in Seq(Frames)
      /\ Len(r) = IF 1 <= Len(s) - 1 THEN Len(s) - 1 - 1 + 1 ELSE 0
      /\ \A i \in 1 .. Len(s) - 1 - 1 + 1 : r[i] = s[1 + i - 1]
  BY <1>1, <1>2, SubSeqProperties
<1> HIDE DEF r
<1>4. Len(r) = Len(s) - 1
  <2>1. Len(r) = IF 1 <= Len(s) - 1 THEN Len(s) - 1 - 1 + 1 ELSE 0
    BY <1>3
  <2>2. \A n \in Nat \ {0} : (IF 1 <= n - 1 THEN n - 1 - 1 + 1 ELSE 0) = n - 1
    OBVIOUS
  <2> QED BY ONLY <1>1, <2>1, <2>2
<1>5. \A i \in 1 .. Len(s) - 1 : r[i] = s[i]
  BY <1>1, <1>3
<1>6. Len(r) <= PoolCount
  BY <1>1, <1>4, PoolAssumption
<1> QED
  BY <1>1, <1>3, <1>4, <1>5, <1>6 DEF r

\* Init establishes the type invariant.
LEMMA TypeInit == Init => TypeOK
<1> SUFFICES ASSUME Init PROVE TypeOK
  OBVIOUS
<1>1. freeList \in Seq(Frames) /\ Len(freeList) <= PoolCount
  BY PoolAssumption DEF Init, Frames
<1>2. poolLock \in Threads \cup {None} /\ hubLock \in Threads \cup {None}
  BY DEF Init
<1>3. pc[Publisher] \in PublisherLabels
      /\ \A c \in Consumers : pc[c] \in ConsumerLabels
  BY ThreadFacts DEF Init, PublisherLabels, ConsumerLabels
<1>4. pc \in [Threads -> PublisherLabels \cup ConsumerLabels]
  BY DEF Init, PublisherLabels, ConsumerLabels
<1>5. /\ refcount \in [Frames -> Int] /\ content \in [Frames -> Nat]
      /\ poolIndex \in [Frames -> Frames \cup {NoFrame}]
      /\ got \in [Consumers -> Int] /\ reg \in [Threads -> Int]
  BY DEF Init
<1>6. /\ consumerLock \in [Consumers -> {Publisher, None}]
      /\ list \subseteq Consumers /\ active \in [Consumers -> BOOLEAN]
      /\ slot \in [Consumers -> Frames \cup {NoFrame}]
      /\ sequence \in Nat
      /\ target \in Consumers \cup {None} /\ todo \subseteq Consumers
  BY DEF Init
<1>7. /\ frame \in [Threads -> Frames \cup {NoFrame}]
      /\ arg \in [Threads -> Frames \cup {NoFrame}]
      /\ ret \in [Threads -> {"idle", "install", "gone"}]
      /\ ret[Publisher] # "gone" /\ \A c \in Consumers : ret[c] # "install"
  BY ThreadFacts DEF Init
<1> QED
  BY <1>1, <1>2, <1>3, <1>4, <1>5, <1>6, <1>7 DEF TypeOK

\* Every step preserves it, given where the frame_unref in progress points.
LEMMA TypeStep == TypeOK /\ Control /\ [Next]_vars => TypeOK'
<1> SUFFICES ASSUME TypeOK, Control, [Next]_vars PROVE TypeOK'
  OBVIOUS
<1> USE ThreadFacts DEF TypeOK, poolVars, lockVars, boxVars, callVars,
        visitVars, Goto, CallUnref
<1>p. pc[Publisher] # "idle" => frame[Publisher] \in Frames
  BY DEF Control, Pointers
<1>q. pc[Publisher] \in {"ref", "refWrite"} => target \in Consumers
  BY DEF Control, NoFreedConsumer, Visiting
<1>1. CASE PublishExhausted
  BY <1>1 DEF PublishExhausted
<1>2. CASE Acquire
  <2>1. freeList' \in Seq(Frames) /\ Len(freeList') <= PoolCount
        /\ frame' \in [Threads -> Frames \cup {NoFrame}]
    BY <1>2, PopFacts DEF Acquire
  <2>2. pc'[Publisher] \in PublisherLabels
        /\ (\A c \in Consumers : pc'[c] \in ConsumerLabels)
        /\ pc' \in [Threads -> PublisherLabels \cup ConsumerLabels]
    BY <1>2 DEF Acquire, PublisherLabels, ConsumerLabels
  <2> QED BY <1>2, <2>1, <2>2 DEF Acquire
<1>3. CASE Fill
  BY <1>3, <1>p DEF Fill, PublisherLabels, ConsumerLabels
<1>4. CASE PublishLock
  BY <1>4 DEF PublishLock, PublisherLabels, ConsumerLabels
<1>5. ASSUME NEW c \in Consumers, Visit(c) PROVE TypeOK'
  BY <1>5 DEF Visit, PublisherLabels, ConsumerLabels
<1>6. CASE RefRead
  BY <1>6, <1>p DEF RefRead, PublisherLabels, ConsumerLabels
<1>7. CASE RefWrite
  <2>1. target \in Consumers /\ slot[target] \in Frames \cup {NoFrame}
    BY <1>7, <1>q DEF RefWrite
  <2>2. refcount' \in [Frames -> Int]
    BY <1>7, <1>p DEF RefWrite
  <2>3. /\ arg' \in [Threads -> Frames \cup {NoFrame}]
        /\ ret' \in [Threads -> {"idle", "install", "gone"}]
        /\ ret'[Publisher] # "gone" /\ \A c \in Consumers : ret'[c] # "install"
    <3>1. CASE slot[target] = NoFrame
      BY <1>7, <3>1 DEF RefWrite
    <3>2. CASE slot[target] # NoFrame
      <4>1. /\ arg' = [arg EXCEPT ![Publisher] = slot[target]]
            /\ ret' = [ret EXCEPT ![Publisher] = "install"]
            /\ slot[target] \in Frames
        BY <1>7, <2>1, <3>2 DEF RefWrite
      <4> QED BY <4>1
    <3> QED BY <3>1, <3>2
  <2> QED BY <1>7, <2>2, <2>3 DEF RefWrite, PublisherLabels, ConsumerLabels
<1>8. CASE Install
  BY <1>8 DEF Install, PublisherLabels, ConsumerLabels
<1>9. CASE PublishUnlock
  BY <1>9 DEF PublishUnlock, PublisherLabels, ConsumerLabels
<1>10. ASSUME NEW c \in Consumers, Subscribe(c) PROVE TypeOK'
  BY <1>10 DEF Subscribe, PublisherLabels, ConsumerLabels
<1>11. ASSUME NEW c \in Consumers, Take(c) PROVE TypeOK'
  <2>1. slot[c] # NoFrame => content[slot[c]] \in Int
    OBVIOUS
  <2>2. got' \in [Consumers -> Int]
    BY <1>11, <2>1 DEF Take
  <2> QED BY <1>11, <2>2 DEF Take, PublisherLabels, ConsumerLabels
<1>12. ASSUME NEW c \in Consumers, Release(c) PROVE TypeOK'
  BY <1>12 DEF Release, PublisherLabels, ConsumerLabels
<1>13. ASSUME NEW c \in Consumers, UnsubscribeLock(c) PROVE TypeOK'
  BY <1>13 DEF UnsubscribeLock, PublisherLabels, ConsumerLabels
<1>14. ASSUME NEW c \in Consumers, Unlink(c) PROVE TypeOK'
  <2>1. /\ arg' \in [Threads -> Frames \cup {NoFrame}]
        /\ ret' \in [Threads -> {"idle", "install", "gone"}]
        /\ ret'[Publisher] # "gone" /\ \A e \in Consumers : ret'[e] # "install"
    <3>1. CASE slot[c] = NoFrame
      BY <1>14, <3>1 DEF Unlink
    <3>2. CASE slot[c] # NoFrame
      <4>1. /\ arg' = [arg EXCEPT ![c] = slot[c]]
            /\ ret' = [ret EXCEPT ![c] = "gone"]
            /\ slot[c] \in Frames
        BY <1>14, <3>2 DEF Unlink
      <4> QED BY <4>1
    <3> QED BY <3>1, <3>2
  <2>2. /\ pc' \in [Threads -> PublisherLabels \cup ConsumerLabels]
        /\ pc'[Publisher] \in PublisherLabels
        /\ \A e \in Consumers : pc'[e] \in ConsumerLabels
    BY <1>14 DEF Unlink, PublisherLabels, ConsumerLabels
  <2> QED BY <1>14, <2>1, <2>2 DEF Unlink
<1>15. ASSUME NEW t \in Threads, UnrefRead(t) PROVE TypeOK'
  <2>1. refcount[arg[t]] \in Int
    BY <1>15 DEF UnrefRead, Control, Pointers, Unreffing
  <2> QED BY <1>15, <2>1 DEF UnrefRead, PublisherLabels, ConsumerLabels
<1>16. ASSUME NEW t \in Threads, UnrefWrite(t) PROVE TypeOK'
  <2>1. arg[t] \in Frames /\ reg[t] \in Int
    BY <1>16 DEF UnrefWrite, Control, Pointers, Unreffing
  <2>2. Frees(t) => poolIndex[arg[t]] \in Frames
    BY <2>1 DEF Frees
  <2>3. freeList' \in Seq(Frames) /\ Len(freeList') <= PoolCount
    BY <1>16, <2>1, <2>2 DEF UnrefWrite, Recycled
  <2>4. pc'[Publisher] \in PublisherLabels
        /\ (\A c \in Consumers : pc'[c] \in ConsumerLabels)
        /\ pc' \in [Threads -> PublisherLabels \cup ConsumerLabels]
    BY <1>16 DEF UnrefWrite, PublisherLabels, ConsumerLabels, Threads
  <2>5. refcount' \in [Frames -> Int]
        /\ poolIndex' \in [Frames -> Frames \cup {NoFrame}]
    BY <1>16, <2>1 DEF UnrefWrite
  <2>6. /\ frame' \in [Threads -> Frames \cup {NoFrame}]
        /\ arg' \in [Threads -> Frames \cup {NoFrame}]
        /\ slot' \in [Consumers -> Frames \cup {NoFrame}]
        /\ poolLock' \in Threads \cup {None}
    BY <1>16 DEF UnrefWrite
  <2>7. sequence' \in Nat
    BY <1>16 DEF UnrefWrite
  <2> QED BY <1>16, <2>3, <2>4, <2>5, <2>6, <2>7 DEF UnrefWrite
<1>17. CASE UNCHANGED vars
  BY <1>17 DEF vars
<1> QED
  BY <1>1, <1>2, <1>3, <1>4, <1>5, <1>6, <1>7, <1>8, <1>9, <1>10, <1>11,
     <1>12, <1>13, <1>14, <1>15, <1>16, <1>17
  DEF Next, Publish, Consume, Done

-----------------------------------------------------------------------------

\* Init establishes the control part of the invariant.
LEMMA ControlInit == Init => Control
  BY ThreadFacts
  DEF Init, Control, LockOwners, Membership, Pointers, NoFreedConsumer,
      Delivering, Visiting, Installing, Unreffing, Leaving, Threads

\* The definitions that say where a thread stands.
USE DEF Delivering, Visiting, Installing, Unreffing, Leaving

\* A publisher's step preserves it.
LEMMA ControlPublish == TypeOK /\ Control /\ Publish => Control'
<1> SUFFICES ASSUME TypeOK, Control, Publish PROVE Control'
  OBVIOUS
<1> USE ThreadFacts DEF TypeOK, Control, LockOwners, Membership, Pointers,
        NoFreedConsumer, poolVars, lockVars, boxVars, callVars, visitVars,
        Goto, CallUnref, PublisherLabels, ConsumerLabels
<1>1. CASE PublishExhausted
  BY <1>1 DEF PublishExhausted
<1>2. CASE Acquire
  BY SMTT(30), <1>2, PopFacts DEF Acquire
<1>3. CASE Fill
  BY <1>3 DEF Fill
<1>4. CASE PublishLock
  BY <1>4 DEF PublishLock
<1>5. ASSUME NEW c \in Consumers, Visit(c) PROVE Control'
  <2>1. LockOwners'
    BY SMTT(30), <1>5 DEF Visit
  <2>2. Membership' /\ NoFreedConsumer'
    BY <1>5 DEF Visit
  <2>3. Pointers'
    BY <1>5 DEF Visit
  <2> QED
    BY ONLY <2>1, <2>2, <2>3 DEF Control
<1>6. CASE RefRead
  BY <1>6 DEF RefRead
<1>7. CASE RefWrite
  <2>1. LockOwners'
    BY SMTT(30), <1>7 DEF RefWrite
  <2>2. Membership'
    BY <1>7 DEF RefWrite
  <2>3. Pointers'
    <3>1. (pc[Publisher] = "idle" <=> frame[Publisher] = NoFrame)'
      BY <1>7 DEF RefWrite
    <3>2. (Unreffing(Publisher) =>
            arg[Publisher] = IF ret[Publisher] = "idle" THEN frame[Publisher]
                             ELSE slot[target])'
      BY <1>7 DEF RefWrite
    <3>3. \A d \in Consumers :
            (frame[d] # NoFrame
               <=> pc[d] = "using" \/ (Unreffing(d) /\ ret[d] = "idle"))'
      BY <1>7 DEF RefWrite
    <3>4. \A d \in Consumers :
            (Unreffing(d) => arg[d] = IF ret[d] = "idle" THEN frame[d]
                                      ELSE slot[d])'
      BY SMTT(30), <1>7 DEF RefWrite
    <3>5. \A t \in Threads : (Unreffing(t) => arg[t] \in Frames)'
      BY SMTT(30), <1>7 DEF RefWrite
    <3> QED BY <3>1, <3>2, <3>3, <3>4, <3>5
  <2>4. NoFreedConsumer'
    BY <1>7 DEF RefWrite
  <2> QED BY <2>1, <2>2, <2>3, <2>4
<1>8. CASE Install
  BY <1>8 DEF Install
<1>9. CASE PublishUnlock
  BY <1>9 DEF PublishUnlock
<1> QED
  BY <1>1, <1>2, <1>3, <1>4, <1>5, <1>6, <1>7, <1>8, <1>9 DEF Publish

\* So does a consumer's.
LEMMA ControlConsume ==
  ASSUME TypeOK, Control, NEW c \in Consumers, Consume(c)
  PROVE  Control'
<1> USE ThreadFacts DEF TypeOK, Control, LockOwners, Membership, Pointers,
        NoFreedConsumer, poolVars, lockVars, boxVars, callVars, visitVars,
        Goto, CallUnref, PublisherLabels, ConsumerLabels
<1>1. CASE Subscribe(c)
  BY SMTT(30), <1>1 DEF Subscribe
<1>2. CASE Take(c)
  <2>1. LockOwners'
    BY SMTT(30), <1>2 DEF Take
  <2>2. Membership'
    BY <1>2 DEF Take
  <2>3. Pointers'
    <3>1. (pc[Publisher] = "idle" <=> frame[Publisher] = NoFrame)'
      BY <1>2 DEF Take
    <3>2. (Unreffing(Publisher) =>
            arg[Publisher] = IF ret[Publisher] = "idle" THEN frame[Publisher]
                             ELSE slot[target])'
      BY <1>2 DEF Take
    <3>3. \A d \in Consumers :
            (frame[d] # NoFrame
               <=> pc[d] = "using" \/ (Unreffing(d) /\ ret[d] = "idle"))'
      BY <1>2 DEF Take
    <3>4. \A d \in Consumers :
            (Unreffing(d) => arg[d] = IF ret[d] = "idle" THEN frame[d]
                                      ELSE slot[d])'
      BY SMTT(30), <1>2 DEF Take
    <3>5. \A t \in Threads : (Unreffing(t) => arg[t] \in Frames)'
      BY <1>2 DEF Take
    <3> QED BY <3>1, <3>2, <3>3, <3>4, <3>5
  <2>4. NoFreedConsumer'
    BY <1>2 DEF Take
  <2> QED BY <2>1, <2>2, <2>3, <2>4
<1>3. CASE Release(c)
  <2>1. LockOwners'
    BY SMTT(30), <1>3 DEF Release
  <2>2. Membership'
    BY <1>3 DEF Release
  <2>3. Pointers'
    <3>1. (pc[Publisher] = "idle" <=> frame[Publisher] = NoFrame)'
      BY <1>3 DEF Release
    <3>2. (Unreffing(Publisher) =>
            arg[Publisher] = IF ret[Publisher] = "idle" THEN frame[Publisher]
                             ELSE slot[target])'
      BY <1>3 DEF Release
    <3>3. \A d \in Consumers :
            (frame[d] # NoFrame
               <=> pc[d] = "using" \/ (Unreffing(d) /\ ret[d] = "idle"))'
      BY <1>3 DEF Release
    <3>4. \A d \in Consumers :
            (Unreffing(d) => arg[d] = IF ret[d] = "idle" THEN frame[d]
                                      ELSE slot[d])'
      BY <1>3 DEF Release
    <3>5. \A t \in Threads : (Unreffing(t) => arg[t] \in Frames)'
      BY <1>3 DEF Release
    <3> QED BY <3>1, <3>2, <3>3, <3>4, <3>5
  <2>4. NoFreedConsumer'
    BY <1>3 DEF Release
  <2> QED BY <2>1, <2>2, <2>3, <2>4
<1>4. CASE UnsubscribeLock(c)
  BY SMTT(30), <1>4 DEF UnsubscribeLock
<1>5. CASE Unlink(c)
  <2>a. /\ hubLock = c /\ hubLock' = None /\ slot' = slot /\ frame' = frame
        /\ pc'[c] \in {"unref", "gone"} /\ pc[c] = "unlink"
        /\ pc'[c] = "unref" => arg'[c] = slot[c] /\ ret'[c] = "gone"
    BY <1>5 DEF Unlink
  <2>b. \A d \in Consumers \ {c} :
          pc'[d] = pc[d] /\ arg'[d] = arg[d] /\ ret'[d] = ret[d]
    BY <1>5 DEF Unlink
  <2>c. \A d \in Consumers :
          /\ d # None /\ (hubLock = d <=> pc[d] = "unlink")
          /\ Unreffing(d) => arg[d] = IF ret[d] = "idle" THEN frame[d]
                                      ELSE slot[d]
    OBVIOUS
  <2>1. LockOwners'
    <3>1. \A t \in Threads : (poolLock = t <=> pc[t] = "unrefWrite")'
      BY <1>5 DEF Unlink
    <3>2. \A d \in Consumers : (hubLock = d <=> pc[d] = "unlink")'
      BY ONLY <2>a, <2>b, <2>c, c \in Consumers
    <3>3. (hubLock = Publisher <=> Delivering)'
      BY <1>5 DEF Unlink
    <3>4. \A d \in Consumers :
            (consumerLock[d] = Publisher <=> Visiting /\ target = d)'
      BY <1>5 DEF Unlink
    <3> QED BY <3>1, <3>2, <3>3, <3>4
  <2>2. Membership'
    BY SMTT(30), <1>5 DEF Unlink
  <2>3. Pointers'
    <3>1. (pc[Publisher] = "idle" <=> frame[Publisher] = NoFrame)'
      BY <1>5 DEF Unlink
    <3>2. (Unreffing(Publisher) =>
            arg[Publisher] = IF ret[Publisher] = "idle" THEN frame[Publisher]
                             ELSE slot[target])'
      BY <1>5 DEF Unlink
    <3>3. \A d \in Consumers :
            (frame[d] # NoFrame
               <=> pc[d] = "using" \/ (Unreffing(d) /\ ret[d] = "idle"))'
      BY SMTT(30), <1>5 DEF Unlink
    <3>4. \A d \in Consumers :
            (Unreffing(d) => arg[d] = IF ret[d] = "idle" THEN frame[d]
                                      ELSE slot[d])'
      BY ONLY <2>a, <2>b, <2>c, c \in Consumers DEF Unreffing
    <3>5. \A t \in Threads : (Unreffing(t) => arg[t] \in Frames)'
      BY <1>5 DEF Unlink
    <3> QED BY <3>1, <3>2, <3>3, <3>4, <3>5
  <2>4. NoFreedConsumer'
    BY <1>5 DEF Unlink
  <2> QED BY <2>1, <2>2, <2>3, <2>4
<1> QED
  BY <1>1, <1>2, <1>3, <1>4, <1>5 DEF Consume

\* And a step of frame_unref.
LEMMA ControlUnref ==
  ASSUME TypeOK, Control, NEW t \in Threads, UnrefRead(t) \/ UnrefWrite(t)
  PROVE  Control'
<1> USE ThreadFacts DEF TypeOK, Control, LockOwners, Membership, Pointers,
        NoFreedConsumer, poolVars, lockVars, boxVars, callVars, visitVars,
        Goto, PublisherLabels, ConsumerLabels
<1>1. CASE UnrefRead(t)
  <2>1. LockOwners'
    BY <1>1 DEF UnrefRead
  <2>2. Membership'
    BY <1>1 DEF UnrefRead
  <2>3. Pointers'
    BY <1>1 DEF UnrefRead
  <2>4. NoFreedConsumer'
    BY <1>1 DEF UnrefRead
  <2> QED BY <2>1, <2>2, <2>3, <2>4
<1>2. CASE UnrefWrite(t)
  <2>1. LockOwners'
    BY <1>2 DEF UnrefWrite
  <2>2. Membership'
    BY <1>2 DEF UnrefWrite
  <2>3. Pointers'
    BY <1>2 DEF UnrefWrite
  <2>4. NoFreedConsumer'
    BY <1>2 DEF UnrefWrite
  <2> QED BY <2>1, <2>2, <2>3, <2>4
<1> QED
  BY <1>1, <1>2

\* The control part of the invariant is inductive, for any consumers.
LEMMA ControlStep == TypeOK /\ Control /\ [Next]_vars => Control'
<1> SUFFICES ASSUME TypeOK, Control, [Next]_vars PROVE Control'
  OBVIOUS
<1>1. CASE UNCHANGED vars
  BY <1>1 DEF vars, poolVars, lockVars, boxVars, callVars, visitVars, Control,
      LockOwners, Membership, Pointers, NoFreedConsumer
<1> QED
  BY <1>1, ControlPublish, ControlConsume, ControlUnref DEF Next, Done

\* Every variable keeps its type, for any consumers and any pool size.
THEOREM TypeCorrect == Spec => []TypeOK
<1>1. Init => TypeOK /\ Control
  BY TypeInit, ControlInit
<1>2. TypeOK /\ Control /\ [Next]_vars => (TypeOK /\ Control)'
  BY TypeStep, ControlStep
<1> QED
  BY <1>1, <1>2, PTL DEF Spec

\* Lock owners, list membership and pointers are what the code's position
\* says, for any consumers: in particular unsubscribe never frees a consumer
\* that publish has still to visit or is delivering to.
THEOREM ControlCorrect == Spec => []Control
<1>1. Init => TypeOK /\ Control
  BY TypeInit, ControlInit
<1>2. TypeOK /\ Control /\ [Next]_vars => (TypeOK /\ Control)'
  BY TypeStep, ControlStep
<1> QED
  BY <1>1, <1>2, PTL DEF Spec

\* Where the threads that hold locks stand.
LEMMA DepthFacts ==
  ASSUME TypeOK, Control, NEW t \in Threads
  PROVE  /\ Depth(t) \in 0 .. 3
         /\ pc[t] = "unrefWrite" => Depth(t) = 3
         /\ pc[t] # "unrefWrite" => Depth(t) <= 2
         /\ t # Publisher /\ pc[t] = "unlink" => Depth(t) = 1
         /\ t # Publisher /\ pc[t] \notin {"unlink", "unrefWrite"} => Depth(t) = 0
         /\ t = Publisher /\ Visiting => Depth(t) >= 2
         /\ t = Publisher /\ pc[t] = "deliver" => Depth(t) = 1
         /\ t = Publisher /\ ~Delivering /\ pc[t] # "unrefWrite" => Depth(t) = 0
<1>1. poolLock = t <=> pc[t] = "unrefWrite"
  BY DEF Control, LockOwners
<1>2. CASE t # Publisher
  <2>1. t \in Consumers
    BY <1>2 DEF Threads
  <2>2. \A c \in Consumers : consumerLock[c] # t
    BY <1>2, ThreadFacts DEF TypeOK
  <2>3. hubLock = t <=> pc[t] = "unlink"
    BY <2>1 DEF Control, LockOwners
  <2> QED
    BY <1>1, <1>2, <2>2, <2>3 DEF Depth
<1>3. CASE t = Publisher
  <2>1. hubLock = Publisher <=> Delivering
    BY DEF Control, LockOwners
  <2>2. (\E c \in Consumers : consumerLock[c] = Publisher) <=>
          Visiting /\ target \in Consumers
    BY DEF Control, LockOwners
  <2>3. Visiting => target \in Consumers
    BY DEF Control, NoFreedConsumer, TypeOK
  <2>4. pc[Publisher] = "deliver" => ~Visiting
    BY DEF Visiting, Installing, Unreffing
  <2>5. pc[Publisher] \notin {"unlink"}
    BY DEF TypeOK, PublisherLabels
  <2> QED
    BY <1>1, <1>3, <2>1, <2>2, <2>3, <2>4 DEF Depth, Delivering
<1> QED
  BY <1>2, <1>3

\* Nobody can wait in a circle: the hub's lock, a consumer's and the pool's are
\* taken in this order by every thread, for any consumers.
THEOREM NoCircularWait == Spec => []LocksNest
<1>1. TypeOK /\ Control => LocksNest
  <2> SUFFICES ASSUME TypeOK, Control, NEW t \in Threads, NEW u \in Threads,
                      Awaits(t, u)
               PROVE  Depth(t) < Depth(u)
    BY DEF LocksNest
  <2>0. /\ pc[Publisher] \in PublisherLabels
        /\ \A c \in Consumers : pc[c] \in ConsumerLabels
    BY DEF TypeOK
  <2>1. CASE hubLock = u /\ (pc[t] \in {"out", "hubLock"}
                               \/ (t # Publisher /\ pc[t] = "idle"))
    <3>1. Depth(t) = 0
      BY <2>0, <2>1, DepthFacts
         DEF Delivering, Visiting, Installing, Unreffing, PublisherLabels
    <3>2. Depth(u) >= 1
      BY <2>1 DEF Depth
    <3> QED
      BY <3>1, <3>2, DepthFacts
  <2>2. CASE poolLock = u /\ (pc[t] = "unref"
                                \/ (t = Publisher /\ pc[t] = "idle"))
    <3>1. Depth(u) = 3 /\ Depth(t) \in 0 .. 2
      BY <2>2, DepthFacts DEF Depth
    <3> QED
      BY <3>1
  <2>3. CASE pc[t] = "deliver" /\ \E c \in todo : consumerLock[c] = u
    <3>1. t = Publisher
      BY <2>0, <2>3 DEF Threads, ConsumerLabels
    <3>2. PICK c \in Consumers : consumerLock[c] = u
      BY <2>3 DEF TypeOK
    <3>3. u = Publisher /\ Visiting
      BY <3>2, ThreadFacts DEF TypeOK, Control, LockOwners
    <3> QED
      BY <2>3, <3>1, <3>3 DEF Visiting, Installing, Unreffing
  <2>4. CASE t # Publisher /\ pc[t] \in {"idle", "unlink"} /\ consumerLock[t] = u
    <3>1. t \in Consumers
      BY <2>4 DEF Threads
    <3>2. u = Publisher /\ Visiting
      BY <2>4, <3>1, ThreadFacts DEF TypeOK, Control, LockOwners
    <3>3. Depth(u) >= 2 /\ Depth(t) <= 1
      BY <2>4, <3>2, DepthFacts
    <3> QED
      BY <3>3, DepthFacts
  <2> QED
    BY <2>1, <2>2, <2>3, <2>4 DEF Awaits
<1>2. Spec => [](TypeOK /\ Control)
  BY TypeCorrect, ControlCorrect, PTL
<1> QED
  BY <1>1, <1>2, PTL

-----------------------------------------------------------------------------
(* A hub with one consumer: reference counts are exact, buffers are free   *)
(* exactly when nobody points to them, and a frame does not change under   *)
(* its reader.                                                             *)

\* The hub as the programs use it: the encode worker, or the vision worker.
SingleConsumer == \E d : Consumers = {d}

\* RefcountExact, when d is the only consumer.
RefCount(d) ==
  \A f \in Frames :
    refcount[f] = PublisherRefs(f) + (IF InMailbox(d, f) THEN 1 ELSE 0)
                                   + (IF frame[d] = f THEN 1 ELSE 0)

Free == \A f \in Frames :
          (\E i \in DOMAIN freeList : freeList[i] = f) <=> ~Referenced(f)
Once == \A i, j \in DOMAIN freeList : freeList[i] = freeList[j] => i = j

\* The part of Ownership that is easier to step through.
Own(d) == RefCount(d) /\ Free /\ Once /\ ContentStable /\ Private
            /\ CountCurrent /\ IndexKnown

USE DEF Delivering, Visiting, Installing, Unreffing, Leaving, Undelivered

\* A count is what the pointers make it, of which the publisher has at most 2.
LEMMA CountFact ==
  ASSUME NEW d, TypeOK, RefCount(d), NEW f \in Frames
  PROVE  /\ refcount[f] = PublisherRefs(f) + (IF InMailbox(d, f) THEN 1 ELSE 0)
                                           + (IF frame[d] = f THEN 1 ELSE 0)
         /\ PublisherRefs(f) \in 0 .. 2 /\ refcount[f] \in Int
BY DEF TypeOK, RefCount, PublisherRefs

\* A step that moves no pointer and writes nothing to the pool.
LEMMA OwnStill ==
  ASSUME NEW d, Consumers = {d}, Own(d),
         UNCHANGED <<freeList, refcount, poolIndex, content, frame, slot, got>>,
         \A f \in Frames : /\ PublisherRefs(f)' = PublisherRefs(f)
                           /\ InMailbox(d, f)' <=> InMailbox(d, f),
         pc'[Publisher] = "fill" <=> pc[Publisher] = "fill",
         Undelivered' => Undelivered,
         Visiting' => todo' = {},
         CountCurrent'
  PROVE  Own(d)'
<1> USE DEF Own
<1>1. \A f \in Frames : Referenced(f)' <=> Referenced(f)
  BY DEF Referenced
<1>2. RefCount(d)'
  BY DEF RefCount
<1>3. Free' /\ Once'
  BY <1>1 DEF Free, Once
<1>4. ContentStable' /\ Private'
  BY DEF ContentStable, Private
<1>5. IndexKnown'
  BY <1>1 DEF IndexKnown
<1> QED
  BY <1>2, <1>3, <1>4, <1>5

LEMMA OwnPublishExhausted ==
  ASSUME NEW d, Consumers = {d}, TypeOK, Control, Own(d), PublishExhausted
  PROVE  Own(d)'
<1> USE ThreadFacts DEF TypeOK, Control, LockOwners, Membership, Pointers,
        poolVars, lockVars, boxVars, callVars, visitVars, Goto, CallUnref, Own
<1>1. UNCHANGED <<freeList, refcount, poolIndex, content, frame, slot, got>>
  BY DEF PublishExhausted
<1>2. \A f \in Frames : /\ PublisherRefs(f)' = PublisherRefs(f)
                        /\ InMailbox(d, f)' <=> InMailbox(d, f)
  BY DEF PublishExhausted, PublisherRefs, InMailbox
<1>3. /\ pc'[Publisher] = "fill" <=> pc[Publisher] = "fill"
      /\ Undelivered' => Undelivered
      /\ Visiting' => todo' = {}
  BY DEF PublishExhausted, Private
<1>4. CountCurrent'
  BY DEF PublishExhausted, CountCurrent
<1> QED
  BY ONLY <1>1, <1>2, <1>3, <1>4, Consumers = {d}, Own(d), OwnStill

LEMMA OwnAcquire ==
  ASSUME NEW d, Consumers = {d}, TypeOK, Control, Own(d), Acquire
  PROVE  Own(d)'
<1> USE ThreadFacts DEF TypeOK, Control, LockOwners, Membership, Pointers,
        NoFreedConsumer, poolVars, lockVars, boxVars, callVars, visitVars,
        Goto, CallUnref, Own, Threads, PublisherLabels, ConsumerLabels
<1>1. RefCount(d)'
  <2> SUFFICES ASSUME NEW f \in Frames
               PROVE  (refcount[f] = PublisherRefs(f)
                          + (IF InMailbox(d, f) THEN 1 ELSE 0)
                          + (IF frame[d] = f THEN 1 ELSE 0))'
    BY DEF RefCount
  <2>0. /\ refcount[f] = PublisherRefs(f) + (IF InMailbox(d, f) THEN 1 ELSE 0)
                                          + (IF frame[d] = f THEN 1 ELSE 0)
        /\ PublisherRefs(f) \in 0 .. 2 /\ refcount[f] \in Int
    BY ONLY CountFact, TypeOK, Own(d), f \in Frames DEF Own
  <2>1. PublisherRefs(f)' = PublisherRefs(f)
    BY DEF Acquire, PublisherRefs
  <2>2. InMailbox(d, f)' <=> InMailbox(d, f)
    BY DEF Acquire, InMailbox
  <2>3. frame'[d] = f <=> frame[d] = f
    BY DEF Acquire
  <2>4. refcount'[f] = refcount[f]
    BY DEF Acquire, CountCurrent
  <2> QED BY ONLY <2>0, <2>1, <2>2, <2>3, <2>4
<1>p. /\ freeList \in Seq(Frames) /\ freeList # <<>>
      /\ DOMAIN freeList = 1 .. Len(freeList)
      /\ freeList' \in Seq(Frames) /\ DOMAIN freeList' = 1 .. Len(freeList) - 1
      /\ \A i \in DOMAIN freeList' : freeList'[i] = freeList[i]
      /\ Len(freeList) \in Nat \ {0}
      /\ frame'[Publisher] = freeList[Len(freeList)]
      /\ frame[Publisher] = NoFrame
  <2>1. /\ freeList \in Seq(Frames) /\ freeList # <<>>
        /\ Len(freeList) <= PoolCount
        /\ freeList' = SubSeq(freeList, 1, Len(freeList) - 1)
        /\ frame'[Publisher] = freeList[Len(freeList)]
        /\ frame[Publisher] = NoFrame
    BY DEF Acquire
  <2>2. /\ freeList' \in Seq(Frames) /\ Len(freeList') = Len(freeList) - 1
        /\ \A i \in 1 .. Len(freeList) - 1 : freeList'[i] = freeList[i]
        /\ Len(freeList) \in Nat \ {0}
    BY ONLY <2>1, PopFacts
  <2>3. DOMAIN freeList = 1 .. Len(freeList)
        /\ DOMAIN freeList' = 1 .. Len(freeList')
    BY ONLY <2>1, <2>2, LenProperties
  <2> QED BY <2>1, <2>2, <2>3
<1>2. Free'
  <2>1. \A f \in Frames : (\E i \in DOMAIN freeList' : freeList'[i] = f)
                            <=> /\ \E i \in DOMAIN freeList : freeList[i] = f
                                /\ f # freeList[Len(freeList)]
    <3>1. \A i \in DOMAIN freeList' :
            i \in DOMAIN freeList /\ i # Len(freeList)
      BY ONLY <1>p
    <3>2. \A i \in DOMAIN freeList : i = Len(freeList) \/ i \in DOMAIN freeList'
      BY ONLY <1>p
    <3>3. Len(freeList) \in DOMAIN freeList
      BY ONLY <1>p
    <3> QED BY ONLY <1>p, <3>1, <3>2, <3>3, Once DEF Once
  <2>2. \A f \in Frames :
          Referenced(f)' <=> Referenced(f) \/ f = freeList[Len(freeList)]
    <3>1. \A f \in Frames, t \in Threads :
            frame'[t] = f <=> IF t = Publisher THEN f = freeList[Len(freeList)]
                              ELSE frame[t] = f
      BY <1>p DEF Acquire
    <3>2. \A f \in Frames, c \in Consumers : InMailbox(c, f)' <=> InMailbox(c, f)
      BY DEF Acquire, InMailbox
    <3>3. \A f \in Frames : frame[Publisher] # f
      BY ONLY <1>p, ThreadFacts
    <3> QED BY ONLY <3>1, <3>2, <3>3, ThreadFacts DEF Referenced
  <2> QED BY ONLY <2>1, <2>2, Free DEF Free
<1>3. Once'
  BY <1>p DEF Once
<1>4. ContentStable'
  BY DEF Acquire, ContentStable, Private, RefCount
<1>5. Private'
  BY DEF Acquire, Private, Free, Referenced, InMailbox
<1>6. CountCurrent'
  BY DEF Acquire, CountCurrent, Private
<1>7. IndexKnown'
  BY DEF Acquire, IndexKnown, Referenced, InMailbox
<1> QED BY <1>1, <1>2, <1>3, <1>4, <1>5, <1>6, <1>7

LEMMA OwnFill ==
  ASSUME NEW d, Consumers = {d}, TypeOK, Control, Own(d), Fill
  PROVE  Own(d)'
<1> USE ThreadFacts DEF TypeOK, Control, LockOwners, Membership, Pointers,
        NoFreedConsumer, poolVars, lockVars, boxVars, callVars, visitVars,
        Goto, CallUnref, Own, Threads, PublisherLabels, ConsumerLabels
<1>1. RefCount(d)'
  <2> SUFFICES ASSUME NEW f \in Frames
               PROVE  (refcount[f] = PublisherRefs(f)
                          + (IF InMailbox(d, f) THEN 1 ELSE 0)
                          + (IF frame[d] = f THEN 1 ELSE 0))'
    BY DEF RefCount
  <2>0. /\ refcount[f] = PublisherRefs(f) + (IF InMailbox(d, f) THEN 1 ELSE 0)
                                          + (IF frame[d] = f THEN 1 ELSE 0)
        /\ PublisherRefs(f) \in 0 .. 2 /\ refcount[f] \in Int
    BY ONLY CountFact, TypeOK, Own(d), f \in Frames DEF Own
  <2>1. PublisherRefs(f)' = IF f = frame[Publisher] THEN 1 ELSE PublisherRefs(f)
    BY DEF Fill, PublisherRefs
  <2>2. InMailbox(d, f)' <=> InMailbox(d, f)
    BY DEF Fill, InMailbox
  <2>3. frame'[d] = f <=> frame[d] = f
    BY DEF Fill
  <2>4. refcount'[f] = IF f = frame[Publisher] THEN 1 ELSE refcount[f]
    BY DEF Fill, CountCurrent
  <2>5. f = frame[Publisher] => PublisherRefs(f) = 0 /\ ~InMailbox(d, f) /\ frame[d] # f
    BY DEF Fill, PublisherRefs, InMailbox, Private
  <2> QED BY ONLY <2>0, <2>1, <2>2, <2>3, <2>4, <2>5
<1>2. Free'
  BY DEF Fill, Free, Referenced, InMailbox
<1>3. Once'
  BY DEF Fill, Once
<1>4. ContentStable'
  BY DEF Fill, ContentStable, Private, RefCount
<1>5. Private'
  BY DEF Fill, Private, Free, Referenced, InMailbox
<1>6. CountCurrent'
  BY DEF Fill, CountCurrent, Private
<1>7. IndexKnown'
  BY DEF Fill, IndexKnown, Referenced, InMailbox
<1> QED BY <1>1, <1>2, <1>3, <1>4, <1>5, <1>6, <1>7

LEMMA OwnPublishLock ==
  ASSUME NEW d, Consumers = {d}, TypeOK, Control, Own(d), PublishLock
  PROVE  Own(d)'
<1> USE ThreadFacts DEF TypeOK, Control, LockOwners, Membership, Pointers,
        poolVars, lockVars, boxVars, callVars, visitVars, Goto, CallUnref, Own
<1>1. UNCHANGED <<freeList, refcount, poolIndex, content, frame, slot, got>>
  BY DEF PublishLock
<1>2. \A f \in Frames : /\ PublisherRefs(f)' = PublisherRefs(f)
                        /\ InMailbox(d, f)' <=> InMailbox(d, f)
  BY DEF PublishLock, PublisherRefs, InMailbox
<1>3. /\ pc'[Publisher] = "fill" <=> pc[Publisher] = "fill"
      /\ Undelivered' => Undelivered
      /\ Visiting' => todo' = {}
  BY DEF PublishLock, Private
<1>4. CountCurrent'
  BY DEF PublishLock, CountCurrent
<1> QED
  BY ONLY <1>1, <1>2, <1>3, <1>4, Consumers = {d}, Own(d), OwnStill

LEMMA OwnVisit ==
  ASSUME NEW d, Consumers = {d}, TypeOK, Control, Own(d), Visit(d)
  PROVE  Own(d)'
<1> USE ThreadFacts DEF TypeOK, Control, LockOwners, Membership, Pointers,
        poolVars, lockVars, boxVars, callVars, visitVars, Goto, CallUnref, Own
<1>1. UNCHANGED <<freeList, refcount, poolIndex, content, frame, slot, got>>
  BY DEF Visit
<1>2. \A f \in Frames : /\ PublisherRefs(f)' = PublisherRefs(f)
                        /\ InMailbox(d, f)' <=> InMailbox(d, f)
  BY DEF Visit, PublisherRefs, InMailbox
<1>3. /\ pc'[Publisher] = "fill" <=> pc[Publisher] = "fill"
      /\ Undelivered' => Undelivered
      /\ Visiting' => todo' = {}
  BY DEF Visit, Private
<1>4. CountCurrent'
  BY DEF Visit, CountCurrent
<1> QED
  BY ONLY <1>1, <1>2, <1>3, <1>4, Consumers = {d}, Own(d), OwnStill

LEMMA OwnRefRead ==
  ASSUME NEW d, Consumers = {d}, TypeOK, Control, Own(d), RefRead
  PROVE  Own(d)'
<1> USE ThreadFacts DEF TypeOK, Control, LockOwners, Membership, Pointers,
        poolVars, lockVars, boxVars, callVars, visitVars, Goto, CallUnref, Own
<1>1. UNCHANGED <<freeList, refcount, poolIndex, content, frame, slot, got>>
  BY DEF RefRead
<1>2. \A f \in Frames : /\ PublisherRefs(f)' = PublisherRefs(f)
                        /\ InMailbox(d, f)' <=> InMailbox(d, f)
  BY DEF RefRead, PublisherRefs, InMailbox
<1>3. /\ pc'[Publisher] = "fill" <=> pc[Publisher] = "fill"
      /\ Undelivered' => Undelivered
      /\ Visiting' => todo' = {}
  BY DEF RefRead, Private
<1>4. CountCurrent'
  BY DEF RefRead, CountCurrent
<1> QED
  BY ONLY <1>1, <1>2, <1>3, <1>4, Consumers = {d}, Own(d), OwnStill

LEMMA OwnRefWrite ==
  ASSUME NEW d, Consumers = {d}, TypeOK, Control, Own(d), RefWrite
  PROVE  Own(d)'
<1> USE ThreadFacts DEF TypeOK, Control, LockOwners, Membership, Pointers,
        NoFreedConsumer, poolVars, lockVars, boxVars, callVars, visitVars,
        Goto, CallUnref, Own, Threads, PublisherLabels, ConsumerLabels
<1>1. RefCount(d)'
  <2> SUFFICES ASSUME NEW f \in Frames
               PROVE  (refcount[f] = PublisherRefs(f)
                          + (IF InMailbox(d, f) THEN 1 ELSE 0)
                          + (IF frame[d] = f THEN 1 ELSE 0))'
    BY DEF RefCount
  <2>0. /\ refcount[f] = PublisherRefs(f) + (IF InMailbox(d, f) THEN 1 ELSE 0)
                                          + (IF frame[d] = f THEN 1 ELSE 0)
        /\ PublisherRefs(f) \in 0 .. 2 /\ refcount[f] \in Int
    BY ONLY CountFact, TypeOK, Own(d), f \in Frames DEF Own
  <2>1. PublisherRefs(f)' = IF f = frame[Publisher] THEN PublisherRefs(f) + 1
                           ELSE PublisherRefs(f)
    <3>1. /\ pc[Publisher] = "refWrite" /\ frame' = frame
          /\ \/ pc'[Publisher] = "install"
             \/ pc'[Publisher] = "unref" /\ ret'[Publisher] = "install"
      BY DEF RefWrite
    <3> QED
      BY ONLY <3>1 DEF PublisherRefs, Installing, Unreffing
  <2>2. InMailbox(d, f)' <=> InMailbox(d, f)
    BY DEF RefWrite, InMailbox
  <2>3. frame'[d] = f <=> frame[d] = f
    BY DEF RefWrite
  <2>4. refcount'[f] = IF f = frame[Publisher] THEN refcount[f] + 1 ELSE refcount[f]
    BY DEF RefWrite, CountCurrent
  <2> QED BY ONLY <2>0, <2>1, <2>2, <2>3, <2>4
<1>2. Free'
  <2>1. freeList' = freeList /\ frame' = frame
    BY DEF RefWrite
  <2>2. \A f \in Frames : InMailbox(d, f)' <=> InMailbox(d, f)
    BY DEF RefWrite, InMailbox
  <2>3. \A f \in Frames : Referenced(f)' <=> Referenced(f)
    BY ONLY <2>1, <2>2, Consumers = {d} DEF Referenced
  <2> QED
    BY ONLY <2>1, <2>3, Own(d) DEF Own, Free
<1>3. Once'
  BY DEF RefWrite, Once
<1>4. ContentStable'
  BY DEF RefWrite, ContentStable, Private, RefCount
<1>5. Private'
  BY DEF RefWrite, Private, Free, Referenced, InMailbox
<1>6. CountCurrent'
  BY DEF RefWrite, CountCurrent, Private
<1>7. IndexKnown'
  BY DEF RefWrite, IndexKnown, Referenced, InMailbox
<1> QED BY <1>1, <1>2, <1>3, <1>4, <1>5, <1>6, <1>7

LEMMA OwnInstall ==
  ASSUME NEW d, Consumers = {d}, TypeOK, Control, Own(d), Install
  PROVE  Own(d)'
<1> USE ThreadFacts DEF TypeOK, Control, LockOwners, Membership, Pointers,
        NoFreedConsumer, poolVars, lockVars, boxVars, callVars, visitVars,
        Goto, CallUnref, Own, Threads, PublisherLabels, ConsumerLabels
<1>1. RefCount(d)'
  <2> SUFFICES ASSUME NEW f \in Frames
               PROVE  (refcount[f] = PublisherRefs(f)
                          + (IF InMailbox(d, f) THEN 1 ELSE 0)
                          + (IF frame[d] = f THEN 1 ELSE 0))'
    BY DEF RefCount
  <2>0. /\ refcount[f] = PublisherRefs(f) + (IF InMailbox(d, f) THEN 1 ELSE 0)
                                          + (IF frame[d] = f THEN 1 ELSE 0)
        /\ PublisherRefs(f) \in 0 .. 2 /\ refcount[f] \in Int
    BY ONLY CountFact, TypeOK, Own(d), f \in Frames DEF Own
  <2>1. PublisherRefs(f)' = IF f = frame[Publisher] THEN PublisherRefs(f) - 1
                           ELSE PublisherRefs(f)
    BY DEF Install, PublisherRefs
  <2>2. ~InMailbox(d, f) /\ (InMailbox(d, f)' <=> f = frame[Publisher])
    BY DEF Install, InMailbox
  <2>3. frame'[d] = f <=> frame[d] = f
    BY DEF Install
  <2>4. refcount'[f] = refcount[f]
    BY DEF Install, CountCurrent
  <2> QED BY ONLY <2>0, <2>1, <2>2, <2>3, <2>4
<1>2. Free'
  BY SMTT(30) DEF Install, Free, Referenced, InMailbox
<1>3. Once'
  BY DEF Install, Once
<1>4. ContentStable'
  BY DEF Install, ContentStable, Private, RefCount
<1>5. Private'
  BY DEF Install, Private, Free, Referenced, InMailbox
<1>6. CountCurrent'
  BY DEF Install, CountCurrent, Private
<1>7. IndexKnown'
  BY DEF Install, IndexKnown, Referenced, InMailbox
<1> QED BY <1>1, <1>2, <1>3, <1>4, <1>5, <1>6, <1>7

LEMMA OwnPublishUnlock ==
  ASSUME NEW d, Consumers = {d}, TypeOK, Control, Own(d), PublishUnlock
  PROVE  Own(d)'
<1> USE ThreadFacts DEF TypeOK, Control, LockOwners, Membership, Pointers,
        poolVars, lockVars, boxVars, callVars, visitVars, Goto, CallUnref, Own
<1>1. UNCHANGED <<freeList, refcount, poolIndex, content, frame, slot, got>>
  BY DEF PublishUnlock
<1>2. \A f \in Frames : /\ PublisherRefs(f)' = PublisherRefs(f)
                        /\ InMailbox(d, f)' <=> InMailbox(d, f)
  BY DEF PublishUnlock, PublisherRefs, InMailbox
<1>3. /\ pc'[Publisher] = "fill" <=> pc[Publisher] = "fill"
      /\ Undelivered' => Undelivered
      /\ Visiting' => todo' = {}
  BY DEF PublishUnlock, Private
<1>4. CountCurrent'
  BY DEF PublishUnlock, CountCurrent
<1> QED
  BY ONLY <1>1, <1>2, <1>3, <1>4, Consumers = {d}, Own(d), OwnStill

LEMMA OwnSubscribe ==
  ASSUME NEW d, Consumers = {d}, TypeOK, Control, Own(d), Subscribe(d)
  PROVE  Own(d)'
<1> USE ThreadFacts DEF TypeOK, Control, LockOwners, Membership, Pointers,
        poolVars, lockVars, boxVars, callVars, visitVars, Goto, CallUnref, Own
<1>1. UNCHANGED <<freeList, refcount, poolIndex, content, frame, slot, got>>
  BY DEF Subscribe
<1>2. \A f \in Frames : /\ PublisherRefs(f)' = PublisherRefs(f)
                        /\ InMailbox(d, f)' <=> InMailbox(d, f)
  BY DEF Subscribe, PublisherRefs, InMailbox
<1>3. /\ pc'[Publisher] = "fill" <=> pc[Publisher] = "fill"
      /\ Undelivered' => Undelivered
      /\ Visiting' => todo' = {}
  BY DEF Subscribe, Private
<1>4. CountCurrent'
  BY DEF Subscribe, CountCurrent
<1> QED
  BY ONLY <1>1, <1>2, <1>3, <1>4, Consumers = {d}, Own(d), OwnStill

LEMMA OwnTake ==
  ASSUME NEW d, Consumers = {d}, TypeOK, Control, Own(d), Take(d)
  PROVE  Own(d)'
<1> USE ThreadFacts DEF TypeOK, Control, LockOwners, Membership, Pointers,
        NoFreedConsumer, poolVars, lockVars, boxVars, callVars, visitVars,
        Goto, CallUnref, Own, Threads, PublisherLabels, ConsumerLabels
<1>1. RefCount(d)'
  <2> SUFFICES ASSUME NEW f \in Frames
               PROVE  (refcount[f] = PublisherRefs(f)
                          + (IF InMailbox(d, f) THEN 1 ELSE 0)
                          + (IF frame[d] = f THEN 1 ELSE 0))'
    BY DEF RefCount
  <2>0. /\ refcount[f] = PublisherRefs(f) + (IF InMailbox(d, f) THEN 1 ELSE 0)
                                          + (IF frame[d] = f THEN 1 ELSE 0)
        /\ PublisherRefs(f) \in 0 .. 2 /\ refcount[f] \in Int
    BY ONLY CountFact, TypeOK, Own(d), f \in Frames DEF Own
  <2>1. PublisherRefs(f)' = PublisherRefs(f)
    BY DEF Take, PublisherRefs
  <2>2. ~InMailbox(d, f)' /\ (InMailbox(d, f) <=> slot[d] = f)
    BY DEF Take, InMailbox
  <2>3. frame[d] # f /\ (frame'[d] = f <=> slot[d] = f)
    BY DEF Take
  <2>4. refcount'[f] = refcount[f]
    BY DEF Take, CountCurrent
  <2> QED BY ONLY <2>0, <2>1, <2>2, <2>3, <2>4
<1>2. Free'
  BY SMTT(30) DEF Take, Free, Referenced, InMailbox
<1>3. Once'
  BY DEF Take, Once
<1>4. ContentStable'
  BY DEF Take, ContentStable, Private, RefCount
<1>5. Private'
  BY DEF Take, Private, Free, Referenced, InMailbox
<1>6. CountCurrent'
  BY DEF Take, CountCurrent, Private
<1>7. IndexKnown'
  BY DEF Take, IndexKnown, Referenced, InMailbox
<1> QED BY <1>1, <1>2, <1>3, <1>4, <1>5, <1>6, <1>7

LEMMA OwnRelease ==
  ASSUME NEW d, Consumers = {d}, TypeOK, Control, Own(d), Release(d)
  PROVE  Own(d)'
<1> USE ThreadFacts DEF TypeOK, Control, LockOwners, Membership, Pointers,
        poolVars, lockVars, boxVars, callVars, visitVars, Goto, CallUnref, Own
<1>1. UNCHANGED <<freeList, refcount, poolIndex, content, frame, slot, got>>
  BY DEF Release
<1>2. \A f \in Frames : /\ PublisherRefs(f)' = PublisherRefs(f)
                        /\ InMailbox(d, f)' <=> InMailbox(d, f)
  BY DEF Release, PublisherRefs, InMailbox
<1>3. /\ pc'[Publisher] = "fill" <=> pc[Publisher] = "fill"
      /\ Undelivered' => Undelivered
      /\ Visiting' => todo' = {}
  BY DEF Release, Private
<1>4. CountCurrent'
  BY DEF Release, CountCurrent
<1> QED
  BY ONLY <1>1, <1>2, <1>3, <1>4, Consumers = {d}, Own(d), OwnStill

LEMMA OwnUnsubscribeLock ==
  ASSUME NEW d, Consumers = {d}, TypeOK, Control, Own(d), UnsubscribeLock(d)
  PROVE  Own(d)'
<1> USE ThreadFacts DEF TypeOK, Control, LockOwners, Membership, Pointers,
        poolVars, lockVars, boxVars, callVars, visitVars, Goto, CallUnref, Own
<1>1. UNCHANGED <<freeList, refcount, poolIndex, content, frame, slot, got>>
  BY DEF UnsubscribeLock
<1>2. \A f \in Frames : /\ PublisherRefs(f)' = PublisherRefs(f)
                        /\ InMailbox(d, f)' <=> InMailbox(d, f)
  BY DEF UnsubscribeLock, PublisherRefs, InMailbox
<1>3. /\ pc'[Publisher] = "fill" <=> pc[Publisher] = "fill"
      /\ Undelivered' => Undelivered
      /\ Visiting' => todo' = {}
  BY DEF UnsubscribeLock, Private
<1>4. CountCurrent'
  BY DEF UnsubscribeLock, CountCurrent
<1> QED
  BY ONLY <1>1, <1>2, <1>3, <1>4, Consumers = {d}, Own(d), OwnStill

LEMMA OwnUnlink ==
  ASSUME NEW d, Consumers = {d}, TypeOK, Control, Own(d), Unlink(d)
  PROVE  Own(d)'
<1> USE ThreadFacts DEF TypeOK, Control, LockOwners, Membership, Pointers,
        poolVars, lockVars, boxVars, callVars, visitVars, Goto, CallUnref, Own
<1>1. UNCHANGED <<freeList, refcount, poolIndex, content, frame, slot, got>>
  BY DEF Unlink
<1>2. \A f \in Frames : /\ PublisherRefs(f)' = PublisherRefs(f)
                        /\ InMailbox(d, f)' <=> InMailbox(d, f)
  BY DEF Unlink, PublisherRefs, InMailbox
<1>3. /\ pc'[Publisher] = "fill" <=> pc[Publisher] = "fill"
      /\ Undelivered' => Undelivered
      /\ Visiting' => todo' = {}
  BY DEF Unlink, Private
<1>4. CountCurrent'
  <2>1. /\ UNCHANGED <<reg, refcount, frame>> /\ pc'[Publisher] = pc[Publisher]
        /\ \A t \in Threads : pc'[t] = "unrefWrite" => /\ pc[t] = "unrefWrite"
                                                    /\ arg'[t] = arg[t]
    BY SMTT(30) DEF Unlink
  <2> QED BY ONLY <2>1, CountCurrent DEF CountCurrent
<1> QED
  BY ONLY <1>1, <1>2, <1>3, <1>4, Consumers = {d}, Own(d), OwnStill

LEMMA OwnUnrefReadPublisher ==
  ASSUME NEW d, Consumers = {d}, TypeOK, Control, Own(d), UnrefRead(Publisher)
  PROVE  Own(d)'
<1> USE ThreadFacts DEF TypeOK, Control, LockOwners, Membership, Pointers,
        poolVars, lockVars, boxVars, callVars, visitVars, Goto, CallUnref, Own
<1>1. UNCHANGED <<freeList, refcount, poolIndex, content, frame, slot, got>>
  BY DEF UnrefRead
<1>2. \A f \in Frames : /\ PublisherRefs(f)' = PublisherRefs(f)
                        /\ InMailbox(d, f)' <=> InMailbox(d, f)
  BY DEF UnrefRead, PublisherRefs, InMailbox
<1>3. /\ pc'[Publisher] = "fill" <=> pc[Publisher] = "fill"
      /\ Undelivered' => Undelivered
      /\ Visiting' => todo' = {}
  BY DEF UnrefRead, Private
<1>4. CountCurrent'
  BY DEF UnrefRead, CountCurrent
<1> QED
  BY ONLY <1>1, <1>2, <1>3, <1>4, Consumers = {d}, Own(d), OwnStill

LEMMA OwnUnrefReadConsumer ==
  ASSUME NEW d, Consumers = {d}, TypeOK, Control, Own(d), UnrefRead(d)
  PROVE  Own(d)'
<1> USE ThreadFacts DEF TypeOK, Control, LockOwners, Membership, Pointers,
        poolVars, lockVars, boxVars, callVars, visitVars, Goto, CallUnref, Own
<1>1. UNCHANGED <<freeList, refcount, poolIndex, content, frame, slot, got>>
  BY DEF UnrefRead
<1>2. \A f \in Frames : /\ PublisherRefs(f)' = PublisherRefs(f)
                        /\ InMailbox(d, f)' <=> InMailbox(d, f)
  BY DEF UnrefRead, PublisherRefs, InMailbox
<1>3. /\ pc'[Publisher] = "fill" <=> pc[Publisher] = "fill"
      /\ Undelivered' => Undelivered
      /\ Visiting' => todo' = {}
  BY DEF UnrefRead, Private
<1>4. CountCurrent'
  BY DEF UnrefRead, CountCurrent
<1> QED
  BY ONLY <1>1, <1>2, <1>3, <1>4, Consumers = {d}, Own(d), OwnStill

\* A frame that is not on a duplicate-free list of frames fits on it.
LEMMA PushFacts ==
  ASSUME NEW s \in Seq(Frames), NEW x \in Frames,
         \A i, j \in DOMAIN s : s[i] = s[j] => i = j,
         \A i \in DOMAIN s : s[i] # x
  PROVE  /\ Len(s) < PoolCount
         /\ DOMAIN s = 1 .. Len(s) /\ Len(s) \in Nat
         /\ DOMAIN Append(s, x) = 1 .. Len(s) + 1
         /\ \A i \in DOMAIN s : Append(s, x)[i] = s[i]
         /\ Append(s, x)[Len(s) + 1] = x
<1>1. DOMAIN s = 1 .. Len(s) /\ Len(s) \in Nat
  BY LenProperties
<1>2. s \in [1 .. Len(s) -> Frames \ {x}]
  BY <1>1, ElementOfSeq
<1>3. s \in Injection(1 .. Len(s), Frames \ {x})
  BY <1>1, <1>2 DEF Injection, IsInjective
<1>4. IsFiniteSet(Frames) /\ Cardinality(Frames) = PoolCount
  BY FS_Interval, PoolAssumption DEF Frames
<1>5. /\ IsFiniteSet(Frames \ {x})
      /\ Cardinality(Frames \ {x}) = PoolCount - 1
  BY <1>4, FS_RemoveElement
<1>6. Cardinality(1 .. Len(s)) <= Cardinality(Frames \ {x})
  BY <1>3, <1>5, FS_Injection
<1>7. Cardinality(1 .. Len(s)) = Len(s)
  <2>1. 1 \in Int /\ Len(s) \in Int
    BY <1>1
  <2>2. Cardinality(1 .. Len(s)) = IF 1 > Len(s) THEN 0 ELSE Len(s) - 1 + 1
    BY ONLY <2>1, FS_Interval
  <2> QED BY <1>1, <2>2
<1>8. Len(s) < PoolCount
  BY <1>1, <1>5, <1>6, <1>7, PoolAssumption
<1>9. /\ DOMAIN Append(s, x) = 1 .. Len(s) + 1
      /\ \A i \in DOMAIN s : Append(s, x)[i] = s[i]
      /\ Append(s, x)[Len(s) + 1] = x
  BY <1>1
<1> QED
  BY <1>1, <1>8, <1>9

\* The last frame_unref of a frame puts it, and nothing else, on the list.
LEMMA UnrefRecycles ==
  ASSUME NEW d, Consumers = {d}, TypeOK, Control, Own(d),
         NEW t \in Threads, UnrefWrite(t), RefCount(d)'
  PROVE  Free' /\ Once' /\ IndexKnown'
<1> USE ThreadFacts DEF TypeOK, Control, LockOwners, Membership, Pointers,
        NoFreedConsumer, poolVars, lockVars, boxVars, callVars, visitVars,
        Goto, CallUnref, Own, Threads, PublisherLabels, ConsumerLabels
<1>0. PICK x \in Frames : x = arg[t]
  BY DEF UnrefWrite
<1>1. x \in Frames /\ x = arg[t] /\ Referenced(x)
      /\ ~(pc[Publisher] = "fill" /\ frame[Publisher] = x)
  BY <1>0 DEF UnrefWrite, Referenced, InMailbox, Private
<1>2. poolIndex[x] = x /\ reg[t] = refcount[x]
  BY <1>1 DEF IndexKnown, CountCurrent, UnrefWrite
<1>3. refcount[x] \in Int /\ refcount[x] > 0
  BY <1>1, <1>2 DEF RefCount, Referenced, PublisherRefs, InMailbox
<1>4. /\ Frees(t) <=> refcount[x] = 1
      /\ refcount' = [refcount EXCEPT ![x] = refcount[x] - 1]
  BY <1>1, <1>2, <1>3 DEF Frees, UnrefWrite
<1>5. \A i \in DOMAIN freeList : freeList[i] # x
  BY <1>1 DEF Free
<1>6. Len(freeList) < PoolCount
  <2>1. freeList \in Seq(Frames) /\ x \in Frames
        /\ \A i, j \in DOMAIN freeList : freeList[i] = freeList[j] => i = j
    BY <1>1 DEF Once
  <2> QED BY ONLY <1>5, <2>1, PushFacts
<1>7. freeList' = IF refcount[x] = 1 THEN Append(freeList, x) ELSE freeList
  BY <1>1, <1>2, <1>4, <1>6 DEF UnrefWrite, Recycled
<1>8. poolIndex' = IF refcount[x] = 1 THEN [poolIndex EXCEPT ![x] = NoFrame]
                   ELSE poolIndex
  BY <1>1, <1>4 DEF UnrefWrite
<1>9. \A f \in Frames \ {x} : Referenced(f)' <=> Referenced(f)
  BY SMTT(30), <1>1 DEF UnrefWrite, Referenced, InMailbox
<1>10. Referenced(x)' <=> refcount[x] # 1
  <2>1. refcount'[x] = refcount[x] - 1
    BY <1>1, <1>3, <1>4
  <2>2. pc'[Publisher] # "fill"
        \/ frame'[Publisher] # x
    BY <1>1 DEF UnrefWrite
  <2>3. refcount'[x] = PublisherRefs(x)' + (IF InMailbox(d, x)' THEN 1 ELSE 0)
                                         + (IF frame'[d] = x THEN 1 ELSE 0)
    BY <1>1 DEF RefCount
  <2>4. PublisherRefs(x)' \in 0 .. 2
        /\ (PublisherRefs(x)' > 0 <=> frame'[Publisher] = x)
    BY <2>2 DEF PublisherRefs
  <2>5. Referenced(x)' <=> \/ frame'[Publisher] = x \/ frame'[d] = x
                           \/ InMailbox(d, x)'
    BY DEF Referenced
  <2>6. Referenced(x)' <=> refcount'[x] > 0
    BY ONLY <2>3, <2>4, <2>5
  <2> QED BY <1>3, <2>1, <2>6
<1>11. CASE refcount[x] # 1
  <2>1. freeList' = freeList /\ poolIndex' = poolIndex
        /\ \A f \in Frames : Referenced(f)' <=> Referenced(f)
    BY <1>1, <1>7, <1>8, <1>9, <1>10, <1>11
  <2>2. Free' /\ Once'
    BY <2>1 DEF Free, Once
  <2>3. IndexKnown'
    BY <1>1, <2>1 DEF IndexKnown, UnrefWrite
  <2> QED BY <2>2, <2>3
<1>12. CASE refcount[x] = 1
  <2> DEFINE n == Len(freeList)
  <2>1. /\ freeList' = Append(freeList, x)
        /\ DOMAIN freeList = 1 .. n /\ n \in Nat
        /\ DOMAIN freeList' = 1 .. n + 1
        /\ \A i \in DOMAIN freeList : freeList'[i] = freeList[i]
        /\ freeList'[n + 1] = x
    <3>1. freeList' = Append(freeList, x) /\ freeList \in Seq(Frames)
          /\ \A i, j \in DOMAIN freeList : freeList[i] = freeList[j] => i = j
      BY <1>7, <1>12 DEF Once
    <3> QED BY ONLY <1>1, <1>5, <3>1, PushFacts
  <2>2. \A f \in Frames : Referenced(f)' <=> Referenced(f) /\ f # x
    BY <1>1, <1>9, <1>10, <1>12
  <2> HIDE DEF n
  <2>3. \A f \in Frames : (\E i \in DOMAIN freeList' : freeList'[i] = f)
                 <=> (\E i \in DOMAIN freeList : freeList[i] = f) \/ f = x
    BY ONLY <2>1
  <2>4. Free'
    BY ONLY <2>2, <2>3, Free, x \in Frames, <1>1 DEF Free
  <2>5. Once'
    BY ONLY <2>1, <1>5, Once DEF Once
  <2>6. IndexKnown'
    BY ONLY <1>1, <1>8, <1>12, <2>2, IndexKnown, UnrefWrite(t), t \in Threads,
       poolIndex \in [Frames -> Frames \cup {NoFrame}], TypeOK
    DEF IndexKnown, UnrefWrite, Goto, TypeOK, PublisherLabels, ConsumerLabels,
        Threads
  <2> QED BY <2>4, <2>5, <2>6
<1> QED
  BY <1>11, <1>12

LEMMA OwnUnrefWritePublisher ==
  ASSUME NEW d, Consumers = {d}, TypeOK, Control, Own(d), UnrefWrite(Publisher)
  PROVE  Own(d)'
<1> USE ThreadFacts DEF TypeOK, Control, LockOwners, Membership, Pointers,
        NoFreedConsumer, poolVars, lockVars, boxVars, callVars, visitVars,
        Goto, CallUnref, Own, Threads, PublisherLabels, ConsumerLabels
<1>1. RefCount(d)'
  <2> SUFFICES ASSUME NEW f \in Frames
               PROVE  (refcount[f] = PublisherRefs(f)
                          + (IF InMailbox(d, f) THEN 1 ELSE 0)
                          + (IF frame[d] = f THEN 1 ELSE 0))'
    BY DEF RefCount
  <2>0. /\ refcount[f] = PublisherRefs(f) + (IF InMailbox(d, f) THEN 1 ELSE 0)
                                          + (IF frame[d] = f THEN 1 ELSE 0)
        /\ PublisherRefs(f) \in 0 .. 2 /\ refcount[f] \in Int
    BY ONLY CountFact, TypeOK, Own(d), f \in Frames DEF Own
  <2>1. PublisherRefs(f)' = IF f = arg[Publisher] /\ ret[Publisher] = "idle"
                           THEN PublisherRefs(f) - 1 ELSE PublisherRefs(f)
    BY DEF UnrefWrite, PublisherRefs
  <2>2. InMailbox(d, f)' <=> InMailbox(d, f)
                             /\ ~(f = arg[Publisher] /\ ret[Publisher] = "install")
    BY DEF UnrefWrite, InMailbox
  <2>3. frame'[d] = f <=> frame[d] = f
    BY DEF UnrefWrite
  <2>5. f = arg[Publisher] /\ ret[Publisher] = "install" => InMailbox(d, f)
    BY DEF UnrefWrite, InMailbox
  <2>6. f = arg[Publisher] => reg[Publisher] = refcount[f] /\ refcount[f] > 0
    BY <2>0, <2>5 DEF UnrefWrite, CountCurrent, PublisherRefs
  <2>4. refcount'[f] = IF f = arg[Publisher] THEN refcount[f] - 1 ELSE refcount[f]
    BY <2>6 DEF UnrefWrite
  <2>7. ret[Publisher] \in {"idle", "install"}
    OBVIOUS
  <2> QED BY ONLY <2>0, <2>1, <2>2, <2>3, <2>4, <2>5, <2>7
<1>2. Free'
  BY <1>1, UnrefRecycles DEF Threads
<1>3. Once'
  BY <1>1, UnrefRecycles DEF Threads
<1>4. ContentStable'
  BY DEF UnrefWrite, ContentStable, Private, RefCount, Frees
<1>5. Private'
  BY DEF UnrefWrite, Private, Free, Referenced, InMailbox, Frees
<1>6. CountCurrent'
  BY DEF UnrefWrite, CountCurrent, Private, Frees
<1>7. IndexKnown'
  BY <1>1, UnrefRecycles DEF Threads
<1> QED BY <1>1, <1>2, <1>3, <1>4, <1>5, <1>6, <1>7

LEMMA OwnUnrefWriteConsumer ==
  ASSUME NEW d, Consumers = {d}, TypeOK, Control, Own(d), UnrefWrite(d)
  PROVE  Own(d)'
<1> USE ThreadFacts DEF TypeOK, Control, LockOwners, Membership, Pointers,
        NoFreedConsumer, poolVars, lockVars, boxVars, callVars, visitVars,
        Goto, CallUnref, Own, Threads, PublisherLabels, ConsumerLabels
<1>1. RefCount(d)'
  <2> SUFFICES ASSUME NEW f \in Frames
               PROVE  (refcount[f] = PublisherRefs(f)
                          + (IF InMailbox(d, f) THEN 1 ELSE 0)
                          + (IF frame[d] = f THEN 1 ELSE 0))'
    BY DEF RefCount
  <2>0. /\ refcount[f] = PublisherRefs(f) + (IF InMailbox(d, f) THEN 1 ELSE 0)
                                          + (IF frame[d] = f THEN 1 ELSE 0)
        /\ PublisherRefs(f) \in 0 .. 2 /\ refcount[f] \in Int
    BY ONLY CountFact, TypeOK, Own(d), f \in Frames DEF Own
  <2>1. PublisherRefs(f)' = PublisherRefs(f)
    BY DEF UnrefWrite, PublisherRefs
  <2>2. InMailbox(d, f)' <=> InMailbox(d, f) /\ ~(f = arg[d] /\ ret[d] = "gone")
    BY DEF UnrefWrite, InMailbox
  <2>3. frame'[d] = f <=> frame[d] = f /\ ~(f = arg[d] /\ ret[d] = "idle")
    BY DEF UnrefWrite
  <2>5. /\ f = arg[d] /\ ret[d] = "gone" => InMailbox(d, f)
        /\ f = arg[d] /\ ret[d] = "idle" => frame[d] = f
    BY DEF UnrefWrite, InMailbox
  <2>6. ret[d] \in {"idle", "gone"}
    OBVIOUS
  <2>7. f = arg[d] => reg[d] = refcount[f] /\ refcount[f] > 0
    <3>1. f = arg[d] => refcount[f] > 0
      BY ONLY <2>0, <2>5, <2>6
    <3>2. f = arg[d] => reg[d] = refcount[f]
      BY DEF UnrefWrite, CountCurrent
    <3> QED BY ONLY <3>1, <3>2
  <2>4. refcount'[f] = IF f = arg[d] THEN refcount[f] - 1 ELSE refcount[f]
    BY <2>7 DEF UnrefWrite
  <2> QED BY ONLY <2>0, <2>1, <2>2, <2>3, <2>4, <2>5, <2>6
<1>2. Free'
  BY <1>1, UnrefRecycles DEF Threads
<1>3. Once'
  BY <1>1, UnrefRecycles DEF Threads
<1>4. ContentStable'
  BY DEF UnrefWrite, ContentStable, Private, RefCount, Frees
<1>5. Private'
  BY DEF UnrefWrite, Private, Free, Referenced, InMailbox, Frees
<1>6. CountCurrent'
  BY DEF UnrefWrite, CountCurrent, Private, Frees
<1>7. IndexKnown'
  BY <1>1, UnrefRecycles DEF Threads
<1> QED BY <1>1, <1>2, <1>3, <1>4, <1>5, <1>6, <1>7

-----------------------------------------------------------------------------

\* A set with at most one member has that many.
LEMMA AtMostOne ==
  ASSUME NEW d, NEW S \in SUBSET {d}
  PROVE  Cardinality(S) = IF d \in S THEN 1 ELSE 0
<1>1. CASE d \in S
  BY <1>1, S = {d}, FS_Singleton
<1>2. CASE d \notin S
  BY <1>2, S = {}, FS_EmptySet
<1> QED
  BY <1>1, <1>2

\* Ownership and its easier part say the same of a single consumer.
LEMMA OwnershipOfOne ==
  ASSUME NEW d, Consumers = {d}
  PROVE  Ownership <=> Own(d)
<1>1. ASSUME NEW f \in Frames
      PROVE  /\ Cardinality({c \in Consumers : InMailbox(c, f)})
                  = IF InMailbox(d, f) THEN 1 ELSE 0
             /\ Cardinality({c \in Consumers : frame[c] = f})
                  = IF frame[d] = f THEN 1 ELSE 0
  <2>1. /\ {c \in Consumers : InMailbox(c, f)} \in SUBSET {d}
        /\ {c \in Consumers : frame[c] = f} \in SUBSET {d}
        /\ d \in {c \in Consumers : InMailbox(c, f)} <=> InMailbox(d, f)
        /\ d \in {c \in Consumers : frame[c] = f} <=> frame[d] = f
    OBVIOUS
  <2> QED BY <2>1, AtMostOne
<1>2. RefcountExact <=> RefCount(d)
  BY <1>1 DEF RefcountExact, RefCount, References
<1> QED
  BY <1>2 DEF Ownership, Own, FreeExactly, Free, Once

\* Init establishes the data part of the invariant.
LEMMA OwnInit ==
  ASSUME NEW d, Consumers = {d}
  PROVE  Init => Own(d)
<1> SUFFICES ASSUME Init PROVE Own(d)
  OBVIOUS
<1> USE ThreadFacts DEF Init, Threads
<1>1. \A f \in Frames : ~Referenced(f)
  BY DEF Referenced, InMailbox
<1>2. DOMAIN freeList = 1 .. PoolCount
      /\ \A i \in 1 .. PoolCount : freeList[i] = i - 1
  OBVIOUS
<1>3. Free
  <2>1. ASSUME NEW f \in Frames PROVE \E i \in DOMAIN freeList : freeList[i] = f
    <3>1. f \in Int /\ f + 1 \in 1 .. PoolCount
      BY PoolAssumption DEF Frames
    <3>2. PICK i \in 1 .. PoolCount : i - 1 = f
      BY <3>1
    <3> QED BY <1>2, <3>2
  <2> QED BY <1>1, <2>1 DEF Free
<1>4. Once
  BY <1>2 DEF Once
<1>5. RefCount(d) /\ ContentStable /\ Private /\ CountCurrent /\ IndexKnown
  BY DEF RefCount, PublisherRefs, InMailbox, ContentStable, Private,
     CountCurrent, IndexKnown, Referenced
<1> QED
  BY <1>3, <1>4, <1>5 DEF Own

\* Every step preserves it.
LEMMA OwnStep ==
  ASSUME NEW d, Consumers = {d}
  PROVE  TypeOK /\ Control /\ Own(d) /\ [Next]_vars => Own(d)'
<1> SUFFICES ASSUME TypeOK, Control, Own(d), [Next]_vars PROVE Own(d)'
  OBVIOUS
<1>1. CASE UNCHANGED vars
  BY <1>1 DEF vars, poolVars, lockVars, boxVars, callVars, visitVars, Own,
     RefCount, PublisherRefs, InMailbox, Free, Once, Referenced, ContentStable,
     Private, CountCurrent, IndexKnown
<1>2. CASE Next
  BY <1>1, <1>2,
     OwnPublishExhausted, OwnAcquire, OwnFill, OwnPublishLock, OwnVisit,
     OwnRefRead, OwnRefWrite, OwnInstall, OwnPublishUnlock, OwnSubscribe,
     OwnTake, OwnRelease, OwnUnsubscribeLock, OwnUnlink,
     OwnUnrefReadPublisher, OwnUnrefReadConsumer, OwnUnrefWritePublisher,
     OwnUnrefWriteConsumer
  DEF Next, Publish, Consume, Done, Threads
<1> QED
  BY <1>1, <1>2

\* One consumer: counts are exact, free buffers are the unreferenced ones, a
\* frame is stable under its reader (frame_pool.c's frame_ref comment).
THEOREM OwnershipCorrect ==
  ASSUME SingleConsumer
  PROVE  Spec => []Ownership
<1>0. PICK d : Consumers = {d}
  BY DEF SingleConsumer
<1>1. Init => TypeOK /\ Control /\ Own(d)
  BY <1>0, TypeInit, ControlInit, OwnInit
<1>2. TypeOK /\ Control /\ Own(d) /\ [Next]_vars
        => (TypeOK /\ Control /\ Own(d))'
  BY <1>0, TypeStep, ControlStep, OwnStep
<1>3. Own(d) => Ownership
  BY <1>0, OwnershipOfOne
<1> QED
  BY <1>1, <1>2, <1>3, PTL DEF Spec

\* The three properties a reader of the code cares about follow.
THEOREM FreedExactlyOnce ==
  ASSUME SingleConsumer
  PROVE  Spec => [](RefcountExact /\ FreeExactly /\ ContentStable)
<1>1. Ownership => RefcountExact /\ FreeExactly /\ ContentStable
  BY DEF Ownership
<1> QED
  BY <1>1, OwnershipCorrect, PTL

-----------------------------------------------------------------------------
(* The mailbox is a keep-newest register, and holds the newest picture.    *)

\* The frame with the current number has not been delivered.
Pending == pc[Publisher] = "idle" \/ Undelivered

\* No picture is newer than the one under way.
Filled ==
  /\ pc[Publisher] \notin {"idle", "fill"}
       => content[frame[Publisher]] = sequence
  /\ \A f \in Frames : content[f] <= sequence

\* The picture of f is still to be delivered.
Ahead(f) ==
  pc[Publisher] \notin {"idle", "fill"} /\ Undelivered /\ f = frame[Publisher]

\* What consumer d has, or is about to take, is older than a frame that is
\* still to be delivered.
Older(d) ==
  /\ got[d] <= sequence /\ (Pending => got[d] < sequence)
  /\ slot[d] # NoFrame => /\ content[slot[d]] <= sequence
                          /\ Pending => content[slot[d]] < sequence

\* The mailbox holds the newest picture of those that were delivered.
Fresh(d) ==
  active[d] /\ slot[d] # NoFrame =>
    \A f \in Frames : Ahead(f) \/ content[f] <= content[slot[d]]

Newer(d) == Filled /\ Older(d) /\ Fresh(d)

\* A buffer that neither waits nor is in use is free while the source is idle.
LEMMA UnusedIsFree ==
  ASSUME NEW d, Consumers = {d}, Control, Own(d), pc[Publisher] = "idle",
         NEW f \in Frames, f # slot[d], f # frame[d]
  PROVE  freeList # <<>>
<1>1. frame[Publisher] = NoFrame
  BY DEF Control, Pointers
<1>2. ~Referenced(f)
  BY <1>1, ThreadFacts DEF Referenced, InMailbox, Threads
<1>3. PICK i \in DOMAIN freeList : freeList[i] = f
  BY <1>2 DEF Own, Free
<1> QED
  BY <1>3

\* A step that moves nothing of all this.
LEMMA NewerStill ==
  ASSUME NEW d, Newer(d), UNCHANGED <<content, slot, got, sequence>>,
         frame'[Publisher] = frame[Publisher], Pending' <=> Pending,
         pc'[Publisher] \in {"idle", "fill"}
           <=> pc[Publisher] \in {"idle", "fill"},
         active'[d] => active[d] \/ slot[d] = NoFrame
  PROVE  Newer(d)'
<1>1. Filled' /\ Older(d)'
  BY DEF Newer, Filled, Older
<1>2. ASSUME NEW f \in Frames, Ahead(f) PROVE Ahead(f)'
  BY <1>2 DEF Ahead, Pending
<1>3. Fresh(d)'
  BY <1>2 DEF Newer, Fresh
<1> QED
  BY <1>1, <1>3 DEF Newer

\* The publisher.
LEMMA NewerPublish ==
  ASSUME NEW d, Consumers = {d}, TypeOK, Control, Own(d), Newer(d), Publish
  PROVE  Newer(d)'
<1> USE ThreadFacts DEF Goto, CallUnref, poolVars, lockVars, boxVars, callVars,
        visitVars
<1>0. /\ sequence \in Nat /\ got[d] \in Int /\ content \in [Frames -> Nat]
      /\ slot[d] \in Frames \cup {NoFrame}
      /\ pc \in [Threads -> PublisherLabels \cup ConsumerLabels]
      /\ frame[Publisher] \in Frames \cup {NoFrame}
      /\ slot \in [Consumers -> Frames \cup {NoFrame}]
      /\ frame \in [Threads -> Frames \cup {NoFrame}]
  BY DEF TypeOK
<1>1. CASE PublishExhausted
  <2>1. /\ sequence' = sequence + 1 /\ pc' = pc /\ pc[Publisher] = "idle"
        /\ UNCHANGED <<content, slot, got, active>>
    BY <1>1 DEF PublishExhausted
  <2> QED
    BY <1>0, <2>1 DEF Newer, Filled, Older, Fresh, Ahead, Pending
<1>2. CASE Acquire
  <2>1. /\ pc[Publisher] = "idle" /\ pc'[Publisher] = "fill"
        /\ UNCHANGED <<content, slot, got, active, sequence>>
    BY <1>0, <1>2 DEF Acquire
  <2> QED
    BY <2>1 DEF Newer, Filled, Older, Fresh, Ahead, Pending
<1>3. CASE Fill
  <2>1. /\ pc[Publisher] = "fill" /\ pc'[Publisher] = "hubLock"
        /\ content' = [content EXCEPT ![frame[Publisher]] = sequence]
        /\ UNCHANGED <<slot, got, active, sequence, frame>>
    BY <1>0, <1>3 DEF Fill
  <2>2. frame[Publisher] \in Frames /\ slot[d] # frame[Publisher]
    BY <1>0, <2>1 DEF Control, Pointers, Own, Private
  <2>3. Pending /\ Pending' /\ Filled'
    <3>1. Pending /\ Pending'
      BY <2>1 DEF Pending
    <3>2. \A f \in Frames : content[f] <= sequence
      BY DEF Newer, Filled
    <3>3. \A f \in Frames : content'[f] <= sequence
      BY <1>0, <2>1, <2>2, <3>2
    <3>4. content'[frame[Publisher]] = sequence
      BY <1>0, <2>1, <2>2
    <3> QED
      BY <2>1, <3>1, <3>3, <3>4 DEF Filled
  <2>4. slot[d] # NoFrame => content'[slot[d]] = content[slot[d]]
    BY <1>0, <2>1, <2>2
  <2>5. Older(d)'
    BY <2>1, <2>3, <2>4 DEF Newer, Older
  <2>6. \A f \in Frames \ {frame[Publisher]} : content'[f] = content[f]
    BY <1>0, <2>1
  <2>7. Ahead(frame[Publisher])' /\ \A f \in Frames : ~Ahead(f)
    BY <1>0, <2>1 DEF Ahead
  <2>8. Fresh(d)'
    BY <1>0, <2>1, <2>2, <2>4, <2>6, <2>7 DEF Newer, Fresh
  <2> QED
    BY <2>3, <2>5, <2>8 DEF Newer
<1>4. CASE PublishLock
  <2>1. /\ pc[Publisher] = "hubLock" /\ pc'[Publisher] = "deliver"
        /\ todo' = list
        /\ UNCHANGED <<content, slot, got, active, sequence, frame>>
    BY <1>0, <1>4 DEF PublishLock
  <2>2. Pending /\ (active[d] => Undelivered')
    BY <2>1 DEF Pending, Control, Membership
  <2> QED
    BY <2>1, <2>2 DEF Newer, Filled, Older, Fresh, Ahead
<1>5. ASSUME NEW c \in Consumers, Visit(c) PROVE Newer(d)'
  <2>1. active[c]
    BY <1>5 DEF Visit, Control, Membership, NoFreedConsumer
  <2>2. /\ pc[Publisher] = "deliver" /\ pc'[Publisher] = "ref" /\ todo # {}
        /\ UNCHANGED <<content, slot, got, active, sequence, frame>>
    BY <1>0, <1>5, <2>1 DEF Visit
  <2> QED
    BY <2>2, NewerStill DEF Pending
<1>6. CASE RefRead
  <2>1. /\ pc[Publisher] = "ref" /\ pc'[Publisher] = "refWrite"
        /\ UNCHANGED <<content, slot, got, active, sequence, frame>>
    BY <1>0, <1>6 DEF RefRead
  <2> QED
    BY <2>1, NewerStill DEF Pending
<1>7. CASE RefWrite
  <2>1. /\ pc[Publisher] = "refWrite"
        /\ \/ pc'[Publisher] = "install"
           \/ pc'[Publisher] = "unref" /\ ret'[Publisher] = "install"
        /\ UNCHANGED <<content, slot, got, active, sequence, frame>>
    BY <1>0, <1>7 DEF RefWrite, TypeOK
  <2> QED
    BY <2>1, NewerStill DEF Pending
<1>8. CASE Install
  <2>1. /\ pc[Publisher] = "install" /\ pc'[Publisher] = "deliver"
        /\ slot' = [slot EXCEPT ![target] = frame[Publisher]]
        /\ UNCHANGED <<content, got, active, sequence, frame, todo>>
    BY <1>0, <1>8 DEF Install
  <2>2. target = d /\ todo = {} /\ content[frame[Publisher]] = sequence
    BY <2>1 DEF Control, NoFreedConsumer, TypeOK, Own, Private, Newer, Filled
  <2>3. slot'[d] = frame[Publisher] /\ ~Pending'
    BY <1>0, <2>1, <2>2 DEF Pending
  <2> QED
    BY <1>0, <2>1, <2>2, <2>3 DEF Newer, Filled, Older, Fresh, Ahead
<1>9. CASE PublishUnlock
  <2>1. /\ pc[Publisher] = "deliver" /\ pc'[Publisher] = "unref"
        /\ ret'[Publisher] = "idle" /\ todo = {}
        /\ UNCHANGED <<content, slot, got, active, sequence, frame>>
    BY <1>0, <1>9 DEF PublishUnlock, TypeOK
  <2> QED
    BY <2>1, NewerStill DEF Pending
<1> QED
  BY <1>1, <1>2, <1>3, <1>4, <1>5, <1>6, <1>7, <1>8, <1>9 DEF Publish

\* The consumer leaves the publisher's place alone.
LEMMA NewerConsume ==
  ASSUME NEW d, Consumers = {d}, TypeOK, Control, Own(d), Newer(d), Consume(d)
  PROVE  Newer(d)'
<1> USE ThreadFacts DEF Goto, CallUnref, poolVars, lockVars, boxVars, callVars,
        visitVars
<1>1. /\ pc'[Publisher] = pc[Publisher] /\ todo' = todo
      /\ ret'[Publisher] = ret[Publisher] /\ content' = content
      /\ sequence' = sequence /\ frame'[Publisher] = frame[Publisher]
  BY DEF Consume, Subscribe, Take, Release, UnsubscribeLock, Unlink, TypeOK
<1>2. Pending' <=> Pending
  BY <1>1 DEF Pending
<1>3. CASE Take(d)
  <2>1. /\ slot'[d] = NoFrame
        /\ got'[d] = IF slot[d] = NoFrame THEN got[d] ELSE content[slot[d]]
    BY <1>3 DEF Take, TypeOK
  <2> QED
    BY <1>1, <1>2, <2>1 DEF Newer, Filled, Older, Fresh, Ahead, Pending
<1>4. CASE ~Take(d)
  <2>1. UNCHANGED <<slot, got>>
    BY <1>4 DEF Consume, Subscribe, Release, UnsubscribeLock, Unlink
  <2>2. active'[d] => active[d] \/ slot[d] = NoFrame
    BY <1>4 DEF Consume, Subscribe, Release, UnsubscribeLock, Unlink, TypeOK,
                Control, Membership
  <2> QED
    BY <1>1, <1>2, <2>1, <2>2, NewerStill
<1> QED
  BY <1>3, <1>4

\* The end of frame_unref.
LEMMA NewerUnref ==
  ASSUME NEW d, Consumers = {d}, TypeOK, Control, Own(d), Newer(d),
         NEW t \in Threads, UnrefRead(t) \/ UnrefWrite(t)
  PROVE  Newer(d)'
<1> USE ThreadFacts DEF Goto, poolVars, lockVars, boxVars, callVars, visitVars
<1>1. UNCHANGED <<content, got, active, todo, ret>>
  BY DEF UnrefRead, UnrefWrite
<1>2. CASE UnrefRead(t)
  <2>1. UNCHANGED <<slot, sequence, frame>>
    BY <1>2 DEF UnrefRead
  <2>2. \/ pc'[Publisher] = pc[Publisher]
        \/ pc[Publisher] = "unref" /\ pc'[Publisher] = "unrefWrite"
    BY <1>2 DEF UnrefRead, TypeOK
  <2> QED
    BY <1>1, <2>1, <2>2, NewerStill DEF Pending
<1>3. CASE UnrefWrite(t) /\ t = Publisher
  <2>1. pc[Publisher] = "unrefWrite" /\ pc'[Publisher] = ret[Publisher]
        /\ ret[Publisher] \in {"idle", "install"}
    BY <1>3 DEF UnrefWrite, TypeOK
  <2>2. slot' = slot
    BY <1>3, <2>1 DEF UnrefWrite
  <2>3. CASE ret[Publisher] = "install"
    <3>1. UNCHANGED <<sequence, frame>>
      BY <1>3, <2>3 DEF UnrefWrite
    <3> QED
      BY <1>1, <2>1, <2>2, <2>3, <3>1, NewerStill DEF Pending
  <2>4. CASE ret[Publisher] = "idle"
    <3>1. sequence' = sequence + 1
      BY <1>3, <2>4 DEF UnrefWrite
    <3>2. ~Pending /\ Pending' /\ pc'[Publisher] = "idle"
      BY <2>1, <2>4 DEF Pending
    <3>3. /\ sequence \in Nat /\ got[d] \in Int
          /\ slot[d] # NoFrame => content[slot[d]] \in Nat
          /\ \A f \in Frames : content[f] \in Nat
      BY DEF TypeOK
    <3>4. \A f \in Frames : content[f] <= sequence + 1
      BY <3>3 DEF Newer, Filled
    <3>5. Filled'
      BY <1>1, <3>1, <3>2, <3>4 DEF Filled
    <3>6. Older(d)'
      BY <1>1, <2>2, <3>1, <3>2, <3>3 DEF Newer, Older
    <3>7. \A f \in Frames : ~Ahead(f)
      BY <3>2 DEF Pending, Ahead
    <3>8. Fresh(d)'
      BY <1>1, <2>2, <3>7 DEF Newer, Fresh
    <3> QED
      BY <3>5, <3>6, <3>8 DEF Newer
  <2> QED
    BY <2>1, <2>3, <2>4
<1>4. CASE UnrefWrite(t) /\ t = d
  <2>1. /\ sequence' = sequence /\ frame'[Publisher] = frame[Publisher]
        /\ pc'[Publisher] = pc[Publisher] /\ slot'[d] \in {slot[d], NoFrame}
    BY <1>4 DEF UnrefWrite, TypeOK
  <2>2. Pending' <=> Pending
    BY <1>1, <2>1 DEF Pending
  <2> QED
    BY <1>1, <2>1, <2>2 DEF Newer, Filled, Older, Fresh, Ahead, Pending
<1> QED
  BY <1>2, <1>3, <1>4 DEF Threads

LEMMA NewerInit ==
  ASSUME NEW d, Consumers = {d}
  PROVE  Init => Newer(d)
BY ThreadFacts DEF Init, Newer, Filled, Older, Fresh, Ahead, Pending

LEMMA NewerStep ==
  ASSUME NEW d, Consumers = {d}
  PROVE  TypeOK /\ Control /\ Own(d) /\ Newer(d) /\ [Next]_vars => Newer(d)'
<1> SUFFICES ASSUME TypeOK, Control, Own(d), Newer(d), [Next]_vars
             PROVE  Newer(d)'
  OBVIOUS
<1>1. CASE UNCHANGED vars
  BY <1>1, NewerStill
  DEF vars, poolVars, lockVars, boxVars, callVars, visitVars, Pending
<1>2. CASE Next
  BY <1>1, <1>2, NewerPublish, NewerConsume, NewerUnref DEF Next, Done
<1> QED
  BY <1>1, <1>2

\* With one consumer, all of it at once.
Whole(d) == TypeOK /\ Control /\ Own(d) /\ Newer(d)

LEMMA WholeAlways ==
  ASSUME NEW d, Consumers = {d}
  PROVE  Spec => []Whole(d)
<1>1. Init => Whole(d)
  BY TypeInit, ControlInit, OwnInit, NewerInit DEF Whole
<1>2. Whole(d) /\ [Next]_vars => Whole(d)'
  BY TypeStep, ControlStep, OwnStep, NewerStep DEF Whole
<1> QED
  BY <1>1, <1>2, PTL DEF Spec

\* A frame is dropped only for want of a buffer that the consumer neither uses
\* nor has waiting: with three, which is fewer than the programs have, none is.
THEOREM NeverDropsInVain ==
  ASSUME SingleConsumer
  PROVE  Spec => []DropsOnlyWhenHeld
<1>0. PICK d : Consumers = {d}
  BY DEF SingleConsumer
<1>1. Whole(d) => DropsOnlyWhenHeld
  <2> DEFINE Waiting == {c \in Consumers : slot[c] # NoFrame}
             Using   == {c \in Consumers : frame[c] # NoFrame}
  <2> SUFFICES ASSUME Whole(d), pc[Publisher] = "idle", freeList = <<>>
               PROVE  PoolCount <= Cardinality(Waiting) + Cardinality(Using)
    BY DEF DropsOnlyWhenHeld
  <2>1. \A f \in Frames : f = slot[d] \/ f = frame[d]
    BY <1>0, UnusedIsFree DEF Whole
  <2>2. /\ Cardinality(Waiting) = IF slot[d] # NoFrame THEN 1 ELSE 0
        /\ Cardinality(Using) = IF frame[d] # NoFrame THEN 1 ELSE 0
    <3>1. Waiting \in SUBSET {d} /\ Using \in SUBSET {d}
      BY <1>0
    <3>2. /\ d \in Waiting <=> slot[d] # NoFrame
          /\ d \in Using <=> frame[d] # NoFrame
      BY <1>0
    <3> QED
      BY <3>1, <3>2, AtMostOne
  <2>3. CASE slot[d] # NoFrame /\ frame[d] # NoFrame
    <3>1. ASSUME PoolCount > 2 PROVE FALSE
      <4>1. {0, 1, 2} \subseteq Frames
        BY <3>1, PoolAssumption DEF Frames
      <4> QED
        BY <2>1, <4>1
    <3> QED
      BY <2>2, <2>3, <3>1, PoolAssumption
  <2>4. CASE slot[d] = NoFrame \/ frame[d] = NoFrame
    <3>1. ASSUME PoolCount > 1 PROVE slot[d] # NoFrame /\ frame[d] # NoFrame
      <4>1. {0, 1} \subseteq Frames
        BY <3>1, PoolAssumption DEF Frames
      <4> QED
        BY <2>1, <4>1 DEF NoFrame
    <3>2. slot[d] # NoFrame \/ frame[d] # NoFrame
      <4>1. 0 \in Frames
        BY PoolAssumption DEF Frames
      <4> QED
        BY <2>1, <4>1 DEF NoFrame
    <3> QED
      BY <2>2, <2>4, <3>1, <3>2, PoolAssumption
  <2> QED
    BY <2>3, <2>4
<1> QED
  BY <1>0, <1>1, WholeAlways, PTL

\* What waits between two publishes is the newest picture there is.
THEOREM NewestWaits ==
  ASSUME SingleConsumer
  PROVE  Spec => []Freshest
<1>0. PICK d : Consumers = {d}
  BY DEF SingleConsumer
<1>1. Whole(d) => Freshest
  BY <1>0 DEF Whole, Newer, Fresh, Ahead, Freshest
<1> QED
  BY <1>0, <1>1, WholeAlways, PTL

\* Consumer and mailbox are the register of KeepNewest: frame_hub_publish
\* replaces what was not taken by something newer, and by nothing else.
THEOREM HubKeepsNewest ==
  ASSUME SingleConsumer
  PROVE  Spec => KeepsNewest
<1>0. PICK d : Consumers = {d}
  BY DEF SingleConsumer
<1> DEFINE Box == [c \in Consumers |-> IF slot[c] = NoFrame THEN -1
                                      ELSE content[slot[c]]]
<1>1. Init => Mailboxes!Init
  BY <1>0 DEF Init, Mailboxes!Init
<1>2. Whole(d) /\ [Next]_vars => [Mailboxes!Next]_<<Box, got>>
  <2> SUFFICES ASSUME TypeOK, Control, Own(d), Newer(d), [Next]_vars
               PROVE  Mailboxes!Next \/ UNCHANGED <<Box, got>>
    BY DEF Whole
  <2> USE ThreadFacts DEF Goto, CallUnref, poolVars, lockVars, boxVars,
          callVars, visitVars
  <2>0. /\ content \in [Frames -> Nat] /\ slot \in [Consumers -> Int]
        /\ slot[d] \in Frames \cup {NoFrame} /\ got \in [Consumers -> Int]
        /\ sequence \in Nat /\ frame[Publisher] \in Frames \cup {NoFrame}
    BY <1>0 DEF TypeOK, Frames, NoFrame
  <2>1. ASSUME UNCHANGED <<content, slot, got>> PROVE UNCHANGED <<Box, got>>
    BY <2>1
  <2>2. CASE Fill
    <3>1. slot[d] # frame[Publisher]
      BY <1>0, <2>2 DEF Fill, Own, Private
    <3>2. slot[d] # NoFrame => content'[slot[d]] = content[slot[d]]
      BY <2>0, <2>2, <3>1 DEF Fill
    <3> QED
      BY <1>0, <2>2, <3>2 DEF Fill
  <2>3. CASE Install
    <3>1. target = d /\ pc[Publisher] = "install"
      BY <1>0, <2>3 DEF Install, Control, NoFreedConsumer, TypeOK
    <3>2. frame[Publisher] \in Frames /\ content[frame[Publisher]] = sequence
      BY <2>0, <3>1 DEF Control, Pointers, Newer, Filled
    <3>3. /\ slot' = [slot EXCEPT ![d] = frame[Publisher]]
          /\ UNCHANGED <<content, got>>
      BY <2>3, <3>1 DEF Install
    <3>4. Box'[d] = sequence /\ Box'[d] > Box[d] /\ Box'[d] > got[d]
      BY <1>0, <2>0, <3>1, <3>2, <3>3 DEF Newer, Older, Pending, NoFrame
    <3>5. Box' = [Box EXCEPT ![d] = Box'[d]]
      BY <1>0
    <3> QED
      BY <1>0, <3>3, <3>4, <3>5 DEF Mailboxes!Next, Mailboxes!Deliver
  <2>4. CASE Take(d) /\ slot[d] # NoFrame
    <3>1. /\ Box[d] = content[slot[d]] /\ Box[d] # -1
          /\ got' = [got EXCEPT ![d] = Box[d]] /\ content' = content
          /\ slot' = [slot EXCEPT ![d] = NoFrame]
      BY <1>0, <2>0, <2>4 DEF Take
    <3>2. Box' = [Box EXCEPT ![d] = -1]
      BY <1>0, <2>0, <3>1
    <3> QED
      BY <1>0, <3>1, <3>2 DEF Mailboxes!Next, Mailboxes!Take
  <2>5. CASE UnrefWrite(d) /\ ret[d] = "gone"
    <3>1. slot[d] # NoFrame
      BY <1>0, <2>5 DEF UnrefWrite, Control, Pointers, Threads
    <3>2. /\ UNCHANGED <<content, got>>
          /\ slot' = [slot EXCEPT ![d] = NoFrame]
      BY <2>5 DEF UnrefWrite
    <3>3. Box[d] = content[slot[d]] /\ Box[d] # -1
      BY <1>0, <2>0, <3>1
    <3>4. Box' = [Box EXCEPT ![d] = -1]
      BY <1>0, <2>0, <3>2
    <3> QED
      BY <1>0, <3>2, <3>3, <3>4 DEF Mailboxes!Next, Mailboxes!Discard
  <2>6. CASE \/ PublishExhausted \/ Acquire \/ PublishLock \/ RefRead
             \/ RefWrite \/ PublishUnlock
             \/ \E c \in Consumers : Visit(c)
    BY <2>1, <2>6 DEF PublishExhausted, Acquire, PublishLock, RefRead,
                      RefWrite, PublishUnlock, Visit
  <2>7. CASE Consume(d) /\ ~(Take(d) /\ slot[d] # NoFrame)
    <3>1. UNCHANGED <<content, got>> /\ slot' = slot
      BY <1>0, <2>0, <2>7 DEF Consume, Subscribe, Take, Release, UnsubscribeLock,
                              Unlink
    <3> QED
      BY <2>1, <3>1
  <2>8. CASE \E t \in Threads :
               UnrefRead(t) \/ (UnrefWrite(t) /\ (t = d => ret[d] # "gone"))
    <3>1. UNCHANGED <<content, got>> /\ slot' = slot
      BY <1>0, <2>8 DEF UnrefRead, UnrefWrite, Threads, TypeOK
    <3> QED
      BY <2>1, <3>1
  <2>9. CASE UNCHANGED vars
    BY <2>1, <2>9 DEF vars
  <2>10. CASE Publish
    BY <2>2, <2>3, <2>6, <2>10 DEF Publish
  <2>11. CASE Consume(d)
    BY <2>4, <2>7, <2>11
  <2>12. ASSUME NEW t \in Threads, UnrefRead(t) \/ UnrefWrite(t)
         PROVE  Mailboxes!Next \/ UNCHANGED <<Box, got>>
    <3>1. ASSUME UnrefWrite(t), t = d, ret[d] = "gone"
          PROVE  Mailboxes!Next \/ UNCHANGED <<Box, got>>
      BY <2>5, <3>1
    <3>2. CASE ~(UnrefWrite(t) /\ t = d /\ ret[d] = "gone")
      <4>1. UnrefRead(t) \/ (UnrefWrite(t) /\ (t = d => ret[d] # "gone"))
        BY <2>12, <3>2
      <4> QED
        BY <2>8, <4>1
    <3> QED
      BY <3>1, <3>2
  <2> QED
    BY <1>0, <2>9, <2>10, <2>11, <2>12 DEF Next, Done
<1> QED
  BY <1>0, <1>1, <1>2, WholeAlways, PTL
  DEF Spec, KeepsNewest, Mailboxes!Spec
=============================================================================
