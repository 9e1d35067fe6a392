-------------------------- MODULE JanusSenderProofs --------------------------
(***************************************************************************)
(* The ring of access units, for any number of slots, any capacities and   *)
(* any contents: it implements the drop-oldest queue.  Then the thread of  *)
(* the Janus sender, for any units, any number of sequence numbers and any *)
(* losses: seen from the ring, the encode thread and that thread are the   *)
(* writer and the reader AuRing specifies, and what its packets give a     *)
(* receiver is whole.                                                      *)
(***************************************************************************)
EXTENDS JanusSender, SequenceTheorems, WellFoundedInduction, TLAPS

-----------------------------------------------------------------------------
(* The ring.                                                               *)

\* Indices wrap at most once: % is a conditional subtraction.
LEMMA Wrap ==
  ASSUME NEW h \in Index, NEW i \in 0 .. Slots
  PROVE  (h + i) % Slots = IF h + i < Slots THEN h + i ELSE h + i - Slots
  BY RingAssumption, SMT DEF Index

\* The i-th slot after head h: a slot, the one before the (i+1)-th.
LEMMA Walk ==
  ASSUME NEW h \in Index, NEW i \in 0 .. Slots - 1
  PROVE  /\ (h + i) % Slots \in Index
         /\ After(h) \in Index
         /\ After((h + i) % Slots) = (h + (i + 1)) % Slots
         /\ (After(h) + i) % Slots = (h + (i + 1)) % Slots
  <1>1. i \in 0 .. Slots /\ i + 1 \in 0 .. Slots /\ 1 \in 0 .. Slots
    BY RingAssumption
  <1>2. After(h) = IF h + 1 < Slots THEN h + 1 ELSE h + 1 - Slots
    BY <1>1, Wrap DEF After
  <1>3. After(h) \in Index
    BY <1>2, RingAssumption DEF Index
  <1>4. (h + i) % Slots = IF h + i < Slots THEN h + i ELSE h + i - Slots
    BY <1>1, Wrap
  <1>5. (h + i) % Slots \in Index
    BY <1>4, RingAssumption DEF Index
  <1>6. (h + (i + 1)) % Slots
          = IF h + (i + 1) < Slots THEN h + (i + 1) ELSE h + (i + 1) - Slots
    BY <1>1, Wrap
  <1>7. (After(h) + i) % Slots
          = IF After(h) + i < Slots THEN After(h) + i ELSE After(h) + i - Slots
    BY <1>1, <1>3, Wrap
  <1>8. (((h + i) % Slots) + 1) % Slots
          = IF ((h + i) % Slots) + 1 < Slots THEN ((h + i) % Slots) + 1
            ELSE ((h + i) % Slots) + 1 - Slots
    BY <1>1, <1>5, Wrap
  <1>9. After((h + i) % Slots) = (h + (i + 1)) % Slots
    BY <1>4, <1>6, <1>8, RingAssumption DEF After, Index
  <1>10. (After(h) + i) % Slots = (h + (i + 1)) % Slots
    BY <1>2, <1>6, <1>7, RingAssumption DEF Index
  <1> QED
    BY <1>3, <1>5, <1>9, <1>10

\* Two units held are in different slots.
LEMMA Apart ==
  ASSUME NEW h \in Index, NEW i \in 0 .. Slots - 1, NEW j \in 0 .. Slots - 1,
         (h + i) % Slots = (h + j) % Slots
  PROVE  i = j
  <1>1. i \in 0 .. Slots /\ j \in 0 .. Slots
    BY RingAssumption
  <1>2. (h + i) % Slots = IF h + i < Slots THEN h + i ELSE h + i - Slots
    BY <1>1, Wrap
  <1>3. (h + j) % Slots = IF h + j < Slots THEN h + j ELSE h + j - Slots
    BY <1>1, Wrap
  <1> QED
    BY <1>2, <1>3, RingAssumption DEF Index

\* The first unit held is at the head, and a full ring ends where it begins.
LEMMA Ends ==
  ASSUME NEW h \in Index
  PROVE  (h + 0) % Slots = h /\ (h + Slots) % Slots = h
  <1>1. 0 \in 0 .. Slots /\ Slots \in 0 .. Slots
    BY RingAssumption
  <1>2. (h + 0) % Slots = IF h + 0 < Slots THEN h + 0 ELSE h + 0 - Slots
    BY <1>1, Wrap
  <1>3. (h + Slots) % Slots
          = IF h + Slots < Slots THEN h + Slots ELSE h + Slots - Slots
    BY <1>1, Wrap
  <1> QED
    BY <1>2, <1>3, RingAssumption DEF Index
-----------------------------------------------------------------------------
\* The inductive invariant: the run's invariants together.
IInv == TypeOK /\ IndicesAgree /\ Consecutive /\ Accounted /\ ReaderBehind

LEMMA InvInit == Init => IInv
  <1> SUFFICES ASSUME Init PROVE IInv
    OBVIOUS
  <1>1. 0 \in Index
    BY RingAssumption DEF Index
  <1>2. IndicesAgree
    BY <1>1, Ends DEF Init, SlotOf, IndicesAgree
  <1>3. TypeOK
    <2>1. ZeroMeta \in Metas
      BY DEF ZeroMeta, Metas
    <2>2. buffer \in [data : Data \cup {Garbage},
                      meta : [size : Nat, is_idr : BOOLEAN, sequence : Int]]
      BY DEF Init
    <2> QED
      BY <1>1, <2>1, <2>2, RingAssumption DEF Init, TypeOK
  <1>4. Consecutive /\ Accounted /\ ReaderBehind
    BY DEF Init, Consecutive, Accounted, ReaderBehind, ZeroMeta
  <1> QED
    BY <1>2, <1>3, <1>4 DEF IInv

LEMMA InvPush ==
  ASSUME IInv, NEW au \in Units, Push(au)
  PROVE  IInv'
  <1> DEFINE m == [size |-> au.size, is_idr |-> au.is_idr,
                   sequence |-> sequence]
             full == count = Slots
  <1>0. /\ head \in Index /\ tail \in Index /\ count \in 0 .. Slots
        /\ sequence \in Nat /\ dropped \in Nat /\ taken \in Nat
        /\ meta \in [Index -> Metas]
    BY DEF IInv, TypeOK
  <1>1. After(head) \in Index /\ After(tail) \in Index
    BY <1>0, Walk, RingAssumption
  <1>2. tail = (head + count) % Slots
    BY DEF IInv, IndicesAgree, SlotOf
  <1>3. au.size \in Nat /\ au.is_idr \in BOOLEAN /\ au.data \in Data
    BY RingAssumption DEF Units
  <1>4. TypeOK'
    <2>1. m \in Metas
      BY <1>0, <1>3 DEF Metas
    <2>2. meta' \in [Index -> Metas]
      BY <2>1, <1>0 DEF Push, MakeRoom, Kept
    <2>3. count' \in 0 .. Slots
      BY <1>0, RingAssumption DEF Push, MakeRoom, Kept
    <2> QED
      BY <1>0, <1>1, <1>3, <2>2, <2>3 DEF IInv, TypeOK, Push, MakeRoom, Kept
  \* The new unit sits right after those that stay.
  <1>5. CASE full
    <2>1. head' = After(head) /\ tail' = After(tail) /\ count' = Slots
      BY <1>5, <1>0, RingAssumption DEF Push, MakeRoom, Kept
    <2>2. tail = head
      BY <1>5, <1>2, <1>0, Ends
    <2>3. \A i \in 0 .. Slots - 1 :
            SlotOf(i)' = (head + (i + 1)) % Slots
      BY <2>1, <1>0, Walk DEF SlotOf
    <2>4. IndicesAgree'
      BY <2>1, <2>2, <1>1, Ends DEF IndicesAgree, SlotOf
    <2>5. ASSUME NEW i \in 0 .. Slots - 1
          PROVE  meta'[SlotOf(i)'].sequence = sequence' - Slots + i
      <3>1. CASE i = Slots - 1
        <4>1. SlotOf(i)' = head
          BY <3>1, <2>3, <1>0, Ends, RingAssumption
        <4> QED
          BY <4>1, <2>2, <3>1, <1>0, RingAssumption DEF Push, MakeRoom, Kept
      <3>2. CASE i < Slots - 1
        <4>1. i + 1 \in 0 .. Slots - 1 /\ 0 \in 0 .. Slots - 1
          BY <3>2, RingAssumption
        <4>2. SlotOf(i)' # tail /\ SlotOf(i)' \in Index
          BY <4>1, <2>2, <2>3, <1>0, Apart, Ends, Walk
        <4>3. meta[(head + (i + 1)) % Slots].sequence
                = sequence - count + (i + 1)
          BY <4>1, <1>5 DEF IInv, Consecutive, SlotOf
        <4>4. meta'[SlotOf(i)'] = meta[SlotOf(i)']
          BY <4>2, <1>0 DEF Push, MakeRoom, Kept
        <4> QED
          BY <4>3, <4>4, <2>3, <1>5, <1>0, RingAssumption DEF Push, MakeRoom, Kept
      <3> QED
        BY <3>1, <3>2, RingAssumption
    <2>6. Consecutive'
      BY <2>1, <2>5 DEF Consecutive
    <2>7. Accounted' /\ ReaderBehind'
      BY <1>5, <1>0, <1>4, RingAssumption
      DEF IInv, TypeOK, Push, MakeRoom, Kept, Accounted, ReaderBehind
    <2> QED
      BY <1>4, <2>4, <2>6, <2>7 DEF IInv
  <1>6. CASE ~full
    <2>0. count \in 0 .. Slots - 1
      BY <1>6, <1>0, RingAssumption
    <2>1. head' = head /\ tail' = After(tail) /\ count' = count + 1
      BY <1>6 DEF Push, MakeRoom, Kept
    <2>2. \A i \in 0 .. count : SlotOf(i)' = (head + i) % Slots
      BY <2>1 DEF SlotOf
    <2>3. IndicesAgree'
      BY <2>0, <2>1, <1>0, <1>2, Walk DEF IndicesAgree, SlotOf
    <2>4. ASSUME NEW i \in 0 .. count
          PROVE  meta'[SlotOf(i)'].sequence = sequence' - (count + 1) + i
      <3>1. CASE i = count
        BY <3>1, <2>2, <1>2, <1>0 DEF Push, MakeRoom, Kept
      <3>2. CASE i < count
        <4>1. i \in 0 .. Slots - 1 /\ i \in 0 .. count - 1
          BY <3>2, <2>0, <1>0, RingAssumption
        <4>2. SlotOf(i)' # tail /\ SlotOf(i)' \in Index
          BY <4>1, <3>2, <2>0, <2>2, <1>0, <1>2, Apart, Walk
        <4>3. meta[(head + i) % Slots].sequence = sequence - count + i
          BY <4>1 DEF IInv, Consecutive, SlotOf
        <4>4. meta'[SlotOf(i)'] = meta[SlotOf(i)']
          BY <4>2, <1>0 DEF Push, MakeRoom, Kept
        <4> QED
          BY <4>3, <4>4, <2>2, <1>0 DEF Push, MakeRoom, Kept
      <3> QED
        BY <3>1, <3>2, <1>0
    <2>5. Consecutive'
      BY <2>0, <2>1, <2>4 DEF Consecutive
    <2>6. Accounted' /\ ReaderBehind'
      BY <1>6, <1>0, <1>4, RingAssumption
      DEF IInv, TypeOK, Push, MakeRoom, Kept, Accounted, ReaderBehind
    <2> QED
      BY <1>4, <2>3, <2>5, <2>6 DEF IInv
  <1> QED
    BY <1>5, <1>6

LEMMA InvPop ==
  ASSUME IInv, Pop
  PROVE  IInv'
  <1>0. /\ head \in Index /\ tail \in Index /\ count \in 0 .. Slots
        /\ sequence \in Nat /\ dropped \in Nat /\ taken \in Nat
        /\ meta \in [Index -> Metas]
    BY DEF IInv, TypeOK
  <1>1. count \in 1 .. Slots /\ 0 \in 0 .. count - 1
    BY <1>0 DEF Pop, Oldest
  <1>2. meta[head].sequence = sequence - count
    <2>1. meta[(head + 0) % Slots].sequence = sequence - count + 0
      BY <1>1 DEF IInv, Consecutive, SlotOf
    <2> QED
      BY <2>1, <1>0, Ends
  <1>3. ASSUME NEW i \in 0 .. Slots - 1
        PROVE  (head' + i) % Slots = (head + (i + 1)) % Slots
    <2>1. (After(head) + i) % Slots = (head + (i + 1)) % Slots
      BY <1>0, Walk
    <2> QED
      BY <2>1 DEF Pop, Oldest
  <1>4. TypeOK'
    <2>1. After(head) \in Index
      BY <1>0, Walk, RingAssumption
    <2>2. meta[head] \in [size : Nat, is_idr : BOOLEAN, sequence : Int]
      BY <1>0 DEF Metas
    <2>3. backing[head] \in Data \cup {Garbage}
      BY <1>0 DEF IInv, TypeOK
    <2>4. buffer' \in [data : Data \cup {Garbage},
                       meta : [size : Nat, is_idr : BOOLEAN, sequence : Int]]
      BY <2>2, <2>3 DEF IInv, TypeOK, Pop, Oldest
    <2>5. count' \in 0 .. Slots
      BY <1>0, <1>1, RingAssumption DEF Pop, Oldest
    <2> QED
      BY <1>0, <2>1, <2>4, <2>5 DEF IInv, TypeOK, Pop, Oldest
  <1>5. IndicesAgree'
    <2>1. count - 1 \in 0 .. Slots - 1
      BY <1>1, RingAssumption
    <2>2. (head' + (count - 1)) % Slots = (head + (count - 1 + 1)) % Slots
      BY <1>3, <2>1
    <2>3. count - 1 + 1 = count /\ tail' = tail /\ count' = count - 1
      BY <1>0 DEF Pop, Oldest
    <2> QED
      BY <2>2, <2>3 DEF IInv, IndicesAgree, SlotOf
  <1>6. Consecutive'
    <2> SUFFICES ASSUME NEW i \in 0 .. count - 2
                 PROVE  meta[(head' + i) % Slots].sequence
                          = sequence - (count - 1) + i
      <3>1. count' = count - 1 /\ sequence' = sequence /\ meta' = meta
        BY DEF Pop, Oldest
      <3>2. count' - 1 = count - 2
        BY <3>1, <1>0
      <3> QED
        BY <3>1, <3>2 DEF Consecutive, SlotOf
    <2>1. i \in 0 .. Slots - 1 /\ i + 1 \in 0 .. count - 1
      BY <1>1, RingAssumption
    <2>2. (head' + i) % Slots = (head + (i + 1)) % Slots
      BY <1>3, <2>1
    <2>3. meta[(head + (i + 1)) % Slots].sequence = sequence - count + (i + 1)
      BY <2>1 DEF IInv, Consecutive, SlotOf
    <2> QED
      BY <2>2, <2>3, <1>0
  <1>7. Accounted' /\ ReaderBehind'
    BY <1>0, <1>1, <1>2, <1>4 DEF IInv, TypeOK, Accounted, ReaderBehind, Pop, Oldest
  <1> QED
    BY <1>4, <1>5, <1>6, <1>7 DEF IInv

LEMMA InvStep == IInv /\ [Next]_vars => IInv'
  <1> SUFFICES ASSUME IInv, [Next]_vars PROVE IInv'
    OBVIOUS
  <1>1. ASSUME NEW au \in Units, Push(au) PROVE IInv'
    BY <1>1, InvPush
  <1>2. CASE Pop
    BY <1>2, InvPop
  <1>3. CASE UNCHANGED vars
    BY <1>3 DEF vars, IInv, TypeOK, IndicesAgree, Consecutive, Accounted,
                ReaderBehind, SlotOf
  <1> QED
    BY <1>1, <1>2, <1>3 DEF Next, Done

\* Whatever the number of slots, the bookkeeping of the ring stays right: its
\* indices agree, the units held are the newest, consecutive, and every unit
\* is accounted for (au_ring_push, au_ring_pop).
THEOREM RingCorrect ==
  Spec => [](TypeOK /\ IndicesAgree /\ Consecutive /\ Accounted /\ ReaderBehind)
  <1> QED
    BY InvInit, InvStep, PTL DEF Spec, IInv

\* The reader of the ring never goes back: each unit it receives is newer
\* than all before (au_ring_pop takes at the head, which only advances).
THEOREM ReaderAdvances == Spec => NeverGoesBack
  <1>1. IInv /\ [Next]_vars
          => [buffer' # buffer
                => buffer'.meta.sequence > buffer.meta.sequence]_vars
    <2> SUFFICES ASSUME IInv, Pop
                 PROVE  buffer' # buffer
                          => buffer'.meta.sequence > buffer.meta.sequence
      BY DEF Next, Done, Push, MakeRoom, Kept, vars
    <2>1. head \in Index /\ count \in 1 .. Slots /\ 0 \in 0 .. count - 1
      BY DEF IInv, TypeOK, Pop, Oldest
    <2>2. meta[(head + 0) % Slots].sequence = sequence - count + 0
      BY <2>1 DEF IInv, Consecutive, SlotOf
    <2>3. meta[head].sequence = sequence - count + 0
      BY <2>1, <2>2, Ends
    <2> QED
      BY <2>1, <2>3 DEF IInv, TypeOK, ReaderBehind, Pop, Oldest
  <1> QED
    BY InvInit, InvStep, <1>1, PTL DEF Spec, NeverGoesBack

-----------------------------------------------------------------------------
\* What the queue of the refinement holds.
Items == [unit : [data : Data \cup {Garbage}, size : Nat, is_idr : BOOLEAN],
          sequence : Nat]

HeldOK ==
  /\ Held \in Seq(Items) /\ Len(Held) = count
  /\ \A i \in 1 .. count :
       Held[i] = Item(backing[(head + (i - 1)) % Slots],
                      meta[(head + (i - 1)) % Slots])

LEMMA HeldFacts == IInv => HeldOK
  <1> SUFFICES ASSUME IInv PROVE HeldOK
    OBVIOUS
  <1>1. /\ count \in 0 .. Slots /\ head \in Index
        /\ meta \in [Index -> Metas]
        /\ backing \in [Index -> Data \cup {Garbage}]
    BY DEF IInv, TypeOK
  <1>2. ASSUME NEW i \in 1 .. count
        PROVE  Item(backing[SlotOf(i - 1)], meta[SlotOf(i - 1)]) \in Items
    <2>1. i - 1 \in 0 .. Slots - 1
      BY <1>1, RingAssumption
    <2>2. SlotOf(i - 1) \in Index
      BY <1>1, <2>1, Walk DEF SlotOf
    <2>3. backing[SlotOf(i - 1)] \in Data \cup {Garbage}
      BY <1>1, <2>2
    <2>4. meta[SlotOf(i - 1)] \in Metas
      BY <1>1, <2>2
    <2> QED
      BY <2>3, <2>4 DEF Item, Items, Metas
  <1>3. Held \in [1 .. count -> Items]
    BY <1>2 DEF Held
  <1>4. Held \in Seq(Items) /\ Len(Held) = count
    BY <1>1, <1>3, RingAssumption
  <1> QED
    BY <1>4 DEF Held, SlotOf, HeldOK

LEMMA HeldPush ==
  ASSUME IInv, NEW au \in Units, Push(au)
  PROVE  Held' = Append(IF count = Slots THEN Tail(Held) ELSE Held,
                        [unit |-> au, sequence |-> sequence])
  <1> DEFINE item == [unit |-> au, sequence |-> sequence]
             rest == IF count = Slots THEN Tail(Held) ELSE Held
  <1>0. /\ count \in 0 .. Slots /\ head \in Index /\ tail \in Index
        /\ meta \in [Index -> Metas] /\ sequence \in Nat
        /\ backing \in [Index -> Data \cup {Garbage}]
        /\ tail = (head + count) % Slots
    BY DEF IInv, TypeOK, IndicesAgree, SlotOf
  <1>1. IInv'
    BY InvPush
  <1>2. /\ Held' \in Seq(Items) /\ Len(Held') = count'
        /\ \A i \in 1 .. count' :
             Held'[i] = Item(backing'[(head' + (i - 1)) % Slots],
                             meta'[(head' + (i - 1)) % Slots])
    <2>1. HeldOK'
      BY <1>1, HeldFacts, PTL
    <2> QED
      BY <2>1 DEF HeldOK
  <1>3. /\ Held \in Seq(Items) /\ Len(Held) = count
        /\ \A i \in 1 .. count :
             Held[i] = Item(backing[(head + (i - 1)) % Slots],
                            meta[(head + (i - 1)) % Slots])
    BY HeldFacts DEF HeldOK
  <1>4. item \in Items /\ Item(backing'[tail], meta'[tail]) = item
    BY <1>0, RingAssumption DEF Items, Item, Units, Push, MakeRoom, Kept
  <1>5. /\ rest \in Seq(Items) /\ Len(rest) = count' - 1
        /\ \A i \in 1 .. count' - 1 :
             /\ rest[i] = Item(backing[(head' + (i - 1)) % Slots],
                               meta[(head' + (i - 1)) % Slots])
             /\ (head' + (i - 1)) % Slots \in Index \ {tail}
        /\ (head' + (count' - 1)) % Slots = tail
    <2>1. CASE count = Slots
      <3>1. Held # <<>> /\ tail = head /\ head' = After(head) /\ count' = count
        BY <2>1, <1>0, <1>3, Ends, RingAssumption DEF Push, MakeRoom, Kept
      <3>2. /\ Tail(Held) \in Seq(Items) /\ Len(Tail(Held)) = count - 1
            /\ \A i \in 1 .. Len(Tail(Held)) : Tail(Held)[i] = Held[i + 1]
        BY <1>3, <3>1, HeadTailProperties
      <3>3. ASSUME NEW i \in 1 .. count
            PROVE  (head' + (i - 1)) % Slots = (head + i) % Slots
        <4>1. i - 1 \in 0 .. Slots - 1 /\ (i - 1) + 1 = i
          BY <1>0, RingAssumption
        <4>2. (After(head) + (i - 1)) % Slots = (head + ((i - 1) + 1)) % Slots
          BY <1>0, <4>1, Walk
        <4> QED
          BY <4>1, <4>2, <3>1
      <3>4. ASSUME NEW i \in 1 .. count - 1
            PROVE  /\ Tail(Held)[i]
                        = Item(backing[(head' + (i - 1)) % Slots],
                               meta[(head' + (i - 1)) % Slots])
                   /\ (head' + (i - 1)) % Slots \in Index \ {tail}
        <4>1. /\ i \in 1 .. count /\ i + 1 \in 1 .. count
              /\ (i + 1) - 1 = i /\ i \in 0 .. Slots - 1
              /\ 0 \in 0 .. Slots - 1 /\ i # 0
          BY <1>0, RingAssumption
        <4>2. Tail(Held)[i] = Item(backing[(head + i) % Slots],
                                   meta[(head + i) % Slots])
          BY <4>1, <3>2, <1>3
        <4>3. (head + i) % Slots \in Index /\ (head + i) % Slots # head
          BY <4>1, <1>0, Walk, Apart, Ends
        <4> QED
          BY <4>1, <4>2, <4>3, <3>1, <3>3
      <3>5. (head' + (count' - 1)) % Slots = tail
        <4>1. count \in 1 .. count
          BY <2>1, <1>0, RingAssumption
        <4> QED
          BY <4>1, <3>3, <3>1, <1>0
      <3> QED
        BY <2>1, <3>1, <3>2, <3>4, <3>5
    <2>2. CASE count # Slots
      <3>1. head' = head /\ count' = count + 1 /\ count' - 1 = count
        BY <2>2, <1>0, RingAssumption DEF Push, MakeRoom, Kept
      <3>2. ASSUME NEW i \in 1 .. count
            PROVE  (head + (i - 1)) % Slots \in Index \ {tail}
        <4>1. /\ i - 1 \in 0 .. Slots - 1 /\ count \in 0 .. Slots - 1
              /\ i - 1 # count
          BY <2>2, <1>0, RingAssumption
        <4> QED
          BY <4>1, <1>0, Walk, Apart
      <3> QED
        BY <2>2, <3>1, <3>2, <1>0, <1>3
    <2> QED
      BY <2>1, <2>2
  <1> HIDE DEF item, rest
  <1>6. count' \in Nat /\ count' \in 1 .. Slots
    BY <1>0, RingAssumption DEF Push, MakeRoom, Kept
  <1>7. /\ Append(rest, item) \in Seq(Items)
        /\ Len(Append(rest, item)) = count'
        /\ \A i \in 1 .. count' - 1 : Append(rest, item)[i] = rest[i]
        /\ Append(rest, item)[count'] = item
    <2>1. rest \in Seq(Items) /\ item \in Items
      BY <1>4, <1>5
    <2>2. /\ Append(rest, item) \in Seq(Items)
          /\ Len(Append(rest, item)) = Len(rest) + 1
          /\ \A i \in 1 .. Len(rest) : Append(rest, item)[i] = rest[i]
          /\ Append(rest, item)[Len(rest) + 1] = item
      BY <2>1, AppendProperties
    <2>3. Len(rest) = count' - 1
      BY <1>5
    <2>4. (count' - 1) + 1 = count'
      <3>1. \A n \in Nat : (n - 1) + 1 = n
        OBVIOUS
      <3> QED
        BY <1>6, <3>1
    <2> QED
      BY <2>2, <2>3, <2>4
  <1>8. ASSUME NEW i \in 1 .. count'
        PROVE  Held'[i] = Append(rest, item)[i]
    <2>1. CASE i = count'
      BY <2>1, <1>2, <1>4, <1>5, <1>6, <1>7
    <2>2. CASE i \in 1 .. count' - 1
      <3>1. /\ backing'[(head' + (i - 1)) % Slots]
                 = backing[(head' + (i - 1)) % Slots]
            /\ meta'[(head' + (i - 1)) % Slots]
                 = meta[(head' + (i - 1)) % Slots]
        BY <2>2, <1>0, <1>5 DEF Push, MakeRoom, Kept
      <3> QED
        BY <2>2, <3>1, <1>2, <1>5, <1>6, <1>7
    <2>3. \A n \in Nat : \A k \in 1 .. n : k = n \/ k \in 1 .. n - 1
      OBVIOUS
    <2>4. i = count' \/ i \in 1 .. count' - 1
      BY <2>3, <1>6
    <2> QED
      BY <2>1, <2>2, <2>4
  <1>9. Held' = Append(rest, item)
    <2>1. Len(Held') = Len(Append(rest, item))
      BY <1>2, <1>7
    <2>2. \A i \in 1 .. Len(Held') : Held'[i] = Append(rest, item)[i]
      BY <1>2, <1>8
    <2> QED
      BY <1>2, <1>7, <2>1, <2>2, SeqEqual
  <1> QED
    BY <1>9 DEF item, rest

LEMMA HeldPop ==
  ASSUME IInv, Pop
  PROVE  /\ Held # <<>>
         /\ Held' = Tail(Held)
         /\ Head(Held) = Item(backing[head], meta[head])
  <1>0. /\ count \in 1 .. Slots /\ head \in Index /\ head' = After(head)
        /\ count' = count - 1 /\ meta' = meta /\ backing' = backing
    BY DEF IInv, TypeOK, Pop, Oldest
  <1>1. IInv'
    BY InvPop
  <1>2. /\ Held' \in Seq(Items) /\ Len(Held') = count'
        /\ \A i \in 1 .. count' :
             Held'[i] = Item(backing'[(head' + (i - 1)) % Slots],
                             meta'[(head' + (i - 1)) % Slots])
    <2>1. HeldOK'
      BY <1>1, HeldFacts, PTL
    <2> QED
      BY <2>1 DEF HeldOK
  <1>3. /\ Held \in Seq(Items) /\ Len(Held) = count
        /\ \A i \in 1 .. count :
             Held[i] = Item(backing[(head + (i - 1)) % Slots],
                            meta[(head + (i - 1)) % Slots])
    BY HeldFacts DEF HeldOK
  <1>4. Held # <<>>
    BY <1>0, <1>3
  <1>5. /\ Tail(Held) \in Seq(Items) /\ Len(Tail(Held)) = count - 1
        /\ \A i \in 1 .. Len(Tail(Held)) : Tail(Held)[i] = Held[i + 1]
    BY <1>3, <1>4, HeadTailProperties
  <1>6. ASSUME NEW i \in 1 .. count - 1
        PROVE  Held'[i] = Tail(Held)[i]
    <2>1. /\ i - 1 \in 0 .. Slots - 1 /\ (i - 1) + 1 = i
          /\ i + 1 \in 1 .. count /\ (i + 1) - 1 = i
      BY <1>0, RingAssumption
    <2>2. (After(head) + (i - 1)) % Slots = (head + ((i - 1) + 1)) % Slots
      BY <1>0, <2>1, Walk
    <2>3. Held'[i] = Item(backing[(head + i) % Slots],
                          meta[(head + i) % Slots])
      BY <2>1, <2>2, <1>0, <1>2
    <2> QED
      BY <2>1, <2>3, <1>3, <1>5
  <1>7. Held' = Tail(Held)
    <2>1. Len(Held') = Len(Tail(Held))
      BY <1>0, <1>2, <1>5
    <2>2. \A i \in 1 .. Len(Held') : Held'[i] = Tail(Held)[i]
      BY <1>0, <1>2, <1>6
    <2> QED
      BY <1>2, <1>5, <2>1, <2>2, SeqEqual
  <1>8. Head(Held) = Item(backing[head], meta[head])
    <2>1. 1 \in 1 .. count /\ 1 - 1 = 0
      BY <1>0
    <2>2. Held[1] = Item(backing[(head + 0) % Slots], meta[(head + 0) % Slots])
      BY <2>1, <1>3
    <2> QED
      BY <2>2, <1>0, <1>3, <1>4, Ends
  <1> QED
    BY <1>4, <1>7, <1>8

\* The ring implements the drop-oldest queue, whatever its size: wrapping and
\* overwriting never reorder, repeat or corrupt a unit (au_ring_push,
\* au_ring_pop).
THEOREM RingImplementsQueue == Spec => ImplementsQueue
  <1>1. Init => Queue!QueueInit
    <2> SUFFICES ASSUME Init PROVE Queue!QueueInit
      OBVIOUS
    <2>1. Held = <<>>
      BY DEF Init, Held
    <2>2. Received = <<>>
      BY DEF Init, Received
    <2> QED
      BY <2>1, <2>2 DEF Init, Queue!QueueInit
  <1>2. IInv /\ [Next]_vars
          => [\/ \E au \in Units : Queue!Push(au)
              \/ Queue!Pop
              \/ Queue!Discard]_<<Queue!queueVars>>
    <2> SUFFICES ASSUME IInv, [Next]_vars
                 PROVE  \/ \E au \in Units : Queue!Push(au)
                        \/ Queue!Pop
                        \/ Queue!Discard
                        \/ UNCHANGED Queue!queueVars
      OBVIOUS
    <2>1. ASSUME NEW au \in Units, Push(au)
          PROVE  Queue!Push(au)
      <3>1. Len(Held) = count
        BY HeldFacts DEF HeldOK
      <3>2. Held' = Append(IF count = Slots THEN Tail(Held) ELSE Held,
                           [unit |-> au, sequence |-> sequence])
        BY <2>1, HeldPush
      <3>3. Received' = Received
        BY <2>1 DEF Received, Push, MakeRoom, Kept
      <3> QED
        BY <2>1, <3>1, <3>2, <3>3 DEF Queue!Push, Push, MakeRoom, Kept
    <2>2. CASE Pop
      <3>1. /\ Held # <<>>
            /\ Held' = Tail(Held)
            /\ Head(Held) = Item(backing[head], meta[head])
        BY <2>2, HeldPop
      <3>2. UNCHANGED <<sequence, dropped>>
        BY <2>2 DEF Pop, Oldest
      <3>3. CASE meta[head].size <= BufferCapacity
        <4>1. buffer' = [data |-> backing[head], meta |-> meta[head]]
          BY <2>2, <3>3 DEF Pop, Oldest
        <4>2. meta[head].sequence # -1
          BY DEF IInv, TypeOK, Metas
        <4>3. Received' = <<Head(Held)>>
          BY <4>1, <4>2, <3>1 DEF Received
        <4> QED
          BY <3>1, <3>2, <4>3 DEF Queue!Pop
      <3>4. CASE ~(meta[head].size <= BufferCapacity)
        <4>1. Received' = Received
          BY <2>2, <3>4 DEF Received, Pop, Oldest
        <4> QED
          BY <3>1, <3>2, <4>1 DEF Queue!Discard
      <3> QED
        BY <3>3, <3>4
    <2>3. CASE UNCHANGED vars
      BY <2>3 DEF vars, Held, SlotOf, Received, Queue!queueVars
    <2> QED
      BY <2>1, <2>2, <2>3 DEF Next, Done
  <1> QED
    BY InvInit, InvStep, <1>1, <1>2, PTL DEF Spec, ImplementsQueue
-----------------------------------------------------------------------------
(* The sender on the ring.                                                 *)

\* The sender's thread pops the ring, or leaves it alone.
LEMMA SenderThreadOnRing == SenderThread => [Next]_vars
<1> SUFFICES ASSUME SenderThread PROVE [Next]_vars
  OBVIOUS
<1>1. CASE PopUnit
  BY <1>1 DEF PopUnit, Next
<1>2. CASE Loop \/ Poll \/ PollFails \/ HandleRtcp \/ SendPacket \/ Report
  BY <1>2 DEF Loop, Poll, PollFails, HandleRtcp, SendPacket, Report, Reports
<1> QED
  BY <1>1, <1>2 DEF SenderThread

\* The encoder pushes units; nobody else touches the ring.
LEMMA StepOnRing == [SenderNext]_allVars => [Next]_vars
<1> SUFFICES ASSUME [SenderNext]_allVars PROVE [Next]_vars
  OBVIOUS
<1>1. CASE EncoderPushes
  BY <1>1, SenderAssumption DEF EncoderPushes, Next
<1>2. CASE \/ EncoderTakes \/ TimePasses \/ Stop \/ Arrives \/ Relay
           \/ JanusDown \/ JanusUp \/ SenderDone \/ UNCHANGED allVars
  BY <1>2
  DEF EncoderTakes, TimePasses, Stop, Arrives, Relay, JanusDown, JanusUp,
      SenderDone, allVars
<1> QED
  BY <1>1, <1>2, SenderThreadOnRing DEF SenderNext

\* A run of the sender is, for the ring, a run of AuRing ...
THEOREM SenderImplementsRing == SenderSpec => Spec
<1>1. SenderInit => Init
  BY DEF SenderInit
<1> QED
  BY <1>1, StepOnRing, PTL DEF SenderSpec, Spec

\* ... so that the packets are cut from the units of the drop-oldest queue,
\* in the order they were encoded.
THEOREM SenderReadsQueue ==
  SenderSpec => []Consecutive /\ ImplementsQueue
BY SenderImplementsRing, RingCorrect, RingImplementsQueue, PTL
-----------------------------------------------------------------------------
(* Whole units.                                                            *)

\* A set of numbers has a smallest one: what takes the place of induction.
LEMMA Smallest ==
  ASSUME NEW T \in SUBSET Nat, T # {}
  PROVE  \E m \in T : \A k \in T : m <= k
<1>1. \E m \in T : \A k \in T : <<k, m>> \notin OpToRel(<, Nat)
  BY NatLessThanWellFounded, WFMin, Zenon
<1>2. ASSUME NEW m \in T, NEW k \in T, <<k, m>> \notin OpToRel(<, Nat)
      PROVE  m <= k
  <2>1. <<k, m>>[1] = k /\ <<k, m>>[2] = m /\ <<k, m>> \in Nat \X Nat
    OBVIOUS
  <2>2. ~(k < m)
    BY <1>2, <2>1 DEF OpToRel
  <2> QED
    BY <2>2
<1> QED
  BY <1>1, <1>2

\* Division with remainder.
LEMMA Remainder ==
  ASSUME NEW N \in Nat \ {0}, NEW q \in Nat, NEW r \in 0 .. N - 1
  PROVE  (N * q + r) % N = r
BY SMT

LEMMA Quotient ==
  ASSUME NEW N \in Nat \ {0}, NEW a \in Nat
  PROVE  \E q \in Nat, r \in 0 .. N - 1 : a = N * q + r /\ a % N = r
<1> DEFINE T == {b \in Nat : ~ \E q \in Nat, r \in 0 .. N - 1 : b = N * q + r}
<1>1. ASSUME T # {} PROVE FALSE
  <2>1. PICK m \in T : \A k \in T : m <= k
    BY <1>1, Smallest
  <2>2. m >= N
    <3> SUFFICES ASSUME m < N PROVE FALSE
      OBVIOUS
    <3>1. m = N * 0 + m /\ m \in 0 .. N - 1
      OBVIOUS
    <3> QED
      BY <3>1
  <2>3. m - N \in Nat /\ m - N \notin T
    BY <2>1, <2>2
  <2>4. PICK q \in Nat, r \in 0 .. N - 1 : m - N = N * q + r
    BY <2>3
  <2>5. N * (q + 1) = N * q + N /\ N * q \in Nat
    BY SMT
  <2>6. m = N * (q + 1) + r /\ q + 1 \in Nat
    BY <2>4, <2>5
  <2> QED
    BY <2>1, <2>6
<1>2. PICK q \in Nat, r \in 0 .. N - 1 : a = N * q + r
  BY <1>1
<1> QED
  BY <1>2, Remainder

\* Fewer than Numbers apart, two packets with the same number are the same.
LEMMA SameNumber ==
  ASSUME NEW a \in Nat, NEW b \in Nat, a <= b, b - a < Numbers,
         a % Numbers = b % Numbers
  PROVE  a = b
<1>1. Numbers \in Nat \ {0}
  BY SenderAssumption
<1>2. PICK q \in Nat, r \in 0 .. Numbers - 1 :
        a = Numbers * q + r /\ a % Numbers = r
  BY <1>1, Quotient
<1>3. PICK p \in Nat, s \in 0 .. Numbers - 1 :
        b = Numbers * p + s /\ b % Numbers = s
  BY <1>1, Quotient
<1>4. b - a = Numbers * p - Numbers * q
  BY <1>1, <1>2, <1>3
<1>5. p >= q + 1 => Numbers * p >= Numbers * q + Numbers
  BY <1>1, SMT
<1>6. p < q => Numbers * q >= Numbers * p + Numbers
  BY <1>1, SMT
<1>7. Numbers * p \in Nat /\ Numbers * q \in Nat
  BY <1>1, SMT
<1>8. p = q
  BY <1>1, <1>4, <1>5, <1>6, <1>7
<1> QED
  BY <1>4, <1>7, <1>8

\* To wrap at each step is to wrap once.
LEMMA NextNumber ==
  ASSUME NEW a \in Nat
  PROVE  ((a % Numbers) + 1) % Numbers = (a + 1) % Numbers
<1>1. Numbers \in Nat \ {0}
  BY SenderAssumption
<1>2. PICK q \in Nat, r \in 0 .. Numbers - 1 :
        a = Numbers * q + r /\ a % Numbers = r
  BY <1>1, Quotient
<1>3. CASE r + 1 < Numbers
  <2>1. a + 1 = Numbers * q + (r + 1) /\ r + 1 = Numbers * 0 + (r + 1)
    BY <1>1, <1>2, <1>3
  <2>2. (Numbers * q + (r + 1)) % Numbers = r + 1
    BY <1>1, <1>3, Remainder
  <2>3. (Numbers * 0 + (r + 1)) % Numbers = r + 1
    BY <1>1, <1>3, Remainder
  <2> QED
    BY <1>2, <2>1, <2>2, <2>3
<1>4. CASE r + 1 = Numbers
  <2>1. Numbers * (q + 1) = Numbers * q + Numbers
    BY <1>1, SMT
  <2>2. a + 1 = Numbers * (q + 1) + 0 /\ r + 1 = Numbers * 1 + 0
    BY <1>1, <1>2, <1>4, <2>1
  <2>3. (Numbers * (q + 1) + 0) % Numbers = 0
    BY <1>1, Remainder
  <2>4. (Numbers * 1 + 0) % Numbers = 0
    BY <1>1, Remainder
  <2> QED
    BY <1>2, <2>2, <2>3, <2>4
<1> QED
  BY <1>1, <1>3, <1>4

-----------------------------------------------------------------------------
\* How many packets were made before the first of p's unit, and when its last
\* one is.
Before(p) == p.at - p.place
Through(p) == p.at - p.place + p.part_of.size

\* The same of the unit in hand.
Start == made + left - buffer.meta.size

Seen == [number : Nat, marker : BOOLEAN,
         part_of : [size : Nat, is_idr : BOOLEAN, sequence : Int],
         place : Nat, at : Nat]

SenderTypes ==
  /\ made \in Nat /\ left \in Nat /\ last \in 0 .. made
  /\ rtp = made % Numbers
  /\ unit \in Seq(Seen)
  /\ left <= buffer.meta.size
  /\ pc = "send" <=> left # 0

\* Each packet is where its unit and its number put it.
Placed ==
  \A i \in DOMAIN unit :
    /\ unit[i].at <= made
    /\ 1 <= unit[i].place /\ unit[i].place <= unit[i].part_of.size
    /\ unit[i].number = unit[i].at % Numbers
    /\ last + i <= unit[i].at /\ last <= Before(unit[i])

\* The marker is on the last packet of a unit, and ends what has arrived.
Marked ==
  \A i \in DOMAIN unit :
    /\ unit[i].marker <=> unit[i].place = unit[i].part_of.size
    /\ unit[i].marker => i = Len(unit)

\* They arrive in order.
Rising ==
  \A i, j \in DOMAIN unit : i <= j => j - i <= unit[j].at - unit[i].at

\* Where one unit lies there is no packet of another.
Disjoint ==
  \A i, j \in DOMAIN unit :
    Before(unit[i]) < unit[j].at /\ unit[j].at <= Through(unit[i])
      => /\ Before(unit[j]) = Before(unit[i])
         /\ unit[j].part_of = unit[i].part_of

\* A packet is of the unit in hand, or of one that was made before it.
Current ==
  /\ left = 0 => \A i \in DOMAIN unit : Through(unit[i]) <= made
  /\ left # 0 =>
       /\ last <= Start
       /\ \A i \in DOMAIN unit :
            \/ unit[i].at <= Start /\ Through(unit[i]) <= Start
            \/ /\ Start < unit[i].at
               /\ Before(unit[i]) = Start /\ unit[i].part_of = buffer.meta

WholeInv == SenderTypes /\ Placed /\ Marked /\ Rising /\ Disjoint /\ Current

LEMMA BufferTyped ==
  ASSUME IInv
  PROVE  buffer.meta \in [size : Nat, is_idr : BOOLEAN, sequence : Int]
BY DEF IInv, TypeOK

\* What the invariant says is what WholeUnits asks for.
LEMMA WholeEnough == WholeInv => WholeUnits
<1> DEFINE n == Len(unit)
<1>0. SUFFICES ASSUME WholeInv, n # 0, unit[n].marker,
                      unit[n].at - last - n < Numbers,
                      \A i \in 1 .. n : unit[i].number = (last + i) % Numbers,
                      NEW i \in 1 .. n
               PROVE  /\ unit[i].part_of = unit[n].part_of
                      /\ unit[i].place = i /\ unit[i].part_of.size = n
  BY DEF WholeUnits
<1>p. SenderTypes /\ Placed /\ Marked /\ Rising /\ Disjoint
  BY <1>0 DEF WholeInv
<1>1. /\ unit \in Seq(Seen) /\ n \in Nat \ {0} /\ DOMAIN unit = 1 .. n
      /\ last \in Nat /\ 1 \in 1 .. n /\ n \in 1 .. n
  BY <1>0, <1>p DEF SenderTypes
<1>2. \A j \in 1 .. n : unit[j] \in Seen
  BY <1>1
<1>3. \A j \in 1 .. n : /\ unit[j].at \in Nat /\ unit[j].place \in Nat
                        /\ unit[j].part_of.size \in Nat
  BY <1>2 DEF Seen
<1>4. ASSUME NEW j \in 1 .. n PROVE unit[j].at = last + j
  <2>1. last + j <= unit[j].at /\ unit[j].number = unit[j].at % Numbers
    BY <1>1, <1>p DEF Placed
  <2>2. n - j <= unit[n].at - unit[j].at
    BY <1>1, <1>p DEF Rising
  <2>3. /\ Numbers \in Nat /\ unit[j].at \in Nat /\ unit[n].at \in Nat
        /\ unit[n].at - last - n < Numbers
    BY <1>0, <1>1, <1>3, SenderAssumption
  <2>4. last + j \in Nat /\ unit[j].at - (last + j) < Numbers
    BY <1>1, <2>1, <2>2, <2>3
  <2>5. unit[j].at % Numbers = (last + j) % Numbers
    BY <1>0, <2>1
  <2> QED
    BY <1>3, <2>1, <2>4, <2>5, SameNumber
<1> DEFINE s == unit[1].part_of.size
<1>5. /\ Before(unit[1]) = last /\ Through(unit[1]) = last + s
      /\ s \in Nat \ {0}
  <2>1. /\ last <= unit[1].at - unit[1].place
        /\ 1 <= unit[1].place /\ unit[1].place <= s
    BY <1>1, <1>p DEF Placed, Before
  <2>2. unit[1].at = last + 1
    BY <1>1, <1>4
  <2>3. s \in Nat /\ unit[1].place \in Nat
    BY <1>1, <1>3
  <2> QED
    BY <1>1, <2>1, <2>2, <2>3 DEF Before, Through
<1>6. ASSUME NEW j \in 1 .. n, j <= s
      PROVE  unit[j].place = j /\ unit[j].part_of = unit[1].part_of
  <2>1. Before(unit[1]) < unit[j].at /\ unit[j].at <= Through(unit[1])
    BY <1>1, <1>4, <1>5, <1>6
  <2>2. /\ Before(unit[j]) = Before(unit[1])
        /\ unit[j].part_of = unit[1].part_of
    BY <1>1, <1>p, <2>1 DEF Disjoint
  <2> QED
    BY <1>1, <1>3, <1>4, <1>5, <2>2 DEF Before
<1>7. n <= s
  <2> SUFFICES ASSUME s < n PROVE FALSE
    BY <1>1, <1>5
  <2>1. s \in 1 .. n
    BY <1>1, <1>5
  <2>2. unit[s].place = s /\ unit[s].part_of.size = s
    BY <1>5, <1>6, <2>1
  <2>3. unit[s].marker /\ s \in DOMAIN unit
    BY <1>1, <1>p, <2>1, <2>2, Zenon DEF Marked
  <2> QED
    BY <1>p, <2>3 DEF Marked
<1>8. n = s
  <2>1. unit[n].place = n /\ unit[n].part_of = unit[1].part_of
    BY <1>1, <1>6, <1>7
  <2>2. unit[n].place = unit[n].part_of.size
    BY <1>0, <1>1, <1>p, Zenon DEF Marked
  <2> QED
    BY <2>1, <2>2
<1>9. i <= s
  BY <1>1, <1>8
<1> QED
  BY <1>1, <1>6, <1>7, <1>8, <1>9

LEMMA WholeInit == SenderInit => WholeInv
<1> SUFFICES ASSUME SenderInit PROVE WholeInv
  OBVIOUS
<1>1. Numbers \in Nat \ {0}
  BY SenderAssumption
<1>2. 0 % Numbers = 0
  BY <1>1, SMT
<1>3. unit = <<>> /\ DOMAIN unit = {} /\ made = 0 /\ left = 0 /\ last = 0
  BY DEF SenderInit
<1>4. buffer.meta.size = 0
  BY DEF SenderInit, Init
<1>5. SenderTypes
  BY <1>2, <1>3, <1>4 DEF SenderInit, SenderTypes
<1> QED
  BY <1>3, <1>5 DEF WholeInv, Placed, Marked, Rising, Disjoint, Current

\* The packet about to be sent.
Mine == Packet(Next16(rtp), left = 1)

LEMMA MineFacts ==
  ASSUME IInv, WholeInv, pc = "send"
  PROVE  /\ Mine \in Seen
         /\ Mine.at = made + 1 /\ Mine.number = Mine.at % Numbers
         /\ 1 <= Mine.place /\ Mine.place <= Mine.part_of.size
         /\ Mine.part_of = buffer.meta
         /\ Mine.marker <=> Mine.place = Mine.part_of.size
         /\ Before(Mine) = Start /\ Through(Mine) = Start + buffer.meta.size
         /\ left \in Nat \ {0} /\ buffer.meta.size \in Nat /\ made \in Nat
         /\ Start \in Int /\ Start <= made /\ Start + buffer.meta.size = made + left
<1>1. /\ left \in Nat \ {0} /\ made \in Nat /\ left <= buffer.meta.size
      /\ rtp = made % Numbers
  BY DEF WholeInv, SenderTypes
<1>2. /\ buffer.meta \in [size : Nat, is_idr : BOOLEAN, sequence : Int]
      /\ buffer.meta.size \in Nat
  BY BufferTyped
<1>3. (made + 1) % Numbers \in Nat
  BY <1>1, SenderAssumption, SMT
<1>4. Next16(rtp) = (made + 1) % Numbers
  BY <1>1, NextNumber DEF Next16
<1>5. /\ Mine.number = (made + 1) % Numbers /\ Mine.marker = (left = 1)
      /\ Mine.part_of = buffer.meta /\ Mine.at = made + 1
      /\ Mine.place = buffer.meta.size - left + 1
  BY <1>4 DEF Mine, Packet
<1>6. Mine \in Seen
  <2>1. /\ (made + 1) % Numbers \in Nat /\ (left = 1) \in BOOLEAN
        /\ buffer.meta.size - left + 1 \in Nat /\ made + 1 \in Nat
    BY <1>1, <1>2, <1>3
  <2> QED
    BY <1>2, <1>4, <2>1 DEF Mine, Packet, Seen
<1>7. left = 1 <=> buffer.meta.size - left + 1 = buffer.meta.size
  BY <1>1, <1>2
<1>8. Mine.marker <=> Mine.place = Mine.part_of.size
  BY <1>5, <1>7
<1>9. /\ Before(Mine) = Start /\ Through(Mine) = Start + buffer.meta.size
  BY <1>1, <1>2, <1>5 DEF Before, Through, Start
<1>10. /\ 1 <= Mine.place /\ Mine.place <= Mine.part_of.size
  BY <1>1, <1>2, <1>5
<1>11. Start \in Int /\ Start <= made /\ Start + buffer.meta.size = made + left
  BY <1>1, <1>2 DEF Start
<1> QED
  BY <1>1, <1>2, <1>5, <1>6, <1>8, <1>9, <1>10, <1>11

\* What has arrived, seen from the unit in hand.
LEMMA ArrivedFacts ==
  ASSUME IInv, WholeInv, pc = "send", NEW i \in DOMAIN unit
  PROVE  /\ unit[i].at \in Nat /\ Before(unit[i]) \in Int
         /\ Through(unit[i]) \in Int
         /\ \/ unit[i].at <= Start /\ Through(unit[i]) <= Start
            \/ /\ Start < unit[i].at /\ Before(unit[i]) = Start
               /\ unit[i].part_of = buffer.meta
               /\ Through(unit[i]) = Start + buffer.meta.size
<1>1. unit[i] \in Seen
  BY DEF WholeInv, SenderTypes
<1>2. /\ unit[i].at \in Nat /\ unit[i].place \in Nat
      /\ unit[i].part_of.size \in Nat
  BY <1>1 DEF Seen
<1>3. left # 0
  BY DEF WholeInv, SenderTypes
<1>4. \/ unit[i].at <= Start /\ Through(unit[i]) <= Start
      \/ /\ Start < unit[i].at
         /\ Before(unit[i]) = Start /\ unit[i].part_of = buffer.meta
  BY <1>3 DEF WholeInv, Current
<1> QED
  BY <1>2, <1>4 DEF Before, Through

LEMMA SendTypes ==
  ASSUME IInv, WholeInv, SendPacket
  PROVE  /\ made' = made + 1 /\ left' = left - 1 /\ buffer' = buffer
         /\ Start' = Start
         /\ made' \in Nat /\ left' \in Nat /\ rtp' = made' % Numbers
         /\ left' <= buffer'.meta.size
         /\ pc' = "send" <=> left' # 0
<1>1. /\ pc = "send" /\ made' = made + 1 /\ left' = left - 1 /\ buffer' = buffer
      /\ rtp' = Next16(rtp)
      /\ pc' = IF left = 1 THEN "drain" ELSE "send"
  BY DEF SendPacket, Goto, Number, vars
<1>2. left \in Nat \ {0} /\ made \in Nat /\ buffer.meta.size \in Nat
  BY <1>1, MineFacts
<1>3. rtp = made % Numbers /\ left <= buffer.meta.size
  BY DEF WholeInv, SenderTypes
<1>4. Next16(rtp) = (made + 1) % Numbers
  BY <1>2, <1>3, NextNumber DEF Next16
<1> QED
  BY <1>1, <1>2, <1>3, <1>4 DEF Start

\* The unit in hand ends, or goes on, behind what has arrived.
LEMMA SendCurrent ==
  ASSUME IInv, WholeInv, SendPacket, NEW p,
         p.at \in Nat, Before(p) \in Int, Through(p) \in Int,
         \/ p.at <= Start /\ Through(p) <= Start
         \/ /\ Start < p.at /\ Before(p) = Start /\ p.part_of = buffer.meta
            /\ Through(p) = Start + buffer.meta.size
  PROVE  /\ left' = 0 => Through(p) <= made'
         /\ \/ p.at <= Start' /\ Through(p) <= Start'
            \/ /\ Start' < p.at /\ Before(p) = Start'
               /\ p.part_of = buffer'.meta
<1>1. pc = "send"
  BY DEF SendPacket
<1> QED
  BY <1>1, SendTypes, MineFacts

LEMMA SendLost ==
  ASSUME IInv, WholeInv, SendPacket, UNCHANGED <<unit, last>>
  PROVE  WholeInv'
<1>1. pc = "send"
  BY DEF SendPacket
<1>2. SenderTypes'
  BY <1>1, SendTypes, MineFacts DEF WholeInv, SenderTypes
<1>3. Placed'
  BY <1>1, SendTypes, ArrivedFacts, MineFacts DEF WholeInv, Placed, Before
<1>4. Marked' /\ Rising' /\ Disjoint'
  BY DEF WholeInv, Marked, Rising, Disjoint, Before, Through
<1>5. Current'
  <2>1. ASSUME NEW i \in DOMAIN unit
        PROVE  /\ left' = 0 => Through(unit[i]) <= made'
               /\ \/ unit[i].at <= Start' /\ Through(unit[i]) <= Start'
                  \/ /\ Start' < unit[i].at /\ Before(unit[i]) = Start'
                     /\ unit[i].part_of = buffer'.meta
    BY <1>1, <2>1, ArrivedFacts, SendCurrent
  <2>2. last' <= Start'
    BY <1>1, SendTypes, MineFacts DEF WholeInv, Current
  <2> QED
    BY <2>1, <2>2 DEF Current, Before, Through
<1> QED
  BY <1>2, <1>3, <1>4, <1>5 DEF WholeInv

\* The first packet to arrive after one with the marker.
LEMMA SendStarts ==
  ASSUME IInv, WholeInv, SendPacket, unit # <<>>, unit[Len(unit)].marker,
         unit' = <<Mine>>, last' = unit[Len(unit)].at
  PROVE  WholeInv'
<1> DEFINE n == Len(unit)
<1>1. pc = "send"
  BY DEF SendPacket
<1>2. unit \in Seq(Seen) /\ n \in DOMAIN unit /\ unit[n] \in Seen
  BY DEF WholeInv, SenderTypes
<1>3. /\ unit[n].place = unit[n].part_of.size
      /\ unit[n].part_of.size \in Nat /\ unit[n].at \in Nat
  <2>1. unit[n].place = unit[n].part_of.size
    BY <1>2, Zenon DEF WholeInv, Marked
  <2> QED
    BY <1>2, <2>1 DEF Seen
<1>4. last' <= Start
  <2>1. Through(unit[n]) = unit[n].at
    BY <1>3 DEF Through
  <2>2. unit[n].at <= made
    BY <1>2 DEF WholeInv, Placed
  <2>3. /\ made \in Nat /\ left \in Nat \ {0}
        /\ Start + buffer.meta.size = made + left
    BY <1>1, MineFacts
  <2>4. \/ unit[n].at <= Start
        \/ Through(unit[n]) = Start + buffer.meta.size
    BY <1>1, <1>2, ArrivedFacts
  <2> QED
    BY <1>3, <2>1, <2>2, <2>3, <2>4
<1>5. /\ DOMAIN unit' = {1} /\ unit'[1] = Mine /\ Len(unit') = 1
      /\ Mine.at \in Nat /\ Mine.at = made'
  BY <1>1, MineFacts, SendTypes
<1>6. SenderTypes'
  <2>1. unit' \in Seq(Seen)
    BY <1>1, MineFacts
  <2>2. last' \in 0 .. made'
    BY <1>1, <1>3, <1>4, MineFacts, SendTypes
  <2> QED
    BY <1>1, <2>1, <2>2, SendTypes DEF SenderTypes
<1>7. Placed'
  BY <1>1, <1>3, <1>4, <1>5, MineFacts, SendTypes DEF Placed, Before
<1>8. Marked'
  <2>1. Mine.marker <=> Mine.place = Mine.part_of.size
    BY <1>1, MineFacts
  <2> QED
    BY <1>5, <2>1, Zenon DEF Marked
<1>9. Rising' /\ Disjoint'
  BY <1>5 DEF Rising, Disjoint, Before, Through
<1>10. Current'
  <2>1. \A i \in DOMAIN unit' : Through(unit'[i]) = Start' + buffer'.meta.size
    BY <1>1, <1>5, MineFacts, SendTypes DEF Through
  <2>2. left' = 0 => Start' + buffer'.meta.size = made'
    BY <1>1, MineFacts, SendTypes
  <2>3. \A i \in DOMAIN unit' : /\ Start' < unit'[i].at
                                /\ Before(unit'[i]) = Start'
                                /\ unit'[i].part_of = buffer'.meta
    BY <1>1, <1>5, MineFacts, SendTypes DEF Before
  <2>4. Through(Mine)' = Through(Mine') /\ last' <= Start'
    BY <1>4, SendTypes DEF Through
  <2> QED
    BY <2>1, <2>2, <2>3, <2>4, SendTypes DEF Current, Before, Through
<1> QED
  BY <1>6, <1>7, <1>8, <1>9, <1>10 DEF WholeInv

\* A packet that arrives behind others of which none ends the unit.
LEMMA SendJoins ==
  ASSUME IInv, WholeInv, SendPacket,
         unit # <<>> => ~unit[Len(unit)].marker,
         unit' = Append(unit, Mine), last' = last
  PROVE  WholeInv'
<1> DEFINE n == Len(unit)
<1>1. pc = "send" /\ unit \in Seq(Seen) /\ n \in Nat /\ DOMAIN unit = 1 .. n
  BY DEF SendPacket, WholeInv, SenderTypes
<1>2. Mine \in Seen /\ Mine.at = made + 1 /\ Mine.at = made'
  BY <1>1, MineFacts, SendTypes
<1>3. /\ unit' \in Seq(Seen) /\ Len(unit') = n + 1
      /\ DOMAIN unit' = 1 .. n + 1 /\ unit'[n + 1] = Mine
      /\ \A i \in 1 .. n : unit'[i] = unit[i]
  BY <1>1, <1>2
<1>4. \A i \in 1 .. n : ~unit[i].marker
  BY <1>1 DEF WholeInv, Marked
<1>5. ASSUME NEW i \in 1 .. n
      PROVE  /\ unit[i].at \in Nat /\ Before(unit[i]) \in Int
             /\ Through(unit[i]) \in Int
             /\ \/ unit[i].at <= Start /\ Through(unit[i]) <= Start
                \/ /\ Start < unit[i].at /\ Before(unit[i]) = Start
                   /\ unit[i].part_of = buffer.meta
                   /\ Through(unit[i]) = Start + buffer.meta.size
  BY <1>1, ArrivedFacts
<1>6. last + n <= made /\ last <= Start /\ last \in Nat
  <2>1. last \in Nat /\ last <= made /\ left # 0
    BY <1>1, MineFacts DEF WholeInv, SenderTypes
  <2>2. CASE n = 0
    BY <2>1, <2>2, <1>1, MineFacts DEF WholeInv, Current
  <2>3. CASE n # 0
    <3>1. n \in 1 .. n
      BY <1>1, <2>3
    <3>2. last + n <= unit[n].at /\ unit[n].at <= made
      BY <1>1, <3>1 DEF WholeInv, Placed
    <3> QED
      BY <1>1, <1>5, <2>1, <3>1, <3>2, MineFacts DEF WholeInv, Current
  <2> QED
    BY <2>2, <2>3
<1>7. SenderTypes'
  <2>1. last' \in 0 .. made'
    BY <1>1, <1>6, MineFacts, SendTypes
  <2> QED
    BY <1>1, <1>3, <2>1, SendTypes DEF SenderTypes
<1>8. Placed'
  <2>1. ASSUME NEW i \in 1 .. n + 1
        PROVE  /\ unit'[i].at <= made'
               /\ 1 <= unit'[i].place
               /\ unit'[i].place <= unit'[i].part_of.size
               /\ unit'[i].number = unit'[i].at % Numbers
               /\ last' + i <= unit'[i].at
               /\ last' <= unit'[i].at - unit'[i].place
    <3>1. CASE i \in 1 .. n
      <4>1. made' = made + 1 /\ made \in Nat /\ last' = last
        BY <1>1, MineFacts, SendTypes
      <4>2. /\ unit[i].at <= made
            /\ 1 <= unit[i].place /\ unit[i].place <= unit[i].part_of.size
            /\ unit[i].number = unit[i].at % Numbers
            /\ last + i <= unit[i].at /\ last <= unit[i].at - unit[i].place
        BY <1>1, <3>1 DEF WholeInv, Placed, Before
      <4> QED
        BY <1>3, <1>5, <3>1, <4>1, <4>2
    <3>2. CASE i = n + 1
      BY <1>1, <1>2, <1>3, <1>6, <3>2, SendTypes, MineFacts DEF Before
    <3> QED
      BY <1>1, <3>1, <3>2
  <2> QED
    BY <1>3, <2>1 DEF Placed, Before
<1>9. Marked'
  <2>1. ASSUME NEW i \in 1 .. n + 1
        PROVE  /\ unit'[i].marker <=> unit'[i].place = unit'[i].part_of.size
               /\ unit'[i].marker => i = n + 1
    <3>1. CASE i \in 1 .. n
      <4>1. unit'[i] = unit[i] /\ ~unit[i].marker
        BY <1>3, <1>4, <3>1
      <4>2. unit[i].marker <=> unit[i].place = unit[i].part_of.size
        BY <1>1, <3>1, Zenon DEF WholeInv, Marked
      <4> QED
        BY <4>1, <4>2
    <3>2. CASE i = n + 1
      <4>1. Mine.marker <=> Mine.place = Mine.part_of.size
        BY <1>1, MineFacts
      <4> QED
        BY <1>3, <3>2, <4>1, Zenon
    <3> QED
      BY <1>1, <3>1, <3>2
  <2> QED
    BY <1>3, <2>1, Zenon DEF Marked
<1>10. Rising'
  <2>1. ASSUME NEW i \in 1 .. n + 1, NEW j \in 1 .. n + 1, i <= j
        PROVE  j - i <= unit'[j].at - unit'[i].at
    <3>1. CASE j \in 1 .. n
      BY <1>1, <1>3, <2>1, <3>1 DEF WholeInv, Rising
    <3>2. CASE i = n + 1 /\ j = n + 1
      BY <1>1, <1>2, <1>3, <3>2, MineFacts
    <3>3. CASE i \in 1 .. n /\ j = n + 1
      <4>1. n \in 1 .. n /\ i <= n
        BY <1>1, <3>3
      <4>2. n - i <= unit[n].at - unit[i].at /\ unit[n].at <= made
        BY <1>1, <3>3, <4>1 DEF WholeInv, Rising, Placed
      <4>3. /\ made \in Nat /\ unit[n].at \in Nat /\ unit[i].at \in Nat
            /\ unit'[j].at = made + 1 /\ unit'[i].at = unit[i].at
        BY <1>1, <1>2, <1>3, <1>5, <3>3, <4>1, MineFacts
      <4> QED
        BY <1>1, <3>3, <4>2, <4>3
    <3> QED
      BY <1>1, <2>1, <3>1, <3>2, <3>3
  <2> QED
    BY <1>3, <2>1 DEF Rising
<1>11. Disjoint'
  <2>1. ASSUME NEW i \in 1 .. n + 1, NEW j \in 1 .. n + 1,
               Before(unit'[i]) < unit'[j].at, unit'[j].at <= Through(unit'[i])
        PROVE  /\ Before(unit'[j]) = Before(unit'[i])
               /\ unit'[j].part_of = unit'[i].part_of
    <3>1. CASE i \in 1 .. n /\ j \in 1 .. n
      BY <1>1, <1>3, <2>1, <3>1 DEF WholeInv, Disjoint
    <3>2. CASE i = n + 1 /\ j = n + 1
      BY <3>2
    <3>3. CASE i \in 1 .. n /\ j = n + 1
      BY <1>1, <1>2, <1>3, <1>5, <2>1, <3>3, MineFacts
    <3>4. CASE i = n + 1 /\ j \in 1 .. n
      BY <1>1, <1>2, <1>3, <1>5, <2>1, <3>4, MineFacts
    <3> QED
      BY <1>1, <3>1, <3>2, <3>3, <3>4
  <2> QED
    BY <1>3, <2>1 DEF Disjoint, Before, Through
<1>12. Current'
  <2>1. ASSUME NEW i \in 1 .. n + 1
        PROVE  /\ left' = 0 => Through(unit'[i]) <= made'
               /\ \/ unit'[i].at <= Start' /\ Through(unit'[i]) <= Start'
                  \/ /\ Start' < unit'[i].at /\ Before(unit'[i]) = Start'
                     /\ unit'[i].part_of = buffer'.meta
    <3>1. CASE i \in 1 .. n
      BY <1>3, <1>5, <3>1, SendCurrent
    <3>2. CASE i = n + 1
      BY <1>1, <1>3, <3>2, MineFacts, SendTypes
    <3> QED
      BY <1>1, <3>1, <3>2
  <2>2. last' <= Start'
    BY <1>6, SendTypes
  <2> QED
    BY <1>3, <2>1, <2>2 DEF Current, Before, Through
<1> QED
  BY <1>7, <1>8, <1>9, <1>10, <1>11, <1>12 DEF WholeInv

LEMMA SendWhole == IInv /\ WholeInv /\ SendPacket => WholeInv'
<1> SUFFICES ASSUME IInv, WholeInv, SendPacket PROVE WholeInv'
  OBVIOUS
<1>1. PICK sent \in {FALSE, janus_up} :
        IF sent THEN Arrived(Mine) ELSE UNCHANGED <<unit, last>>
  BY DEF SendPacket, Mine
<1>2. CASE ~sent
  BY <1>1, <1>2, SendLost
<1>3. CASE sent /\ unit # <<>> /\ unit[Len(unit)].marker
  BY <1>1, <1>3, SendStarts DEF Arrived
<1>4. CASE sent /\ ~(unit # <<>> /\ unit[Len(unit)].marker)
  BY <1>1, <1>4, SendJoins DEF Arrived
<1> QED
  BY <1>2, <1>3, <1>4

\* A new unit in hand, or none.
LEMMA PopWhole == IInv /\ IInv' /\ WholeInv /\ PopUnit => WholeInv'
<1> SUFFICES ASSUME IInv, IInv', WholeInv, PopUnit PROVE WholeInv'
  OBVIOUS
<1>1. /\ pc = "drain" /\ left = 0
      /\ UNCHANGED <<rtp, made, unit, last>>
      /\ pc' = IF left' # 0 THEN "send" ELSE "report"
  BY DEF PopUnit, Goto, WholeInv, SenderTypes
<1>2. /\ made \in Nat /\ last \in 0 .. made /\ rtp = made % Numbers
      /\ unit \in Seq(Seen) /\ buffer'.meta.size \in Nat
  BY BufferTyped DEF WholeInv, SenderTypes, IInv, TypeOK
<1>3. left' = 0 \/ left' = buffer'.meta.size
  BY <1>1 DEF PopUnit
<1>4. SenderTypes'
  BY <1>1, <1>2, <1>3 DEF SenderTypes
<1>5. Placed' /\ Marked' /\ Rising' /\ Disjoint'
  BY <1>1 DEF WholeInv, Placed, Marked, Rising, Disjoint, Before, Through
<1>6. ASSUME NEW i \in DOMAIN unit
      PROVE  Through(unit[i]) <= made /\ unit[i].at <= made
  BY <1>1, <1>6 DEF WholeInv, Current, Placed
<1>7. left' # 0 => Start' = made
  BY <1>1, <1>2, <1>3 DEF Start
<1>8. Current'
  BY <1>1, <1>2, <1>6, <1>7 DEF Current, Through
<1> QED
  BY <1>4, <1>5, <1>8 DEF WholeInv

\* Nobody else touches the packets or the unit in hand.
LEMMA ElsewhereWhole ==
  ASSUME WholeInv, UNCHANGED <<sendVars, buffer>>, pc' = "send" <=> pc = "send"
  PROVE  WholeInv'
BY DEF WholeInv, SenderTypes, Placed, Marked, Rising, Disjoint, Current, Before,
       Through, Start, sendVars

LEMMA WholeStep == IInv /\ IInv' /\ WholeInv /\ [SenderNext]_allVars => WholeInv'
<1> SUFFICES ASSUME IInv, IInv', WholeInv, [SenderNext]_allVars PROVE WholeInv'
  OBVIOUS
<1>1. CASE SendPacket
  BY <1>1, SendWhole
<1>2. CASE PopUnit
  BY <1>2, PopWhole
<1>3. CASE Loop \/ Poll \/ PollFails \/ HandleRtcp \/ Report
  <2>1. /\ UNCHANGED <<sendVars, buffer>> /\ pc' # "send" /\ pc # "send"
    BY <1>3
    DEF Loop, Poll, PollFails, HandleRtcp, Report, Reports, Goto, vars,
        threadVars
  <2> QED
    BY <2>1, ElsewhereWhole
<1>4. CASE EncoderPushes
  <2>1. UNCHANGED <<sendVars, buffer, pc>>
    BY <1>4 DEF EncoderPushes, Push, senderVars, threadVars
  <2> QED
    BY <2>1, ElsewhereWhole
<1>5. CASE \/ EncoderTakes \/ TimePasses \/ Stop \/ Arrives \/ Relay
           \/ JanusDown \/ JanusUp \/ SenderDone \/ UNCHANGED allVars
  <2>1. UNCHANGED <<sendVars, buffer, pc>>
    BY <1>5
    DEF EncoderTakes, TimePasses, Stop, Arrives, Relay, JanusDown, JanusUp,
        SenderDone, allVars, senderVars, vars, threadVars
  <2> QED
    BY <2>1, ElsewhereWhole
<1> QED
  BY <1>1, <1>2, <1>3, <1>4, <1>5 DEF SenderNext, SenderThread

\* Packets with consecutive numbers from after a marker to the next one are a
\* whole unit, whatever was lost before or in between, however often the
\* numbers wrap (rtp_h264_packetize, send_sink).
THEOREM UnitsWhole == SenderSpec => []WholeUnits
<1>1. SenderSpec => []IInv
  BY SenderImplementsRing, RingCorrect, PTL DEF IInv
<1>2. SenderSpec => []WholeInv
  BY <1>1, WholeInit, WholeStep, PTL DEF SenderSpec
<1> QED
  BY <1>2, WholeEnough, PTL
=============================================================================
