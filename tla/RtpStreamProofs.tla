-------------------------- MODULE RtpStreamProofs --------------------------
(***************************************************************************)
(* What the browser takes for an access unit is one the encoder made, with *)
(* every NAL unit intact: for any lengths of NAL units, any payload budget *)
(* and cache, any number of sequence numbers, losses and retransmissions.  *)
(***************************************************************************)
EXTENDS RtpStream, SequenceTheorems, WellFoundedInduction, TLAPS

-----------------------------------------------------------------------------
(* Numbers.                                                                *)

\* A set of numbers has a smallest one.
LEMMA Smallest ==
  ASSUME NEW T \in SUBSET Nat, T # {}
  PROVE  \E m \in T : \A k \in T : m <= k
<1>1. \E m \in T : \A k \in T : <<k, m>> \notin OpToRel(<, Nat)
  BY NatLessThanWellFounded, WFMin, Zenon
<1>2. ASSUME NEW m \in T, NEW k \in T, <<k, m>> \notin OpToRel(<, Nat)
      PROVE  m <= k
  <2>1. <<k, m>>[1] = k /\ <<k, m>>[2] = m /\ <<k, m>> \in Nat \X Nat
    OBVIOUS
  <2>2. ~(k < m)
    BY <1>2, <2>1 DEF OpToRel
  <2> QED
    BY <2>2
<1> QED
  BY <1>1, <1>2

\* Hence induction, for a set of numbers.
LEMMA Ascends ==
  ASSUME NEW T, 0 \in T, \A n \in Nat : n \in T => n + 1 \in T
  PROVE  \A n \in Nat : n \in T
<1> SUFFICES ASSUME Nat \ T # {} PROVE FALSE
  OBVIOUS
<1>1. PICK m \in Nat \ T : \A k \in Nat \ T : m <= k
  BY Smallest
<1>2. m # 0 /\ m - 1 \in Nat
  BY <1>1
<1>3. m - 1 \in T
  BY <1>1, <1>2
<1> QED
  BY <1>1, <1>2, <1>3

\* The next number is one further on, at the wrap too.
LEMMA OneFurther ==
  ASSUME NEW N \in Nat, N > 1, NEW s \in 0 .. N - 1
  PROVE  /\ (s + 1) % N \in 0 .. N - 1
         /\ (((s + 1) % N) - s) % N = 1
<1>1. CASE s + 1 < N
  <2>1. (s + 1) % N = s + 1
    BY <1>1
  <2>2. (s + 1) - s = 1 /\ 1 % N = 1
    OBVIOUS
  <2> QED
    BY <1>1, <2>1, <2>2
<1>2. CASE s + 1 = N
  <2>1. (s + 1) % N = 0
    BY <1>2
  <2>2. 0 - s = 1 - N
    BY <1>2
  <2>3. (1 - N) % N = 1
    OBVIOUS
  <2> QED
    BY <2>1, <2>2, <2>3
<1> QED
  BY <1>1, <1>2

-----------------------------------------------------------------------------
(* The depacketizer undoes the packetizer.                                 *)

\* A payload can begin at this octet of a NAL unit.
At(unit, k, from) ==
  /\ k \in DOMAIN unit
  /\ from \in Nat \ {0}
  /\ IF unit[k] <= Budget THEN from = 1 ELSE from < unit[k]

\* The octets dealt with after the payload that begins there.
Dealt(unit, k, from) ==
  IF Body(unit, k, from).end THEN unit[k] ELSE from + Chunk

\* The first m NAL units, and those with n octets of the next.
Whole(unit, m) == [k \in 1 .. m |-> Nal(unit, k)]
Partial(unit, k, n) ==
  [i \in 1 .. k |-> IF i < k THEN Nal(unit, i) ELSE SubSeq(Nal(unit, k), 1, n)]

LEMMA UnitFacts ==
  ASSUME NEW unit \in Units, NEW k \in DOMAIN unit
  PROVE  /\ Len(unit) \in Nat \ {0} /\ DOMAIN unit = 1 .. Len(unit)
         /\ unit[k] \in Nat \ {0}
         /\ Nal(unit, k) \in Seq({k} \X Nat)
         /\ Len(Nal(unit, k)) = unit[k]
         /\ Budget \in Nat /\ Chunk \in Nat \ {0}
<1>1. unit \in Seq(Nat \ {0}) /\ unit # <<>>
  BY StreamAssumption
<1>2. unit[k] \in Nat \ {0} /\ Len(unit) \in Nat \ {0} /\ DOMAIN unit = 1 .. Len(unit)
  BY <1>1
<1>3. Nal(unit, k) \in [1 .. unit[k] -> {k} \X Nat]
  BY <1>2 DEF Nal
<1>4. Nal(unit, k) \in Seq({k} \X Nat) /\ Len(Nal(unit, k)) = unit[k]
  BY <1>2, <1>3
<1> QED
  BY <1>2, <1>4, StreamAssumption DEF Chunk

\* A NAL unit that fits a packet is sent as it is.
LEMMA SingleFacts ==
  ASSUME NEW unit, NEW k, NEW from, unit[k] <= Budget
  PROVE  /\ ~Body(unit, k, from).fu
         /\ Body(unit, k, from).end
         /\ Body(unit, k, from).payload = Nal(unit, k)
         /\ Dealt(unit, k, from) = unit[k]
<1>1. Body(unit, k, from) = Single(Nal(unit, k))
  BY Zenon DEF Body
<1>2. ~Single(Nal(unit, k)).fu
  BY DEF Single
<1>3. Single(Nal(unit, k)).end
  BY DEF Single
<1>4. Single(Nal(unit, k)).payload = Nal(unit, k)
  BY DEF Single
<1> QED
  BY <1>1, <1>2, <1>3, <1>4, Zenon DEF Dealt

\* One that does not fit is sent in fragments.
LEMMA FragmentFacts ==
  ASSUME NEW unit \in Units, NEW k, NEW from, At(unit, k, from), unit[k] > Budget
  PROVE  /\ Body(unit, k, from).fu
         /\ Body(unit, k, from).start <=> from = 1
         /\ Body(unit, k, from).end <=> unit[k] - from <= Chunk
         /\ Body(unit, k, from).header = Nal(unit, k)[1]
         /\ Body(unit, k, from).payload =
              SubSeq(Nal(unit, k), from + 1, Dealt(unit, k, from))
<1> DEFINE octets == Nal(unit, k)
           body == Body(unit, k, from)
<1>1. /\ octets \in Seq({k} \X Nat) /\ Len(octets) = unit[k]
      /\ unit[k] \in Nat \ {0} /\ Budget \in Nat
  BY UnitFacts DEF At
<1>2. body = Fragment(octets, from)
  <2>1. ~(unit[k] <= Budget)
    BY <1>1
  <2> QED
    BY <2>1, Zenon DEF Body
<1> HIDE DEF octets
<1>3. Fragment(octets, from).fu
  BY DEF Fragment
<1>4. Fragment(octets, from).start <=> from = 1
  BY Zenon DEF Fragment
<1>5. Fragment(octets, from).end <=> Len(octets) - from <= Chunk
  BY Zenon DEF Fragment
<1>6. Fragment(octets, from).header = Head(octets)
  BY DEF Fragment
<1>7. Fragment(octets, from).payload =
        SubSeq(octets, from + 1,
               IF Len(octets) - from <= Chunk THEN Len(octets) ELSE from + Chunk)
  BY DEF Fragment
<1>8. Head(octets) = octets[1]
  BY <1>1
<1>9. Dealt(unit, k, from) =
        IF Len(octets) - from <= Chunk THEN Len(octets) ELSE from + Chunk
  BY <1>1, <1>2, <1>5, Zenon DEF Dealt
<1>10. body.payload = SubSeq(octets, from + 1, Dealt(unit, k, from))
  BY <1>2, <1>7, <1>9, Zenon
<1> QED
  BY <1>1, <1>2, <1>3, <1>4, <1>5, <1>6, <1>8, <1>10, Zenon DEF octets

\* The packetizer goes on to the end of the NAL unit.
LEMMA DealtFacts ==
  ASSUME NEW unit \in Units, NEW k, NEW from, At(unit, k, from)
  PROVE  /\ Dealt(unit, k, from) \in from .. unit[k]
         /\ Body(unit, k, from).end => Dealt(unit, k, from) = unit[k]
         /\ ~Body(unit, k, from).end =>
              /\ At(unit, k, Dealt(unit, k, from))
              /\ Dealt(unit, k, from) = from + Chunk
              /\ Dealt(unit, k, from) # 1
<1>1. /\ unit[k] \in Nat \ {0} /\ Budget \in Nat /\ Chunk \in Nat \ {0}
      /\ k \in DOMAIN unit /\ from \in Nat \ {0}
      /\ IF unit[k] <= Budget THEN from = 1 ELSE from < unit[k]
  BY UnitFacts DEF At
<1>2. CASE unit[k] <= Budget
  <2>1. Body(unit, k, from).end /\ Dealt(unit, k, from) = unit[k]
    BY <1>2, SingleFacts
  <2> QED
    BY <1>1, <1>2, <2>1
<1>3. CASE unit[k] > Budget /\ Body(unit, k, from).end
  <2>1. Dealt(unit, k, from) = unit[k]
    BY <1>3, Zenon DEF Dealt
  <2> QED
    BY <1>1, <1>3, <2>1
<1>4. CASE unit[k] > Budget /\ ~Body(unit, k, from).end
  <2>1. Dealt(unit, k, from) = from + Chunk
    BY <1>4, Zenon DEF Dealt
  <2>2. ~(unit[k] - from <= Chunk)
    BY <1>4, FragmentFacts
  <2> QED
    BY <1>1, <1>4, <2>1, <2>2 DEF At
<1> QED
  BY <1>1, <1>2, <1>3, <1>4

\* Octets that follow each other.
LEMMA Joined ==
  ASSUME NEW S, NEW s \in Seq(S), NEW n \in 1 .. Len(s)
  PROVE  /\ <<s[1]>> \o SubSeq(s, 2, n) = SubSeq(s, 1, n)
         /\ \A m \in 1 .. n : SubSeq(s, 1, m) \o SubSeq(s, m + 1, n)
                                = SubSeq(s, 1, n)
         /\ SubSeq(s, 1, Len(s)) = s
<1>1. <<s[1]>> \o SubSeq(s, 2, n) = SubSeq(s, 1, n)
  OBVIOUS
<1>2. ASSUME NEW m \in 1 .. n
      PROVE  SubSeq(s, 1, m) \o SubSeq(s, m + 1, n) = SubSeq(s, 1, n)
  OBVIOUS
<1>3. SubSeq(s, 1, Len(s)) = s
  OBVIOUS
<1> QED
  BY <1>1, <1>2, <1>3

\* The payload that begins a NAL unit.
LEMMA TakesFirst ==
  ASSUME NEW unit \in Units, NEW k, At(unit, k, 1)
  PROVE  Taken(Whole(unit, k - 1), Body(unit, k, 1))
           = Partial(unit, k, Dealt(unit, k, 1))
<1> DEFINE body == Body(unit, k, 1)
           octets == Nal(unit, k)
           n == Dealt(unit, k, 1)
           first == IF body.fu THEN <<body.header>> \o body.payload
                               ELSE body.payload
<1>1. k \in DOMAIN unit
  BY DEF At
<1>2. /\ Len(unit) \in Nat /\ DOMAIN unit = 1 .. Len(unit) /\ unit[k] \in Nat \ {0}
      /\ octets \in Seq({k} \X Nat) /\ Len(octets) = unit[k] /\ Budget \in Nat
  BY <1>1, UnitFacts
<1>3. n \in 1 .. unit[k]
  BY DealtFacts
<1>4. first = SubSeq(octets, 1, n)
  <2>1. CASE unit[k] <= Budget
    <3>3. ~body.fu /\ body.payload = octets /\ n = unit[k]
      BY <2>1, SingleFacts
    <3>1. first = octets /\ n = unit[k]
      BY <3>3, Zenon
    <3>2. SubSeq(octets, 1, Len(octets)) = octets
      BY <1>2, <1>3, Joined
    <3> QED
      BY <1>2, <3>1, <3>2, Zenon
  <2>2. CASE unit[k] > Budget
    <3>4. /\ body.fu /\ body.header = octets[1]
          /\ body.payload = SubSeq(octets, 1 + 1, n)
      BY <2>2, FragmentFacts, Zenon
    <3>1. first = <<octets[1]>> \o SubSeq(octets, 1 + 1, n)
      BY <3>4, Zenon
    <3>2. <<octets[1]>> \o SubSeq(octets, 2, n) = SubSeq(octets, 1, n)
      BY <1>2, <1>3, Joined
    <3>3. 1 + 1 = 2
      OBVIOUS
    <3>5. SubSeq(octets, 1 + 1, n) = SubSeq(octets, 2, n)
      BY <3>3, Zenon
    <3> QED
      BY <3>1, <3>2, <3>5
  <2>3. unit[k] <= Budget \/ unit[k] > Budget
    BY <1>2
  <2> QED
    BY <2>1, <2>2, <2>3, Zenon
<1>5. ~(body.fu /\ ~body.start)
  <2>1. unit[k] <= Budget \/ unit[k] > Budget
    BY <1>2
  <2> QED
    BY <2>1, SingleFacts, FragmentFacts, Zenon
<1>6. Taken(Whole(unit, k - 1), body) = Append(Whole(unit, k - 1), first)
  BY <1>5, Zenon DEF Taken
<1>7. Append(Whole(unit, k - 1), SubSeq(octets, 1, n)) = Partial(unit, k, n)
  <2> DEFINE g == [i \in 1 .. k |-> Nal(unit, i)]
             taken == SubSeq(octets, 1, n)
  <2>1. k \in Nat \ {0}
    BY <1>1, <1>2
  <2>2. Whole(unit, k - 1) = [i \in 1 .. k - 1 |-> g[i]]
    BY <2>1 DEF Whole
  <2>3. Partial(unit, k, n) = [i \in 1 .. k |-> IF i < k THEN g[i] ELSE taken]
    BY <2>1 DEF Partial
  <2>4. Append(Whole(unit, k - 1), taken)
          = [i \in 1 .. k |-> IF i < k THEN g[i] ELSE taken]
    <3> DEFINE s == Whole(unit, k - 1)
    <3> SUFFICES ASSUME s = [i \in 1 .. k - 1 |-> g[i]]
                 PROVE  Append(s, taken)
                          = [i \in 1 .. k |-> IF i < k THEN g[i] ELSE taken]
      BY <2>2
    <3> HIDE DEF g, taken, s
    <3> QED
      BY <2>1
  <2> QED
    BY <2>3, <2>4
<1> QED
  BY <1>4, <1>6, <1>7, Zenon

\* One that goes on with it.
LEMMA TakesMore ==
  ASSUME NEW unit \in Units, NEW k, NEW from, At(unit, k, from), from # 1
  PROVE  Taken(Partial(unit, k, from), Body(unit, k, from))
           = Partial(unit, k, Dealt(unit, k, from))
<1> DEFINE body == Body(unit, k, from)
           octets == Nal(unit, k)
           n == Dealt(unit, k, from)
           nals == Partial(unit, k, from)
<1>1. /\ k \in DOMAIN unit /\ from \in Nat \ {0}
      /\ Len(unit) \in Nat /\ DOMAIN unit = 1 .. Len(unit) /\ unit[k] \in Nat \ {0}
      /\ octets \in Seq({k} \X Nat) /\ Len(octets) = unit[k] /\ Budget \in Nat
  BY UnitFacts DEF At
<1>2. unit[k] > Budget /\ from < unit[k]
  BY <1>1 DEF At
<1>3. n \in from .. unit[k]
  BY DealtFacts
<1>4. body.fu /\ ~body.start /\ body.payload = SubSeq(octets, from + 1, n)
  BY <1>2, FragmentFacts, Zenon
<1>5. SubSeq(octets, 1, from) \o SubSeq(octets, from + 1, n) = SubSeq(octets, 1, n)
  <2> HIDE DEF octets, n
  <2>1. n \in 1 .. Len(octets) /\ from \in 1 .. n
    BY <1>1, <1>3
  <2> QED
    BY <1>1, <2>1, Joined
<1>6. Len(nals) = k /\ nals # <<>> /\ nals[k] = SubSeq(octets, 1, from)
  BY <1>1 DEF Partial
<1>7. Taken(nals, body) = [nals EXCEPT ![Len(nals)] = @ \o body.payload]
  BY <1>4, <1>6, Zenon DEF Taken
<1>8. Taken(nals, body) = [nals EXCEPT ![k] = nals[k] \o body.payload]
  <2> HIDE DEF nals, body
  <2> QED
    BY <1>6, <1>7
<1>9. [nals EXCEPT ![k] = SubSeq(octets, 1, n)] = Partial(unit, k, n)
  <2> DEFINE g == [i \in 1 .. k |-> Nal(unit, i)]
             begun == SubSeq(octets, 1, from)
             taken == SubSeq(octets, 1, n)
  <2>1. k \in Nat \ {0}
    BY <1>1
  <2>2. nals = [i \in 1 .. k |-> IF i < k THEN g[i] ELSE begun]
    BY <2>1 DEF Partial
  <2>3. Partial(unit, k, n) = [i \in 1 .. k |-> IF i < k THEN g[i] ELSE taken]
    BY <2>1 DEF Partial
  <2>4. [nals EXCEPT ![k] = taken]
          = [i \in 1 .. k |-> IF i < k THEN g[i] ELSE taken]
    <3> SUFFICES ASSUME nals = [i \in 1 .. k |-> IF i < k THEN g[i] ELSE begun]
                 PROVE  [nals EXCEPT ![k] = taken]
                          = [i \in 1 .. k |-> IF i < k THEN g[i] ELSE taken]
      BY <2>2
    <3> HIDE DEF g, begun, taken, nals
    <3>1. DOMAIN nals = 1 .. k /\ \A i \in 1 .. k - 1 : nals[i] = g[i]
      BY <2>1
    <3> QED
      BY <2>1, <3>1
  <2> QED
    BY <2>3, <2>4
<1> QED
  BY <1>4, <1>5, <1>6, <1>8, <1>9, Zenon

\* A NAL unit that has ended is whole.
LEMMA EndIsWhole ==
  ASSUME NEW unit \in Units, NEW k \in DOMAIN unit
  PROVE  Partial(unit, k, unit[k]) = Whole(unit, k)
<1>1. /\ Nal(unit, k) \in Seq({k} \X Nat) /\ Len(Nal(unit, k)) = unit[k]
      /\ k \in Nat
  BY UnitFacts
<1>2. SubSeq(Nal(unit, k), 1, unit[k]) = Nal(unit, k)
  BY <1>1, UnitFacts, Joined
<1> QED
  BY <1>1, <1>2 DEF Partial, Whole

-----------------------------------------------------------------------------
(* The packets that are made.                                              *)

Bodies == {Body(unit, k, from) : unit \in Units, k \in Nat, from \in Nat}
AnyPacket == [number : Nat, index : Nat, time : Nat, nal : Nat, offset : Nat,
              marker : BOOLEAN, body : Bodies]

\* A packet carries what the packetizer cuts at the place it names.
Formed(p) ==
  /\ p.time \in 1 .. Len(units)
  /\ At(units[p.time], p.nal, p.offset)
  /\ p.body = Body(units[p.time], p.nal, p.offset)
  /\ p.marker = (p.body.end /\ p.nal = Len(units[p.time]))

\* The place behind a packet.
Follows(p, time, k, from) ==
  IF p.marker THEN time = p.time + 1 /\ k = 1 /\ from = 1
  ELSE IF p.body.end THEN time = p.time /\ k = p.nal + 1 /\ from = 1
  ELSE time = p.time /\ k = p.nal /\ from = p.offset + Chunk

\* Where the packetizer is: between units, or behind the packet made last.
HandOK ==
  /\ nal = 0 => \/ units = <<>> /\ made = <<>>
                \/ /\ made # <<>> /\ made[Len(made)].marker
                   /\ made[Len(made)].time = Len(units)
  /\ nal # 0 => /\ units # <<>> /\ At(units[Len(units)], nal, offset)
                /\ made = <<>> => Len(units) = 1 /\ nal = 1 /\ offset = 1
                /\ made # <<>> =>
                     Follows(made[Len(made)], Len(units), nal, offset)

Typed ==
  /\ sequence \in 0 .. Numbers - 1
  /\ units \in Seq(Units)
  /\ made \in Seq(AnyPacket)

Numbered == \A n \in 1 .. Len(made) : made[n].index = n
WellFormed == \A n \in 1 .. Len(made) : Formed(made[n])

\* The packets made follow each other through the units.
InOrder ==
  /\ made # <<>> => made[1].time = 1 /\ made[1].nal = 1 /\ made[1].offset = 1
  /\ \A n \in 2 .. Len(made) :
       Follows(made[n - 1], made[n].time, made[n].nal, made[n].offset)

\* What is kept, on its way or received was made, and has its own index.
Genuine ==
  /\ \A p \in wire : \E n \in 1 .. Len(made) : p = made[n]
  /\ \A slot \in DOMAIN cache :
       cache[slot] = Nothing \/ \E n \in 1 .. Len(made) : cache[slot] = made[n]
  /\ \A n \in DOMAIN got : n \in 1 .. Len(made) /\ got[n] = made[n]

MadeInv == Typed /\ Numbered /\ WellFormed /\ InOrder /\ HandOK
IInv == MadeInv /\ Genuine /\ DOMAIN cache = Slots

LEMMA InvInit == Init => IInv
<1> SUFFICES ASSUME Init PROVE IInv
  OBVIOUS
<1>1. Typed
  BY StreamAssumption DEF Init, Typed
<1>2. Numbered /\ WellFormed /\ InOrder
  BY DEF Init, Numbered, WellFormed, InOrder
<1>3. HandOK
  BY DEF Init, HandOK
<1>4. Genuine /\ DOMAIN cache = Slots
  BY DEF Init, Genuine
<1> QED
  BY <1>1, <1>2, <1>3, <1>4 DEF IInv, MadeInv

LEMMA BeginInv == \A unit \in Units : IInv /\ SendUnit(unit) => IInv'
<1> SUFFICES ASSUME NEW unit \in Units, IInv, SendUnit(unit) PROVE IInv'
  OBVIOUS
<1>1. /\ nal = 0 /\ nal' = 1 /\ offset' = 1 /\ units' = Append(units, unit)
      /\ UNCHANGED <<sequence, made, cache, wire, got>>
  BY DEF SendUnit
<1>2. units \in Seq(Units) /\ made \in Seq(AnyPacket) /\ Len(units) \in Nat
  BY DEF IInv, MadeInv, Typed
<1>3. /\ units' \in Seq(Units) /\ Len(units') = Len(units) + 1
      /\ units'[Len(units')] = unit
      /\ \A t \in 1 .. Len(units) : units'[t] = units[t]
  BY <1>1, <1>2
<1>4. Typed'
  BY <1>1, <1>3 DEF IInv, MadeInv, Typed
<1>5. Numbered' /\ InOrder'
  BY <1>1 DEF IInv, MadeInv, Numbered, InOrder, Follows
<1>6. WellFormed'
  <2> SUFFICES ASSUME NEW n \in 1 .. Len(made) PROVE Formed(made[n])'
    BY <1>1 DEF WellFormed
  <2>1. Formed(made[n])
    BY DEF IInv, MadeInv, WellFormed
  <2>2. made'[n] = made[n] /\ made[n].time \in 1 .. Len(units)
    BY <1>1, <2>1 DEF Formed
  <2>3. /\ made[n].time \in 1 .. Len(units')
        /\ units'[made[n].time] = units[made[n].time]
    BY <1>2, <1>3, <2>2
  <2> QED
    BY <2>1, <2>2, <2>3, Zenon DEF Formed
<1>7. HandOK'
  <2>1. At(unit, 1, 1)
    <3>1. unit \in Seq(Nat \ {0}) /\ unit # <<>> /\ Budget \in Nat
      BY StreamAssumption
    <3>2. 1 \in DOMAIN unit /\ unit[1] \in Nat
      BY <3>1
    <3> QED
      BY <3>1, <3>2, StreamAssumption DEF At
  <2>2. units' # <<>>
    BY <1>2, <1>3
  <2>3. made = <<>> => Len(units') = 1
    BY <1>1, <1>3 DEF IInv, MadeInv, HandOK
  <2>4. ASSUME made # <<>>
        PROVE  made[Len(made)].marker /\ Len(units') = made[Len(made)].time + 1
    BY <1>1, <1>3, <2>4 DEF IInv, MadeInv, HandOK
  <2>5. made # <<>> => Follows(made[Len(made)], Len(units'), 1, 1)
    BY <2>4 DEF Follows
  <2> QED
    BY <1>1, <1>3, <2>1, <2>2, <2>3, <2>5 DEF HandOK, Follows, At
<1>8. Genuine' /\ (DOMAIN cache = Slots)'
  BY <1>1 DEF IInv, Genuine, Slots
<1> QED
  BY <1>4, <1>5, <1>6, <1>7, <1>8 DEF IInv, MadeInv

\* What the next packet is.
LEMMA PacketFacts ==
  ASSUME IInv, NEW fate, SendPacket(fate)
  PROVE  LET unit == units[Len(units)]
             packet == Packet(fate) IN
         /\ Len(units) \in Nat \ {0} /\ unit \in Units /\ At(unit, nal, offset)
         /\ packet \in AnyPacket
         /\ packet.index = Len(made) + 1
         /\ packet.number \in 0 .. Numbers - 1
         /\ packet.time = Len(units) /\ packet.nal = nal /\ packet.offset = offset
         /\ packet.body = Body(unit, nal, offset)
         /\ packet.marker = (packet.body.end /\ nal = Len(unit))
<1> DEFINE unit == units[Len(units)]
           body == Body(unit, nal, offset)
           packet == Packet(fate)
<1>1. nal # 0
  BY DEF SendPacket
<1>2. /\ units \in Seq(Units) /\ units # <<>> /\ At(unit, nal, offset)
      /\ made \in Seq(AnyPacket) /\ sequence \in 0 .. Numbers - 1
  BY <1>1 DEF IInv, MadeInv, Typed, HandOK
<1>3. Len(units) \in Nat \ {0} /\ unit \in Units /\ Len(made) \in Nat
  BY <1>2
<1>4. /\ (sequence + 1) % Numbers \in 0 .. Numbers - 1
      /\ (((sequence + 1) % Numbers) - sequence) % Numbers = 1
  BY <1>2, StreamAssumption, OneFurther
<1>5. Number(fate) \in 0 .. Numbers - 1 /\ (Number(fate) - sequence) % Numbers = 1
  BY <1>4 DEF Number
<1>6. Reached = Len(made)
  <2>1. CASE made = <<>>
    BY <2>1 DEF Reached
  <2>2. CASE made # <<>>
    <3>1. Len(made) \in 1 .. Len(made)
      BY <1>2, <2>2
    <3> QED
      BY <2>2, <3>1 DEF Reached, IInv, MadeInv, Numbered
  <2> QED
    BY <2>1, <2>2
<1>7. Index(Number(fate)) = Len(made) + 1
  BY <1>3, <1>5, <1>6 DEF Index
<1>8. Marker(unit, nal, body) = (body.end /\ nal = Len(unit))
  BY Zenon DEF Marker
<1>9. packet = [number |-> Number(fate), index |-> Index(Number(fate)),
                time |-> Len(units), nal |-> nal, offset |-> offset,
                marker |-> Marker(unit, nal, body), body |-> body]
  BY Zenon DEF Packet
<1>10. /\ packet.number = Number(fate) /\ packet.index = Index(Number(fate))
       /\ packet.time = Len(units) /\ packet.nal = nal /\ packet.offset = offset
       /\ packet.body = body
  <2> DEFINE marker == Marker(unit, nal, body)
  <2>1. packet = [number |-> Number(fate), index |-> Index(Number(fate)),
                  time |-> Len(units), nal |-> nal, offset |-> offset,
                  marker |-> marker, body |-> body]
    BY <1>9
  <2> HIDE DEF unit, body, marker, packet
  <2> QED
    BY <2>1
<1>11. packet.marker = Marker(unit, nal, body)
  <2> DEFINE marker == Marker(unit, nal, body)
  <2>1. packet = [number |-> Number(fate), index |-> Index(Number(fate)),
                  time |-> Len(units), nal |-> nal, offset |-> offset,
                  marker |-> marker, body |-> body]
    BY <1>9
  <2>2. packet.marker = marker
    <3> HIDE DEF unit, body, marker, packet
    <3> QED
      BY <2>1
  <2> HIDE DEF unit, body, packet
  <2> QED
    BY <2>2, Zenon
<1>12. nal \in Nat /\ offset \in Nat
  BY <1>2, <1>3, UnitFacts DEF At
<1>13. body \in Bodies
  BY <1>3, <1>12 DEF Bodies
<1>14. Marker(unit, nal, body) \in BOOLEAN
  BY <1>8, Zenon
<1>15. packet \in AnyPacket
  <2> DEFINE marker == Marker(unit, nal, body)
  <2>1. /\ Number(fate) \in Nat /\ Index(Number(fate)) \in Nat /\ Len(units) \in Nat
    BY <1>3, <1>5, <1>7, StreamAssumption
  <2> HIDE DEF unit, body, marker, packet
  <2> QED
    BY <1>9, <1>12, <1>13, <1>14, <2>1 DEF AnyPacket, marker, packet
<1> QED
  BY <1>2, <1>3, <1>5, <1>7, <1>8, <1>10, <1>11, <1>15, Zenon

\* And how it is added to those made.
LEMMA MadeGrows ==
  ASSUME IInv, NEW fate, SendPacket(fate)
  PROVE  /\ made' = Append(made, Packet(fate))
         /\ Len(made) \in Nat /\ Len(made') = Len(made) + 1 /\ made' # <<>>
         /\ made' \in Seq(AnyPacket)
         /\ made'[Len(made) + 1] = Packet(fate)
         /\ \A n \in 1 .. Len(made) : made'[n] = made[n]
         /\ UNCHANGED <<units, got>>
<1> DEFINE packet == Packet(fate)
<1>1. made' = Append(made, packet) /\ UNCHANGED <<units, got>>
  BY DEF SendPacket
<1>2. made \in Seq(AnyPacket) /\ packet \in AnyPacket
  BY PacketFacts DEF IInv, MadeInv, Typed
<1> HIDE DEF packet
<1>3. /\ Len(made) \in Nat /\ Len(made') = Len(made) + 1 /\ made' # <<>>
      /\ made' \in Seq(AnyPacket)
      /\ made'[Len(made) + 1] = packet
      /\ \A n \in 1 .. Len(made) : made'[n] = made[n]
  BY <1>1, <1>2
<1> QED
  BY <1>1, <1>3 DEF packet

\* Where the packetizer goes on.
LEMMA GoesOn ==
  ASSUME IInv, NEW fate, SendPacket(fate)
  PROVE  LET unit == units[Len(units)]
             packet == Packet(fate) IN
         /\ packet.marker => nal' = 0
         /\ ~packet.marker => /\ nal' # 0 /\ At(unit, nal', offset')
                              /\ Follows(packet, Len(units), nal', offset')
<1> DEFINE unit == units[Len(units)]
           packet == Packet(fate)
<1>1. /\ unit \in Units /\ At(unit, nal, offset) /\ nal # 0
      /\ packet.time = Len(units) /\ packet.nal = nal /\ packet.offset = offset
      /\ packet.body = Body(unit, nal, offset)
      /\ packet.marker = (packet.body.end /\ nal = Len(unit))
  BY PacketFacts, Zenon DEF SendPacket
<1>2. /\ nal \in DOMAIN unit /\ DOMAIN unit = 1 .. Len(unit)
      /\ Len(unit) \in Nat
  BY <1>1, UnitFacts DEF At
<1>3. CASE packet.body.end /\ nal = Len(unit)
  <2>1. nal' = 0
    BY <1>3, Zenon DEF SendPacket
  <2> QED
    BY <1>1, <1>3, <2>1, Zenon
<1>4. CASE packet.body.end /\ nal # Len(unit)
  <2>1. nal' = nal + 1 /\ offset' = 1
    BY <1>4, Zenon DEF SendPacket
  <2>2. nal + 1 \in DOMAIN unit /\ nal + 1 # 0
    BY <1>2, <1>4
  <2>3. At(unit, nal + 1, 1)
    <3>1. unit[nal + 1] \in Nat \ {0} /\ Budget \in Nat /\ Budget > 2
      BY <1>1, <2>2, UnitFacts, StreamAssumption
    <3> QED
      BY <2>2, <3>1 DEF At
  <2>4. ~packet.marker
    BY <1>1, <1>4, Zenon
  <2>5. Follows(packet, Len(units), nal + 1, 1)
    BY <1>1, <1>4, <2>4, Zenon DEF Follows
  <2> QED
    BY <2>1, <2>2, <2>3, <2>4, <2>5, Zenon
<1>5. CASE ~packet.body.end
  <2>1. nal' = nal /\ offset' = offset + Chunk
    BY <1>5, Zenon DEF SendPacket
  <2>2. At(unit, nal, offset + Chunk)
    <3>1. ~Body(unit, nal, offset).end
      BY <1>1, <1>5, Zenon
    <3>2. At(unit, nal, Dealt(unit, nal, offset)) /\ Dealt(unit, nal, offset) = offset + Chunk
      BY <1>1, <3>1, DealtFacts, Zenon
    <3> QED
      BY <3>2, Zenon
  <2>3. ~packet.marker
    BY <1>1, <1>5, Zenon
  <2>4. Follows(packet, Len(units), nal, offset + Chunk)
    BY <1>1, <1>5, <2>3, Zenon DEF Follows
  <2> QED
    BY <1>1, <2>1, <2>2, <2>3, <2>4, Zenon
<1> QED
  BY <1>3, <1>4, <1>5, Zenon

LEMMA SendInv == \A fate : IInv /\ SendPacket(fate) => IInv'
<1> SUFFICES ASSUME NEW fate, IInv, SendPacket(fate) PROVE IInv'
  OBVIOUS
<1>0. PICK packet, n, unit :
        packet = Packet(fate) /\ n = Len(made) /\ unit = units[Len(units)]
  OBVIOUS
<1>1. /\ n \in Nat /\ Len(made') = n + 1 /\ made' # <<>> /\ made' \in Seq(AnyPacket)
      /\ made'[n + 1] = packet /\ \A i \in 1 .. n : made'[i] = made[i]
      /\ units' = units /\ got' = got
  BY <1>0, MadeGrows, Zenon
<1>2. /\ Len(units) \in Nat \ {0} /\ unit \in Units /\ At(unit, nal, offset)
      /\ packet.index = n + 1 /\ packet.number \in 0 .. Numbers - 1
      /\ packet.time = Len(units) /\ packet.nal = nal /\ packet.offset = offset
      /\ packet.body = Body(unit, nal, offset)
      /\ packet.marker = (packet.body.end /\ nal = Len(unit))
  BY <1>0, PacketFacts, Zenon
<1>3. /\ packet.marker => nal' = 0
      /\ ~packet.marker => /\ nal' # 0 /\ At(unit, nal', offset')
                           /\ Follows(packet, Len(units), nal', offset')
  BY <1>0, GoesOn, Zenon
<1>4. nal # 0 /\ sequence' = packet.number
      /\ (wire' = wire \/ wire' = wire \cup {packet})
      /\ (cache' = cache \/ cache' = [cache EXCEPT ![Slot(packet.number)] = packet])
  BY <1>0, Zenon DEF SendPacket, Sink
<1>5. Typed'
  BY <1>1, <1>2, <1>4 DEF IInv, MadeInv, Typed
<1>6. Numbered'
  <2> SUFFICES ASSUME NEW i \in 1 .. n + 1 PROVE made'[i].index = i
    BY <1>1 DEF Numbered
  <2>1. i \in 1 .. n \/ i = n + 1
    BY <1>1
  <2> QED
    BY <1>0, <1>1, <1>2, <2>1 DEF IInv, MadeInv, Numbered
<1>7. WellFormed'
  <2>1. Formed(packet)'
    <3>1. packet.time \in 1 .. Len(units)
      BY <1>2
    <3> QED
      BY <1>0, <1>1, <1>2, <3>1, Zenon DEF Formed
  <2> SUFFICES ASSUME NEW i \in 1 .. n + 1 PROVE Formed(made[i])'
    BY <1>1 DEF WellFormed
  <2>2. i \in 1 .. n \/ i = n + 1
    BY <1>1
  <2>3. ASSUME i \in 1 .. n PROVE Formed(made[i])'
    <3>1. Formed(made[i])
      BY <1>0, <2>3 DEF IInv, MadeInv, WellFormed
    <3>2. made'[i] = made[i]
      BY <1>1, <2>3
    <3> QED
      BY <1>1, <3>1, <3>2 DEF Formed
  <2>4. ASSUME i = n + 1 PROVE Formed(made[i])'
    BY <1>1, <2>1, <2>4, Zenon DEF Formed
  <2> QED
    BY <2>2, <2>3, <2>4
<1>8. InOrder'
  <2>1. made'[1].time = 1 /\ made'[1].nal = 1 /\ made'[1].offset = 1
    <3>1. CASE made = <<>>
      <4>1. n = 0 /\ Len(units) = 1 /\ nal = 1 /\ offset = 1
        BY <1>0, <1>4, <3>1 DEF IInv, MadeInv, HandOK
      <4> QED
        BY <1>1, <1>2, <4>1
    <3>2. CASE made # <<>>
      <4>1. made \in Seq(AnyPacket)
        BY DEF IInv, MadeInv, Typed
      <4>2. 1 \in 1 .. n
        BY <1>0, <3>2, <4>1
      <4> QED
        BY <1>0, <1>1, <3>2, <4>2 DEF IInv, MadeInv, InOrder
    <3> QED
      BY <3>1, <3>2
  <2>2. ASSUME NEW i \in 2 .. n + 1
        PROVE  Follows(made[i - 1], made[i].time, made[i].nal, made[i].offset)'
    <3>1. CASE i \in 2 .. n
      <4>1. Follows(made[i - 1], made[i].time, made[i].nal, made[i].offset)
        BY <1>0, <3>1 DEF IInv, MadeInv, InOrder
      <4>2. made'[i] = made[i] /\ made'[i - 1] = made[i - 1]
        BY <1>1, <3>1
      <4> QED
        BY <4>1, <4>2, Zenon DEF Follows
    <3>2. CASE i = n + 1
      <4>1. i - 1 = n /\ made # <<>> /\ n \in 1 .. n
        BY <1>0, <1>1, <3>2
      <4>2. Follows(made[n], Len(units), nal, offset)
        BY <1>0, <1>4, <4>1, Zenon DEF IInv, MadeInv, HandOK
      <4>3. made'[i - 1] = made[n] /\ made'[i] = packet
        BY <1>1, <3>2, <4>1
      <4> QED
        BY <1>2, <4>2, <4>3, Zenon DEF Follows
    <3> QED
      BY <1>1, <3>1, <3>2
  <2> QED
    BY <1>1, <2>1, <2>2 DEF InOrder
<1>9. HandOK'
  <2>1. made'[Len(made')] = packet /\ made' # <<>>
    BY <1>1, Zenon
  <2>2. units' # <<>>
    BY <1>1, <1>2
  <2>3. At(unit, nal', offset') <=> At(units[Len(units)], nal, offset)'
    BY <1>0, <1>1, Zenon DEF At
  <2>4. CASE packet.marker
    BY <1>1, <1>2, <1>3, <2>1, <2>4, Zenon DEF HandOK
  <2>5. CASE ~packet.marker
    <3>1. Follows(packet, Len(units), nal', offset')
            <=> Follows(packet, Len(units), nal, offset)'
      BY <1>0, <1>1, Zenon DEF Follows
    <3> QED
      BY <1>1, <1>3, <2>1, <2>2, <2>3, <2>5, Zenon DEF HandOK, Follows
  <2> QED
    BY <2>4, <2>5
<1>10. Genuine'
  <2>1. n + 1 \in 1 .. n + 1 /\ \A i \in 1 .. n : i \in 1 .. n + 1
    BY <1>1
  <2>2. ASSUME NEW p \in wire' PROVE \E i \in 1 .. n + 1 : p = made'[i]
    BY <1>0, <1>1, <1>4, <2>1 DEF IInv, Genuine
  <2>3. ASSUME NEW slot \in DOMAIN cache'
        PROVE  cache'[slot] = Nothing \/ \E i \in 1 .. n + 1 : cache'[slot] = made'[i]
    <3>1. slot \in DOMAIN cache /\ (cache'[slot] = cache[slot] \/ cache'[slot] = packet)
      BY <1>4
    <3> QED
      BY <1>0, <1>1, <2>1, <3>1 DEF IInv, Genuine
  <2>4. ASSUME NEW i \in DOMAIN got' PROVE i \in 1 .. n + 1 /\ got'[i] = made'[i]
    BY <1>0, <1>1, <2>1 DEF IInv, Genuine
  <2> QED
    BY <1>1, <2>2, <2>3, <2>4 DEF Genuine
<1>11. (DOMAIN cache = Slots)'
  BY <1>4 DEF IInv, Slots
<1> QED
  BY <1>5, <1>6, <1>7, <1>8, <1>9, <1>10, <1>11 DEF IInv, MadeInv

\* The other steps make no packet, and move those there are.
LEMMA MoveInv ==
  ASSUME IInv, UNCHANGED <<handVars, cache>>,
         \A p \in wire' : p \in wire \/ \E slot \in Slots : p = cache[slot] /\ p # Nothing,
         \A n \in DOMAIN got' :
           (n \in DOMAIN got /\ got'[n] = got[n]) \/ (got'[n] \in wire /\ got'[n].index = n)
  PROVE  IInv'
<1>1. UNCHANGED <<sequence, nal, offset, units, made>>
  BY DEF handVars
<1>2. Typed' /\ Numbered' /\ InOrder' /\ HandOK'
  BY <1>1, Zenon DEF IInv, MadeInv, Typed, Numbered, InOrder, HandOK, Follows, At
<1>3. WellFormed'
  BY <1>1, Zenon DEF IInv, MadeInv, WellFormed, Formed
<1>4. \A p \in wire' : \E n \in 1 .. Len(made) : p = made[n]
  BY DEF IInv, Genuine
<1>5. ASSUME NEW n \in DOMAIN got'
      PROVE  n \in 1 .. Len(made) /\ got'[n] = made[n]
  <2>1. CASE n \in DOMAIN got /\ got'[n] = got[n]
    BY <2>1 DEF IInv, Genuine
  <2>2. CASE got'[n] \in wire /\ got'[n].index = n
    <3>1. PICK i \in 1 .. Len(made) : got'[n] = made[i]
      BY <2>2 DEF IInv, Genuine
    <3>2. made[i].index = i
      BY <3>1 DEF IInv, MadeInv, Numbered
    <3> QED
      BY <2>2, <3>1, <3>2
  <2> QED
    BY <2>1, <2>2
<1>6. Genuine'
  BY <1>1, <1>4, <1>5 DEF IInv, Genuine
<1> QED
  BY <1>1, <1>2, <1>3, <1>6 DEF IInv, MadeInv, Slots

LEMMA InvStep == IInv /\ [Next]_vars => IInv'
<1> SUFFICES ASSUME IInv, [Next]_vars PROVE IInv'
  OBVIOUS
<1>1. ASSUME NEW unit \in Units, SendUnit(unit) PROVE IInv'
  BY <1>1, BeginInv
<1>2. ASSUME NEW fate \in {"refused", "lost", "sent"}, SendPacket(fate) PROVE IInv'
  BY <1>2, SendInv
<1>3. CASE LoseNack \/ BrowserAsks
  <2>1. UNCHANGED <<handVars, cache, wire, got>>
    BY <1>3 DEF LoseNack, BrowserAsks
  <2> QED
    BY <2>1, MoveInv
<1>4. ASSUME NEW lost \in SUBSET Answer, NackArrives(lost) PROVE IInv'
  <2>1. UNCHANGED <<handVars, cache, got>> /\ wire' = wire \cup (Answer \ lost)
    BY <1>4 DEF NackArrives
  <2>2. \A p \in Answer : \E slot \in Slots : p = cache[slot] /\ p # Nothing
    <3> SUFFICES ASSUME NEW p \in Answer
                 PROVE  \E slot \in Slots : p = cache[slot] /\ p # Nothing
      OBVIOUS
    <3> QED
      BY DEF Answer, Asked
  <2> QED
    BY <2>1, <2>2, MoveInv
<1>5. ASSUME NEW p \in wire, Deliver(p) PROVE IInv'
  <2>1. /\ UNCHANGED <<handVars, cache>> /\ wire' = wire \ {p}
        /\ got' = IF Accepts(p)
                  THEN [n \in DOMAIN got \cup {p.index} |->
                          IF n = p.index THEN p ELSE got[n]]
                  ELSE got
    BY <1>5 DEF Deliver
  <2>2. \A n \in DOMAIN got' :
          (n \in DOMAIN got /\ got'[n] = got[n]) \/ (got'[n] \in wire /\ got'[n].index = n)
    BY <2>1
  <2> QED
    BY <2>1, <2>2, MoveInv
<1>6. CASE Done \/ UNCHANGED vars
  <2>1. UNCHANGED <<handVars, cache, wire, got>>
    BY <1>6 DEF Done, vars
  <2> QED
    BY <2>1, MoveInv
<1> QED
  BY <1>1, <1>2, <1>3, <1>4, <1>5, <1>6 DEF Next

LEMMA Invariant == Spec => []IInv
<1> QED
  BY InvInit, InvStep, PTL DEF Spec

-----------------------------------------------------------------------------
(* What the browser rebuilds.                                              *)

\* What the depacketizer has after each packet from a to b.
Rebuilding(nals, a, b) ==
  nals = [n \in a - 1 .. b |->
            IF n = a - 1 THEN <<>> ELSE Taken(nals[n - 1], got[n].body)]

\* There is such a function.
LEMMA Rebuilds ==
  ASSUME NEW a \in Nat \ {0}, NEW b \in Nat, a <= b
  PROVE  \E nals : Rebuilding(nals, a, b) /\ Rebuilt(a, b) = nals[b]
<1> DEFINE Is(f, m) == Rebuilding(f, a, m)
           T == {d \in Nat : \E f : Is(f, a - 1 + d)}
<1>1. 0 \in T
  <2> DEFINE f == [n \in a - 1 .. a - 1 |-> <<>>]
  <2>1. Is(f, a - 1 + 0)
    BY DEF Rebuilding
  <2> QED
    BY <2>1
<1>2. ASSUME NEW d \in Nat, d \in T PROVE d + 1 \in T
  <2> DEFINE m == a - 1 + d
  <2>1. PICK f : Is(f, m)
    BY <1>2
  <2> DEFINE g == [n \in a - 1 .. m + 1 |->
                     IF n = m + 1 THEN Taken(f[m], got[n].body) ELSE f[n]]
  <2>2. m \in Nat /\ m + 1 = a - 1 + (d + 1) /\ m + 1 # a - 1
    OBVIOUS
  <2>3. Is(g, m + 1)
    <3> SUFFICES ASSUME NEW n \in a - 1 .. m + 1
                 PROVE  g[n] = IF n = a - 1 THEN <<>>
                               ELSE Taken(g[n - 1], got[n].body)
      BY DEF Rebuilding
    <3>1. CASE n = m + 1
      <4>1. g[n - 1] = f[m] /\ g[n] = Taken(f[m], got[n].body)
        BY <2>2, <3>1
      <4> QED
        BY <2>2, <3>1, <4>1
    <3>2. CASE n # m + 1
      <4>1. n \in a - 1 .. m /\ g[n] = f[n] /\ (n # a - 1 => g[n - 1] = f[n - 1])
        BY <2>2, <3>2
      <4> QED
        BY <2>1, <4>1 DEF Rebuilding
    <3> QED
      BY <3>1, <3>2
  <2>4. Is(g, a - 1 + (d + 1))
    <3> HIDE DEF Is, g
    <3> QED
      BY <2>2, <2>3
  <2>5. \E h : Is(h, a - 1 + (d + 1))
    <3> HIDE DEF Is, g
    <3> QED
      BY <2>4
  <2> QED
    BY <2>5
<1>3. b - (a - 1) \in Nat /\ a - 1 + (b - (a - 1)) = b
  OBVIOUS
<1>4. \E f : Is(f, b)
  <2> HIDE DEF Is
  <2>1. b - (a - 1) \in T
    <3> HIDE DEF T
    <3> QED
      BY <1>1, <1>2, <1>3, Ascends
  <2> QED
    BY <1>3, <2>1
<1>5. Rebuilt(a, b) = (CHOOSE f : Is(f, b))[b]
  BY Zenon DEF Rebuilt, Rebuilding
<1> QED
  BY <1>4, <1>5

\* The packets of a run are those made, the first begins an access unit, and
\* each of the others is behind the one before.
LEMMA RunFacts ==
  ASSUME IInv, NEW a \in DOMAIN got, NEW b \in DOMAIN got, a <= b, Run(a, b)
  PROVE  /\ a \in Nat \ {0} /\ b \in Nat
         /\ \A n \in a .. b :
              /\ got[n] = made[n] /\ n \in 1 .. Len(made) /\ Formed(made[n])
              /\ made[n].marker <=> n = b
         /\ made[a].nal = 1 /\ made[a].offset = 1
         /\ \A n \in a .. b - 1 :
              Follows(made[n], made[n + 1].time, made[n + 1].nal, made[n + 1].offset)
<1>1. made \in Seq(AnyPacket) /\ Len(made) \in Nat
  BY DEF IInv, MadeInv, Typed
<1>2. a \in 1 .. Len(made) /\ b \in 1 .. Len(made)
  BY DEF IInv, Genuine
<1>3. ASSUME NEW n \in a .. b
      PROVE  got[n] = made[n] /\ n \in 1 .. Len(made) /\ Formed(made[n])
  <2>1. n \in DOMAIN got
    BY <1>3 DEF Run
  <2> QED
    BY <2>1 DEF IInv, Genuine, MadeInv, WellFormed
<1>4. ASSUME NEW n \in a .. b PROVE made[n].marker <=> n = b
  <2>1. got[n].marker <=> n = b
    BY <1>2, <1>4 DEF Run
  <2> QED
    BY <1>3, <2>1
<1>5. ASSUME NEW n \in 2 .. Len(made)
      PROVE  Follows(made[n - 1], made[n].time, made[n].nal, made[n].offset)
  BY DEF IInv, MadeInv, InOrder
<1>6. made[a].nal = 1 /\ made[a].offset = 1
  <2>1. CASE a = 1
    <3>1. made # <<>>
      BY <1>1, <1>2
    <3> QED
      BY <2>1, <3>1 DEF IInv, MadeInv, InOrder
  <2>2. CASE a # 1
    <3>1. a - 1 \in DOMAIN got /\ got[a - 1].marker
      BY <2>2 DEF Run
    <3>2. made[a - 1].marker
      BY <3>1 DEF IInv, Genuine
    <3>3. a \in 2 .. Len(made)
      BY <1>2, <2>2
    <3>4. Follows(made[a - 1], made[a].time, made[a].nal, made[a].offset)
      BY <1>5, <3>3
    <3> QED
      BY <3>2, <3>4, Zenon DEF Follows
  <2> QED
    BY <2>1, <2>2
<1>7. ASSUME NEW n \in a .. b - 1
      PROVE  Follows(made[n], made[n + 1].time, made[n + 1].nal, made[n + 1].offset)
  <2>1. n + 1 \in 2 .. Len(made) /\ (n + 1) - 1 = n
    BY <1>1, <1>2
  <2> QED
    BY <1>5, <2>1
<1> QED
  BY <1>2, <1>3, <1>4, <1>6, <1>7

\* The depacketizer at packet n of a run has what the packetizer dealt with.
LEMMA KeepsPace ==
  ASSUME IInv, NEW a \in DOMAIN got, NEW b \in DOMAIN got, a <= b, Run(a, b),
         NEW nals, Rebuilding(nals, a, b)
  PROVE  \A n \in a .. b :
           /\ made[n].time = made[a].time
           /\ nals[n] = Partial(units[made[a].time], made[n].nal,
                 Dealt(units[made[a].time], made[n].nal, made[n].offset))
<1> DEFINE unit == units[made[a].time]
           Pace(n) == /\ made[n].time = made[a].time
                      /\ nals[n] = Partial(unit, made[n].nal,
                            Dealt(unit, made[n].nal, made[n].offset))
           T == {d \in Nat : a + d <= b => Pace(a + d)}
<1>1. /\ a \in Nat \ {0} /\ b \in Nat
      /\ made[a].nal = 1 /\ made[a].offset = 1
      /\ \A n \in a .. b : /\ got[n] = made[n] /\ n \in 1 .. Len(made)
                           /\ Formed(made[n])
                           /\ made[n].marker <=> n = b
      /\ \A n \in a .. b - 1 :
           Follows(made[n], made[n + 1].time, made[n + 1].nal, made[n + 1].offset)
  BY RunFacts
<1>2. unit \in Units
  <2>1. units \in Seq(Units) /\ made[a].time \in 1 .. Len(units)
    BY <1>1 DEF IInv, MadeInv, Typed, Formed
  <2> QED
    BY <2>1
<1>3. ASSUME NEW n \in a .. b
      PROVE  nals[n] = Taken(nals[n - 1], made[n].body)
  <2>1. n \in a - 1 .. b /\ n # a - 1
    BY <1>1
  <2> QED
    BY <1>1, <2>1 DEF Rebuilding
<1>4. ASSUME NEW n \in a .. b, made[n].time = made[a].time
      PROVE  /\ At(unit, made[n].nal, made[n].offset)
             /\ made[n].body = Body(unit, made[n].nal, made[n].offset)
             /\ made[n].marker = (made[n].body.end /\ made[n].nal = Len(unit))
  <2>1. Formed(made[n])
    BY <1>1
  <2> QED
    BY <1>4, <2>1, Zenon DEF Formed
<1>5. 0 \in T
  <2>1. a \in a .. b /\ a + 0 = a /\ made[a].time = made[a].time
    BY <1>1
  <2>2. nals[a] = Taken(nals[a - 1], Body(unit, 1, 1)) /\ At(unit, 1, 1)
    <3>1. nals[a] = Taken(nals[a - 1], made[a].body)
      BY <1>3, <2>1
    <3>2. /\ At(unit, made[a].nal, made[a].offset)
          /\ made[a].body = Body(unit, made[a].nal, made[a].offset)
      BY <1>4, <2>1, Zenon
    <3> QED
      BY <1>1, <3>1, <3>2, Zenon
  <2>3. nals[a - 1] = <<>>
    <3>1. a - 1 \in a - 1 .. b
      BY <1>1
    <3> QED
      BY <3>1 DEF Rebuilding
  <2>4. Whole(unit, 1 - 1) = <<>>
    BY DEF Whole
  <2>5. nals[a] = Partial(unit, 1, Dealt(unit, 1, 1))
    BY <1>2, <2>2, <2>3, <2>4, TakesFirst
  <2>6. Pace(a)
    BY <1>1, <2>5
  <2> HIDE DEF Pace
  <2> QED
    BY <2>1, <2>6
<1>6. ASSUME NEW d \in Nat, d \in T PROVE d + 1 \in T
  <2> SUFFICES ASSUME a + (d + 1) <= b PROVE Pace(a + (d + 1))
    OBVIOUS
  <2> DEFINE n == a + d
             k == made[n].nal
             from == made[n].offset
  <2>1. /\ n \in a .. b - 1 /\ n \in a .. b /\ n # b /\ n + 1 \in a .. b
        /\ a + (d + 1) = n + 1 /\ (n + 1) - 1 = n
    BY <1>1
  <2>2. Pace(n)
    <3> HIDE DEF Pace
    <3> QED
      BY <1>1, <1>6, <2>1
  <2>3. /\ At(unit, k, from) /\ made[n].body = Body(unit, k, from)
        /\ made[n].marker = (made[n].body.end /\ k = Len(unit))
    BY <1>4, <2>1, <2>2, Zenon
  <2>4. ~made[n].marker
    BY <1>1, <2>1
  <2>5. Follows(made[n], made[n + 1].time, made[n + 1].nal, made[n + 1].offset)
    BY <1>1, <2>1
  <2>6. made[n + 1].time = made[a].time
    BY <2>2, <2>4, <2>5, Zenon DEF Follows
  <2>7. /\ nals[n + 1] = Taken(nals[n], made[n + 1].body)
        /\ At(unit, made[n + 1].nal, made[n + 1].offset)
        /\ made[n + 1].body = Body(unit, made[n + 1].nal, made[n + 1].offset)
    BY <1>3, <1>4, <2>1, <2>6
  <2>8. CASE Body(unit, k, from).end
    <3>1. made[n + 1].nal = k + 1 /\ made[n + 1].offset = 1
      BY <2>3, <2>4, <2>5, <2>8, Zenon DEF Follows
    <3>2. k \in DOMAIN unit /\ Dealt(unit, k, from) = unit[k]
      BY <1>2, <2>3, <2>8, DealtFacts DEF At
    <3>3. nals[n] = Whole(unit, k)
      <4>1. Partial(unit, k, unit[k]) = Whole(unit, k)
        BY <1>2, <3>2, EndIsWhole
      <4> QED
        BY <2>2, <3>2, <4>1, Zenon
    <3>4. (k + 1) - 1 = k
      BY <1>2, <3>2, UnitFacts
    <3>5. At(unit, k + 1, 1)
      BY <2>7, <3>1, Zenon
    <3>6. Taken(Whole(unit, (k + 1) - 1), Body(unit, k + 1, 1))
            = Partial(unit, k + 1, Dealt(unit, k + 1, 1))
      BY <1>2, <3>5, TakesFirst
    <3>7. nals[n + 1] = Partial(unit, k + 1, Dealt(unit, k + 1, 1))
      BY <2>7, <3>1, <3>3, <3>4, <3>6, Zenon
    <3> QED
      BY <2>1, <2>6, <3>1, <3>7, Zenon
  <2>9. CASE ~Body(unit, k, from).end
    <3>1. made[n + 1].nal = k /\ made[n + 1].offset = from + Chunk
      BY <2>3, <2>4, <2>5, <2>9, Zenon DEF Follows
    <3>2. Dealt(unit, k, from) = from + Chunk /\ Dealt(unit, k, from) # 1
      BY <1>2, <2>3, <2>9, DealtFacts
    <3>3. nals[n] = Partial(unit, k, from + Chunk)
      BY <2>2, <3>2, Zenon
    <3>4. At(unit, k, from + Chunk) /\ from + Chunk # 1
      BY <2>7, <3>1, <3>2, Zenon
    <3>5. Taken(Partial(unit, k, from + Chunk), Body(unit, k, from + Chunk))
            = Partial(unit, k, Dealt(unit, k, from + Chunk))
      BY <1>2, <3>4, TakesMore
    <3>6. nals[n + 1] = Partial(unit, k, Dealt(unit, k, from + Chunk))
      BY <2>7, <3>1, <3>3, <3>5, Zenon
    <3> QED
      BY <2>1, <2>6, <3>1, <3>6, Zenon
  <2> QED
    BY <2>8, <2>9
<1>7. ASSUME NEW n \in a .. b PROVE Pace(n)
  <2>1. n - a \in Nat /\ a + (n - a) = n /\ a + (n - a) <= b
    BY <1>1
  <2> HIDE DEF Pace
  <2>2. n - a \in T
    <3>1. n - a \in Nat
      BY <2>1
    <3> HIDE DEF T
    <3> QED
      BY <1>5, <1>6, <3>1, Ascends
  <2> QED
    BY <2>1, <2>2
<1> QED
  BY <1>7

LEMMA InvRestores == IInv => UnitsRestored
<1> SUFFICES ASSUME IInv, NEW a \in DOMAIN got, NEW b \in DOMAIN got,
                    a <= b, Run(a, b)
             PROVE  Rebuilt(a, b) = [k \in DOMAIN units[got[b].time] |->
                                      Nal(units[got[b].time], k)]
  BY DEF UnitsRestored
<1> DEFINE unit == units[made[a].time]
           k == made[b].nal
<1>1. /\ a \in Nat \ {0} /\ b \in Nat /\ b \in a .. b
      /\ got[b] = made[b] /\ Formed(made[b]) /\ Formed(made[a]) /\ made[b].marker
  BY RunFacts
<1>2. PICK nals : Rebuilding(nals, a, b) /\ Rebuilt(a, b) = nals[b]
  BY <1>1, Rebuilds
<1>3. /\ made[b].time = made[a].time
      /\ nals[b] = Partial(unit, k, Dealt(unit, k, made[b].offset))
  BY <1>1, <1>2, KeepsPace
<1>4. unit \in Units
  <2>1. units \in Seq(Units) /\ made[a].time \in 1 .. Len(units)
    BY <1>1 DEF IInv, MadeInv, Typed, Formed
  <2> QED
    BY <2>1
<1>5. /\ At(unit, k, made[b].offset) /\ k = Len(unit)
      /\ Body(unit, k, made[b].offset).end
  BY <1>1, <1>3, Zenon DEF Formed
<1>6. k \in DOMAIN unit /\ Dealt(unit, k, made[b].offset) = unit[k]
  BY <1>4, <1>5, DealtFacts DEF At
<1>7. nals[b] = Whole(unit, k) /\ DOMAIN unit = 1 .. k
  BY <1>3, <1>4, <1>5, <1>6, EndIsWhole, UnitFacts
<1> QED
  BY <1>1, <1>2, <1>3, <1>7, Zenon DEF Whole

\* What the browser takes for an access unit, packets with consecutive indices
\* from after a marker to the next, depacketizes to a unit that was sent, each
\* NAL unit octet for octet (rtp_h264_packetize, rtp_packet_sink, dtls_on_rtcp).
THEOREM StreamRestored == Spec => []UnitsRestored
<1> QED
  BY Invariant, InvRestores, PTL
=============================================================================
