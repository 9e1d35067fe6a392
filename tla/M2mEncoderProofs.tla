-------------------------- MODULE M2mEncoderProofs --------------------------
(***************************************************************************)
(* Theorems about M2mEncoder, for any number of buffers, any limit of      *)
(* errors and any driver: where the input buffers are, what an error       *)
(* costs, and what the caller is told of a keyframe.                       *)
(***************************************************************************)
EXTENDS M2mEncoder, FiniteSetTheorems, TLAPS

RawFrame == [buffer : Buffers, key : BOOLEAN]
Unit     == [key : BOOLEAN, bytes : BOOLEAN]

LEMMA SeqFacts ==
  ASSUME NEW S, NEW u \in Seq(S)
  PROVE  /\ Len(u) \in Nat
         /\ \A e \in S : Append(u, e) \in Seq(S) /\ Len(Append(u, e)) = Len(u) + 1
         /\ u # <<>> => /\ Head(u) \in S /\ Tail(u) \in Seq(S)
                        /\ Len(Tail(u)) = Len(u) - 1 /\ Len(u) > 0
  OBVIOUS

-----------------------------------------------------------------------------
(* Types.                                                                  *)

LEMMA TypeInit == Init => TypeOK
<1> SUFFICES ASSUME Init PROVE TypeOK
  OBVIOUS
<1>1. raw = <<>> /\ encoded = <<>> /\ empty = CaptureBuffers
  BY DEF Init
<1>2. raw \in Seq([buffer : Buffers, key : BOOLEAN])
  BY <1>1
<1>3. encoded \in Seq([key : BOOLEAN, bytes : BOOLEAN]) /\ Len(encoded) = 0
  BY <1>1
<1>4. empty \in Nat /\ empty + Len(encoded) <= CaptureBuffers
  BY <1>1, <1>3, M2mAssumption
<1> QED
  BY <1>2, <1>3, <1>4 DEF Init, TypeOK

\* The driver.
LEMMA CodeTypes ==
  ASSUME TypeOK, NEW key \in BOOLEAN, NEW bytes \in BOOLEAN, Code(key, bytes)
  PROVE  TypeOK'
<1> DEFINE unit == [key |-> key, bytes |-> bytes]
<1>1. /\ raw # <<>> /\ raw' = Tail(raw) /\ encoded' = Append(encoded, unit)
      /\ consumed' = consumed \cup {Head(raw).buffer} /\ empty' = empty - 1
      /\ UNCHANGED <<callVars, out_free, index, errors, pc>>
  BY DEF Code
<1>2. raw \in Seq(RawFrame) /\ encoded \in Seq(Unit) /\ unit \in Unit
  BY DEF TypeOK, RawFrame, Unit
<1> HIDE DEF unit
<1>3. raw' \in Seq(RawFrame) /\ Head(raw) \in RawFrame
  BY <1>1, <1>2, SeqFacts
<1>4. encoded' \in Seq(Unit) /\ Len(encoded') = Len(encoded) + 1
      /\ Len(encoded) \in Nat
  BY <1>1, <1>2, SeqFacts
<1>5. Head(raw).buffer \in Buffers
  BY <1>3 DEF RawFrame
<1>6. empty' \in Nat /\ empty' + Len(encoded') = empty + Len(encoded)
  <2>1. empty \in Nat /\ empty > 0
    BY DEF Code, TypeOK
  <2> QED
    BY <1>1, <1>4, <2>1
<1> QED
  BY <1>1, <1>3, <1>4, <1>5, <1>6 DEF TypeOK, RawFrame, Unit, callVars

\* m2m_encode.
LEMMA DrainTypes ==
  ASSUME TypeOK, NEW fits \in BOOLEAN, NEW requeued \in BOOLEAN,
         DrainOne(fits, requeued)
  PROVE  TypeOK'
<1>1. /\ encoded # <<>> /\ encoded' = Tail(encoded)
      /\ empty' = IF requeued THEN empty + 1 ELSE empty
      /\ output' \in {output, output + 1} /\ out_is_idr' \in BOOLEAN
      /\ pc' \in {"drain", "return"}
      /\ UNCHANGED <<raw, consumed, force_idr, result, out_free, index, errors>>
  BY DEF DrainOne, Rest
<1>2. encoded \in Seq(Unit) /\ empty \in Nat /\ output \in Nat
      /\ empty + Len(encoded) <= CaptureBuffers /\ CaptureBuffers \in Nat
  BY M2mAssumption DEF TypeOK, Unit
<1>3. encoded' \in Seq(Unit) /\ Len(encoded') = Len(encoded) - 1
      /\ Len(encoded) \in Nat
  BY <1>1, <1>2, SeqFacts
<1>4. empty' \in Nat /\ empty' <= empty + 1
  BY <1>1, <1>2
<1>5. empty' + Len(encoded') <= CaptureBuffers
  BY <1>2, <1>3, <1>4
<1>6. output' \in Nat
  BY <1>1, <1>2
<1> QED
  BY <1>1, <1>3, <1>4, <1>5, <1>6 DEF TypeOK, Unit

LEMMA QueueTypes ==
  ASSUME TypeOK, Queue, index # None
  PROVE  TypeOK'
<1> DEFINE entry == [buffer |-> index, key |-> force_idr]
<1>1. /\ raw' = Append(raw, entry) /\ index' = None /\ pc' = "wait"
      /\ UNCHANGED <<consumed, empty, encoded, callVars, out_free, errors>>
  BY DEF Queue
<1>2. raw \in Seq(RawFrame) /\ entry \in RawFrame
  BY DEF TypeOK, RawFrame
<1> HIDE DEF entry
<1>3. raw' \in Seq(RawFrame)
  BY <1>1, <1>2, SeqFacts
<1> QED
  BY <1>1, <1>3 DEF TypeOK, RawFrame, callVars

LEMMA TypeStep ==
  TypeOK /\ (pc = "queue" => index # None) /\ [Next]_vars => TypeOK'
<1> SUFFICES ASSUME TypeOK, pc = "queue" => index # None, [Next]_vars
             PROVE  TypeOK'
  OBVIOUS
<1> USE DEF driverVars, callVars, Return
<1>1. CASE UNCHANGED vars
  BY <1>1 DEF TypeOK, vars
<1>2. ASSUME NEW force \in BOOLEAN, Call(force) PROVE TypeOK'
  BY <1>2 DEF Call, TypeOK
<1>3. CASE AcquireFree \/ AcquireConsumed \/ AcquireFails
  BY <1>3 DEF AcquireFree, AcquireConsumed, AcquireFails, TypeOK
<1>4. CASE Queue
  <2>1. pc = "queue"
    BY <1>4 DEF Queue
  <2> QED
    BY <1>4, <2>1, QueueTypes
<1>5. CASE QueueFails \/ Wait \/ DrainFails
  BY <1>5 DEF QueueFails, Wait, DrainFails, TypeOK
<1>6. CASE Finish
  BY <1>6 DEF Finish, TypeOK
<1>7. ASSUME NEW fits \in BOOLEAN, NEW requeued \in BOOLEAN,
             DrainOne(fits, requeued)
      PROVE  TypeOK'
  BY <1>7, DrainTypes
<1>8. ASSUME NEW key \in BOOLEAN, NEW bytes \in BOOLEAN, Code(key, bytes)
      PROVE  TypeOK'
  BY <1>8, CodeTypes
<1> QED
  BY <1>1, <1>2, <1>3, <1>4, <1>5, <1>6, <1>7, <1>8 DEF Next, Encode

-----------------------------------------------------------------------------
(* A keyframe and its data.                                                *)

\* A unit that is a keyframe has been handed over, and a call starts with none.
Handed ==
  /\ out_is_idr => output > 0
  /\ pc \in {"acquire", "queue", "wait"} => ~out_is_idr
  /\ KeyReported

LEMMA HandedStep == TypeOK /\ Handed /\ [Next]_vars => Handed'
<1> SUFFICES ASSUME TypeOK, Handed, [Next]_vars PROVE Handed'
  OBVIOUS
<1> USE DEF Handed, KeyReported, driverVars, callVars, Return
<1>0. output \in Nat
  BY DEF TypeOK
<1>1. CASE UNCHANGED vars
  BY <1>1 DEF vars
<1>2. ASSUME NEW force \in BOOLEAN, Call(force) PROVE Handed'
  BY <1>2 DEF Call
<1>3. CASE AcquireFree \/ AcquireConsumed \/ AcquireFails
  BY <1>3 DEF AcquireFree, AcquireConsumed, AcquireFails
<1>4. CASE Queue \/ QueueFails \/ Wait \/ DrainFails
  BY <1>4 DEF Queue, QueueFails, Wait, DrainFails
<1>5. CASE Finish
  BY <1>5 DEF Finish
<1>6. ASSUME NEW fits \in BOOLEAN, NEW requeued \in BOOLEAN,
             DrainOne(fits, requeued)
      PROVE  Handed'
  <2> DEFINE unit == Head(encoded)
  <2>1. /\ output' = IF unit.bytes /\ fits THEN output + 1 ELSE output
        /\ out_is_idr' = (out_is_idr \/ (unit.bytes /\ fits /\ unit.key))
        /\ pc' \in {"drain", "return"}
    BY <1>6 DEF DrainOne, IsKey
  <2> HIDE DEF unit
  <2>2. out_is_idr' => out_is_idr \/ (unit.bytes /\ fits)
    BY <2>1, Zenon
  <2>3. out_is_idr' => output' > 0
    <3>1. CASE unit.bytes /\ fits
      BY <1>0, <2>1, <3>1
    <3>2. CASE ~(unit.bytes /\ fits)
      BY <1>0, <2>1, <2>2, <3>2
    <3> QED
      BY <3>1, <3>2
  <2> QED
    BY <2>1, <2>3
<1>7. ASSUME NEW key \in BOOLEAN, NEW bytes \in BOOLEAN, Code(key, bytes)
      PROVE  Handed'
  BY <1>7 DEF Code
<1> QED
  BY <1>1, <1>2, <1>3, <1>4, <1>5, <1>6, <1>7 DEF Next, Encode

-----------------------------------------------------------------------------
(* Where the input buffers are.                                            *)

\* Each raw frame has a buffer of its own, out of everybody else's hands, and
\* so has m2m_encode while it queues one.
Distinct(s) == \A i, j \in DOMAIN s : s[i].buffer = s[j].buffer => i = j

Apart ==
  /\ Distinct(raw)
  /\ BuffersIn(raw) \cap (out_free \cup consumed) = {}
  /\ out_free \cap consumed = {}
  /\ index \notin out_free \cup consumed \cup BuffersIn(raw)
  /\ pc = "queue" <=> index # None

LEMMA TailBuffers ==
  ASSUME NEW S, NEW u \in Seq(S), u # <<>>, Distinct(u)
  PROVE  /\ Distinct(Tail(u))
         /\ Head(u).buffer \in BuffersIn(u)
         /\ BuffersIn(Tail(u)) = BuffersIn(u) \ {Head(u).buffer}
<1>1. /\ 1 \in DOMAIN u /\ u[1] = Head(u)
      /\ \A k \in DOMAIN Tail(u) : /\ k + 1 \in DOMAIN u /\ Tail(u)[k] = u[k + 1]
                                   /\ k \in Nat /\ k >= 1
      /\ \A k \in DOMAIN u : k = 1 \/ (k - 1 \in DOMAIN Tail(u)
                                       /\ Tail(u)[k - 1] = u[k])
  OBVIOUS
<1>2. Distinct(Tail(u))
  <2> SUFFICES ASSUME NEW i \in DOMAIN Tail(u), NEW j \in DOMAIN Tail(u),
                      Tail(u)[i].buffer = Tail(u)[j].buffer
               PROVE  i = j
    BY DEF Distinct
  <2>1. i + 1 = j + 1
    BY <1>1 DEF Distinct
  <2> QED
    BY <1>1, <2>1
<1>3. ASSUME NEW b \in BuffersIn(Tail(u))
      PROVE  b \in BuffersIn(u) /\ b # Head(u).buffer
  <2>1. PICK k \in DOMAIN Tail(u) : b = Tail(u)[k].buffer
    BY DEF BuffersIn
  <2>2. k + 1 \in DOMAIN u /\ b = u[k + 1].buffer /\ k + 1 # 1
    BY <1>1, <2>1
  <2> QED
    BY <1>1, <2>2 DEF BuffersIn, Distinct
<1>4. ASSUME NEW b \in BuffersIn(u), b # Head(u).buffer
      PROVE  b \in BuffersIn(Tail(u))
  <2>1. PICK k \in DOMAIN u : b = u[k].buffer
    BY DEF BuffersIn
  <2>2. k - 1 \in DOMAIN Tail(u) /\ Tail(u)[k - 1] = u[k]
    BY <1>1, <1>4, <2>1
  <2> QED
    BY <2>1, <2>2 DEF BuffersIn
<1> QED
  BY <1>1, <1>2, <1>3, <1>4 DEF BuffersIn

LEMMA AppendBuffers ==
  ASSUME NEW S, NEW u \in Seq(S), NEW e \in S
  PROVE  /\ BuffersIn(Append(u, e)) = BuffersIn(u) \cup {e.buffer}
         /\ Distinct(u) /\ e.buffer \notin BuffersIn(u)
              => Distinct(Append(u, e))
<1> DEFINE v == Append(u, e)
           n == Len(u) + 1
<1>1. /\ DOMAIN v = 1 .. n /\ DOMAIN u = 1 .. Len(u) /\ Len(u) \in Nat
      /\ v[n] = e /\ \A k \in DOMAIN u : v[k] = u[k]
  OBVIOUS
<1>2. DOMAIN v = DOMAIN u \cup {n}
  BY <1>1
<1> HIDE DEF v, n
<1>3. BuffersIn(v) = BuffersIn(u) \cup {e.buffer}
  <2>1. \A b \in BuffersIn(v) : b \in BuffersIn(u) \cup {e.buffer}
    BY <1>1, <1>2 DEF BuffersIn
  <2>2. e.buffer \in BuffersIn(v)
    <3>1. n \in DOMAIN v /\ v[n].buffer = e.buffer
      BY <1>1, <1>2
    <3> QED
      BY <3>1 DEF BuffersIn
  <2>3. ASSUME NEW b \in BuffersIn(u) PROVE b \in BuffersIn(v)
    <3>1. PICK k \in DOMAIN u : b = u[k].buffer
      BY DEF BuffersIn
    <3>2. k \in DOMAIN v /\ v[k].buffer = b
      BY <1>1, <1>2, <3>1
    <3> QED
      BY <3>2 DEF BuffersIn
  <2> QED
    BY <2>1, <2>2, <2>3
<1>4. ASSUME Distinct(u), e.buffer \notin BuffersIn(u) PROVE Distinct(v)
  <2>1. \A k \in DOMAIN u : v[k].buffer # e.buffer /\ v[k] = u[k]
    BY <1>1, <1>4 DEF BuffersIn
  <2>2. \A i, j \in DOMAIN v : v[i].buffer = v[j].buffer => i = j
    BY <1>1, <1>2, <1>4, <2>1 DEF Distinct
  <2> QED
    BY <2>2 DEF Distinct
<1> QED
  BY <1>3, <1>4 DEF v

\* A step leaves the lost buffers lost, and loses the one whose VIDIOC_QBUF
\* fails, which nobody else has.
Costs == errors' <= errors /\ Lost' = Lost

LEMMA CodeApart ==
  ASSUME TypeOK, Apart, NEW key, NEW bytes, Code(key, bytes)
  PROVE  Apart' /\ Costs
<1> DEFINE b == Head(raw).buffer
<1>1. /\ raw # <<>> /\ raw' = Tail(raw) /\ consumed' = consumed \cup {b}
      /\ UNCHANGED <<out_free, index, errors, pc>>
  BY DEF Code
<1>2. raw \in Seq(RawFrame) /\ errors \in Nat
  BY DEF TypeOK, RawFrame
<1>3. /\ Distinct(raw') /\ b \in BuffersIn(raw)
      /\ BuffersIn(raw') = BuffersIn(raw) \ {b}
  BY <1>1, <1>2, TailBuffers DEF Apart
<1> HIDE DEF b
<1>4. Apart'
  BY <1>1, <1>3 DEF Apart
<1>5. Lost' = Lost
  BY <1>1, <1>3 DEF Lost, InHand
<1> QED
  BY <1>1, <1>2, <1>4, <1>5 DEF Costs

LEMMA QueueApart ==
  ASSUME TypeOK, Apart, Queue
  PROVE  Apart' /\ Costs
<1> DEFINE entry == [buffer |-> index, key |-> force_idr]
<1>1. /\ pc = "queue" /\ raw' = Append(raw, entry) /\ index' = None
      /\ pc' = "wait" /\ UNCHANGED <<consumed, out_free, errors>>
  BY DEF Queue
<1>2. index # None /\ index \in Buffers
  BY <1>1 DEF Apart, TypeOK
<1>3. raw \in Seq(RawFrame) /\ entry \in RawFrame /\ entry.buffer = index
      /\ errors \in Nat
  BY <1>2 DEF TypeOK, RawFrame
<1> HIDE DEF entry
<1>4. Distinct(raw') /\ BuffersIn(raw') = BuffersIn(raw) \cup {index}
  BY <1>1, <1>3, AppendBuffers DEF Apart
<1>5. None \notin Buffers /\ BuffersIn(raw) \subseteq Buffers
  <2>1. \A i \in DOMAIN raw : raw[i] \in RawFrame
    BY <1>3
  <2> QED
    BY <2>1, M2mAssumption DEF BuffersIn, RawFrame
<1>6. Apart'
  BY <1>1, <1>2, <1>4, <1>5 DEF Apart, TypeOK
<1>7. Lost' = Lost
  BY <1>1, <1>2, <1>4 DEF Lost, InHand
<1> QED
  BY <1>1, <1>3, <1>6, <1>7 DEF Costs

\* Every step.
LEMMA ApartStep ==
  ASSUME TypeOK, Apart, [Next]_vars
  PROVE  /\ Apart'
         /\ \/ Costs
            \/ QueueFails
<1> USE DEF driverVars, callVars, Return
<1>0. /\ errors \in Nat /\ index \in Buffers \cup {None} /\ None \notin Buffers
      /\ out_free \subseteq Buffers /\ consumed \subseteq Buffers
  BY M2mAssumption DEF TypeOK
<1>1. ASSUME UNCHANGED <<raw, consumed, out_free, index>>, errors' <= errors,
             pc # "queue", pc' # "queue"
      PROVE  Apart' /\ Costs
  BY <1>1 DEF Apart, Costs, Lost, InHand, Distinct, BuffersIn
<1>2. CASE UNCHANGED vars
  BY <1>0, <1>2 DEF vars, Apart, Costs, Lost, InHand, Distinct, BuffersIn
<1>3. ASSUME NEW force \in BOOLEAN, Call(force) PROVE Apart' /\ Costs
  BY <1>0, <1>1, <1>3 DEF Call
<1>4. CASE AcquireFree
  <2>1. PICK b \in out_free : out_free' = out_free \ {b} /\ index' = b
    BY <1>4 DEF AcquireFree
  <2>2. pc = "acquire" /\ pc' = "queue" /\ UNCHANGED <<raw, consumed, errors>>
    BY <1>4 DEF AcquireFree
  <2>3. index = None
    BY <2>2 DEF Apart
  <2>4. Distinct(raw)' /\ BuffersIn(raw)' = BuffersIn(raw)
    BY <2>2 DEF Apart, Distinct, BuffersIn
  <2>5. Apart'
    BY <1>0, <2>1, <2>2, <2>4 DEF Apart
  <2>6. Lost' = Lost
    BY <1>0, <2>1, <2>2, <2>3, <2>4 DEF Lost, InHand
  <2> QED
    BY <1>0, <2>2, <2>5, <2>6 DEF Costs
<1>5. CASE AcquireConsumed
  <2>1. PICK b \in consumed : consumed' = consumed \ {b} /\ index' = b
    BY <1>5 DEF AcquireConsumed
  <2>2. pc = "acquire" /\ pc' = "queue" /\ UNCHANGED <<raw, out_free, errors>>
    BY <1>5 DEF AcquireConsumed
  <2>3. index = None
    BY <2>2 DEF Apart
  <2>4. Distinct(raw)' /\ BuffersIn(raw)' = BuffersIn(raw)
    BY <2>2 DEF Apart, Distinct, BuffersIn
  <2>5. Apart'
    BY <1>0, <2>1, <2>2, <2>4 DEF Apart
  <2>6. Lost' = Lost
    BY <1>0, <2>1, <2>2, <2>3, <2>4 DEF Lost, InHand
  <2> QED
    BY <1>0, <2>2, <2>5, <2>6 DEF Costs
<1>6. CASE AcquireFails \/ Wait \/ DrainFails \/ Finish
  BY <1>0, <1>1, <1>6 DEF AcquireFails, Wait, DrainFails, Finish
<1>7. CASE Queue
  BY <1>7, QueueApart
<1>8. CASE QueueFails
  <2>1. pc = "queue" /\ pc' = "ready" /\ index' = None
        /\ UNCHANGED <<raw, consumed, out_free>>
    BY <1>8 DEF QueueFails
  <2>2. Distinct(raw)' /\ BuffersIn(raw)' = BuffersIn(raw)
    BY <2>1 DEF Apart, Distinct, BuffersIn
  <2>3. None \notin BuffersIn(raw)
    <3>1. raw \in Seq(RawFrame)
      BY DEF TypeOK, RawFrame
    <3>2. \A i \in DOMAIN raw : raw[i] \in RawFrame
      BY <3>1
    <3> QED
      BY <1>0, <3>2 DEF BuffersIn, RawFrame
  <2> QED
    BY <1>0, <1>8, <2>1, <2>2, <2>3 DEF Apart
<1>9. ASSUME NEW fits \in BOOLEAN, NEW requeued \in BOOLEAN,
             DrainOne(fits, requeued)
      PROVE  Apart' /\ Costs
  <2>1. /\ UNCHANGED <<raw, consumed, out_free, index, errors>>
        /\ pc = "drain" /\ pc' \in {"drain", "return"}
    BY <1>9 DEF DrainOne
  <2> QED
    BY <1>0, <1>1, <2>1
<1>10. ASSUME NEW key \in BOOLEAN, NEW bytes \in BOOLEAN, Code(key, bytes)
       PROVE  Apart' /\ Costs
  BY <1>10, CodeApart
<1> QED
  BY <1>2, <1>3, <1>4, <1>5, <1>6, <1>7, <1>8, <1>9, <1>10 DEF Next, Encode

\* A failed VIDIOC_QBUF loses the buffer in hand.
LEMMA FailureCosts ==
  ASSUME TypeOK, Apart, QueueFails
  PROVE  errors' = errors + 1 /\ Cardinality(Lost') = Cardinality(Lost) + 1
<1>1. /\ pc = "queue" /\ errors' = errors + 1 /\ index' = None
      /\ UNCHANGED <<raw, consumed, out_free>>
  BY DEF QueueFails, driverVars
<1>2. index \in Buffers /\ index # None /\ None \notin Buffers
  BY <1>1, M2mAssumption DEF Apart, TypeOK
<1>3. BuffersIn(raw)' = BuffersIn(raw)
  BY <1>1 DEF BuffersIn
<1>4. Lost' = Lost \cup {index} /\ index \notin Lost
  BY <1>1, <1>2, <1>3 DEF Lost, InHand, Apart
<1>5. IsFiniteSet(Lost)
  BY M2mAssumption, FS_Subset DEF Lost
<1> QED
  BY <1>1, <1>4, <1>5, FS_AddElement

-----------------------------------------------------------------------------
(* All of it.                                                              *)

EncoderInv == TypeOK /\ Handed /\ Apart /\ ErrorsCost

LEMMA EncoderInit == Init => EncoderInv
<1> SUFFICES ASSUME Init PROVE EncoderInv
  OBVIOUS
<1>1. raw = <<>> /\ BuffersIn(raw) = {}
  BY DEF Init, BuffersIn
<1>2. Lost = {} /\ errors = 0
  BY <1>1 DEF Init, Lost
<1>3. ErrorsCost
  BY <1>2, FS_EmptySet DEF ErrorsCost
<1>4. Apart
  BY <1>1, M2mAssumption DEF Init, Apart, Distinct
<1>5. Handed
  BY DEF Init, Handed, KeyReported
<1> QED
  BY <1>3, <1>4, <1>5, TypeInit DEF EncoderInv

LEMMA EncoderStep == EncoderInv /\ [Next]_vars => EncoderInv'
<1> SUFFICES ASSUME EncoderInv, [Next]_vars PROVE EncoderInv'
  OBVIOUS
<1>1. TypeOK' /\ Handed'
  BY TypeStep, HandedStep DEF EncoderInv, Apart
<1>2. Apart' /\ (Costs \/ QueueFails)
  BY ApartStep DEF EncoderInv
<1>3. /\ errors \in Nat /\ errors' \in Nat /\ Cardinality(Lost) \in Nat
  BY <1>1, M2mAssumption, FS_Subset, FS_CardinalityType
  DEF EncoderInv, TypeOK, Lost
<1>4. ErrorsCost'
  <2>1. CASE Costs
    BY <1>3, <2>1 DEF EncoderInv, ErrorsCost, Costs
  <2>2. CASE QueueFails
    BY <1>3, <2>2, FailureCosts DEF EncoderInv, ErrorsCost
  <2> QED
    BY <1>2, <2>1, <2>2
<1> QED
  BY <1>1, <1>2, <1>4 DEF EncoderInv

LEMMA EncoderAlways == Spec => []EncoderInv
<1> QED
  BY EncoderInit, EncoderStep, PTL DEF Spec

\* An input buffer is never in two places: a frame that the driver reads is
\* not overwritten by the next one.
THEOREM BuffersApart == Spec => []OnePlace
<1>1. Apart => OnePlace
  <2> SUFFICES ASSUME Apart, NEW b \in Buffers
               PROVE  Cardinality({i \in DOMAIN raw : raw[i].buffer = b})
                        + (IF b \in out_free THEN 1 ELSE 0)
                        + (IF b \in consumed THEN 1 ELSE 0)
                        + (IF index = b THEN 1 ELSE 0) <= 1
    BY DEF OnePlace, Apart
  <2> DEFINE X == {i \in DOMAIN raw : raw[i].buffer = b}
  <2>1. CASE b \notin BuffersIn(raw)
    <3>1. X = {}
      BY <2>1 DEF BuffersIn
    <3>2. Cardinality(X) = 0
      BY <3>1, FS_EmptySet
    <3> QED
      BY <3>2 DEF Apart
  <2>2. CASE b \in BuffersIn(raw)
    <3>1. PICK k \in DOMAIN raw : raw[k].buffer = b
      BY <2>2 DEF BuffersIn
    <3>2. X = {k}
      BY <3>1 DEF Apart, Distinct
    <3>3. Cardinality(X) = 1
      BY <3>2, FS_Singleton
    <3>4. b \notin out_free /\ b \notin consumed /\ index # b
      BY <2>2 DEF Apart
    <3> QED
      BY <3>3, <3>4
  <2> QED
    BY <2>1, <2>2
<1> QED
  BY <1>1, EncoderAlways, PTL DEF EncoderInv

\* Each error has cost an input buffer for good.
THEOREM ErrorsCostBuffers == Spec => []ErrorsCost
<1> QED
  BY EncoderAlways, PTL DEF EncoderInv

\* A keyframe is announced only with its data.
THEOREM KeyframesHandedOver == Spec => []KeyReported
<1>1. EncoderInv => KeyReported
  BY DEF EncoderInv, Handed
<1> QED
  BY <1>1, EncoderAlways, PTL

\* With no more buffers than errors permitted m2m_encode never reports the
\* fatal error: it runs out of buffers first.
THEOREM NeverFatal ==
  ASSUME Cardinality(Buffers) <= MaxErrors
  PROVE  Spec => [](result # -1)
<1>1. Init => result # -1
  BY DEF Init
<1>2. EncoderInv /\ result # -1 /\ [Next]_vars => (result # -1)'
  <2> SUFFICES ASSUME EncoderInv, result # -1, [Next]_vars PROVE result' # -1
    OBVIOUS
  <2> USE DEF driverVars, callVars, Return
  <2>1. errors <= MaxErrors
    <3>1. Cardinality(Lost) <= Cardinality(Buffers) /\ Cardinality(Lost) \in Nat
          /\ Cardinality(Buffers) \in Nat
      BY M2mAssumption, FS_Subset, FS_CardinalityType DEF Lost
    <3>2. errors \in Nat /\ errors <= Cardinality(Lost) /\ MaxErrors \in Nat
      BY M2mAssumption DEF EncoderInv, TypeOK, ErrorsCost
    <3> QED
      BY <3>1, <3>2
  <2>2. ASSUME NEW force \in BOOLEAN, Call(force) PROVE result' # -1
    <3>1. ~(errors > MaxErrors)
      BY <2>1, M2mAssumption DEF EncoderInv, TypeOK
    <3> QED
      BY <2>2, <3>1 DEF Call
  <2>3. CASE UNCHANGED vars
    BY <2>3 DEF vars
  <2>4. CASE AcquireFree \/ AcquireConsumed \/ AcquireFails \/ Queue
               \/ QueueFails \/ Wait \/ DrainFails \/ Finish
    BY <2>4 DEF AcquireFree, AcquireConsumed, AcquireFails, Queue, QueueFails,
                Wait, DrainFails, Finish
  <2>5. ASSUME NEW fits \in BOOLEAN, NEW requeued \in BOOLEAN,
               DrainOne(fits, requeued)
        PROVE  result' # -1
    BY <2>5 DEF DrainOne
  <2>6. ASSUME NEW key \in BOOLEAN, NEW bytes \in BOOLEAN, Code(key, bytes)
        PROVE  result' # -1
    BY <2>6 DEF Code
  <2> QED
    BY <2>2, <2>3, <2>4, <2>5, <2>6 DEF Next, Encode
<1> QED
  BY <1>1, <1>2, EncoderAlways, PTL DEF Spec
=============================================================================
