----------------------------- MODULE RtpStream -----------------------------
(***************************************************************************)
(* The video one viewer is sent: access units cut into RTP packets         *)
(* (src/src/webrtc/rtp_h264.c), which are protected, sent and kept         *)
(* (rtp_packet_sink in src/src/webrtc/webrtc_session.c), lost or reordered *)
(* on their way, asked for again by the browser and sent again             *)
(* (rtcp_parse in src/src/webrtc/rtcp.c and dtls_on_rtcp).                 *)
(*                                                                         *)
(* The session's handlers run on one thread, each to its end; but packets   *)
(* are sent one by one, and travel while the next is made.  The network,    *)
(* SRTP and the browser are external.  An octet of a NAL unit is its place; *)
(* an access unit is given by the lengths of its NAL units.                 *)
(***************************************************************************)
EXTENDS Integers, Sequences, FiniteSetsExt, SequencesExt

CONSTANTS
  Budget,       \* payload_budget: octets of payload in a packet
  CacheSize,    \* RETX_CACHE_SIZE
  Numbers,      \* how many sequence numbers there are, 2^16
  MaskBits,     \* numbers after the first that an entry of a NACK can name
  MaxNack,      \* numbers rtcp_parse takes from a datagram
  Units,        \* access units that are encoded
  Nothing,      \* an empty slot of the cache
  First,        \* the number used last when the stream is first looked at
  MaxLag,       \* packets the browser can be behind when a unit is sent
  MaxPackets,   \* bound: no unit is begun after so many packets
  MaxFailures   \* bound: packets srtp_protect refuses

ASSUME StreamAssumption ==
  /\ {CacheSize, MaskBits, MaxNack} \subseteq Nat \ {0}
  /\ Budget \in Nat /\ Budget > 2
  /\ Numbers \in Nat /\ Numbers > 1 /\ Numbers % CacheSize = 0
  /\ First \in 0 .. Numbers - 1
  /\ Units \subseteq Seq(Nat \ {0}) \ {<<>>}
  /\ {MaxLag, MaxPackets, MaxFailures} \subseteq Nat

VARIABLES
  sequence,  \* the number used last
  nal,       \* the NAL unit the packetizer is at, or 0 between access units
  offset,    \* octets of it that have been dealt with; the first always is
  cache,     \* retx_data, retx_len: the packet kept in each slot
  wire,      \* packets on their way
  nacks,     \* the NACK on its way, as the entries of its FCI, or <<>>
  got,       \* packets the browser has, by their index
  units,     \* history: the access units sent; the last may be in hand
  made,      \* history: the packets made
  refused    \* history: the indices of those srtp_protect refused

handVars == <<sequence, nal, offset, units, made, refused>>
vars == <<handVars, cache, wire, nacks, got>>

Slots == 0 .. CacheSize - 1

\* rtp_h264_create and the cache of rtc_session_create, for First = 0.  Another
\* First is a stream that has run for a while: what was sent before has
\* arrived, and to send it again would change nothing.
Init ==
  /\ sequence = First /\ nal = 0 /\ offset = 1
  /\ cache = [slot \in Slots |-> Nothing]
  /\ wire = {} /\ nacks = <<>>
  /\ got = <<>>
  /\ units = <<>> /\ made = <<>> /\ refused = {}

-----------------------------------------------------------------------------
(* rtp_h264_packetize.                                                     *)

\* The octets of the k-th NAL unit of an access unit.
Nal(unit, k) == [i \in 1 .. unit[k] |-> <<k, i>>]

\* Octets of a NAL unit in a fragment; FU indicator and header take two.
Chunk == Budget - 2

Single(octets) ==
  [fu |-> FALSE, start |-> TRUE, end |-> TRUE, header |-> Head(octets),
   payload |-> octets]

\* A fragment does not repeat the first octet, which is in its headers.
Fragment(octets, from) ==
  LET rest == Len(octets) - from IN
  [fu |-> TRUE, start |-> from = 1, end |-> rest <= Chunk,
   header |-> Head(octets),
   payload |-> SubSeq(octets, from + 1,
                      IF rest <= Chunk THEN Len(octets) ELSE from + Chunk)]

Body(unit, k, from) ==
  IF unit[k] <= Budget THEN Single(Nal(unit, k))
  ELSE Fragment(Nal(unit, k), from)

\* The marker is set where the last NAL unit ends; with a bug, where any does.
MarkerOfNal(unit, k, body) == body.end
Marker(unit, k, body) == body.end /\ k = Len(unit)

\* The number of the next packet; with a bug, one that cannot be sent takes no
\* number.
NumberIfSent(fate) ==
  IF fate = "refused" THEN sequence ELSE (sequence + 1) % Numbers
Number(fate) == (sequence + 1) % Numbers

\* SRTP counts the numbers without wrapping, here from First: the index.
Reached == IF made = <<>> THEN 0 ELSE made[Len(made)].index
Index(number) == Reached + ((number - sequence) % Numbers)

\* nal and offset are history: where in the access unit the payload begins.
Packet(fate) ==
  LET unit == units[Len(units)]
      body == Body(unit, nal, offset) IN
  [number |-> Number(fate), index |-> Index(Number(fate)), time |-> Len(units),
   nal |-> nal, offset |-> offset,
   marker |-> Marker(unit, nal, body), body |-> body]

-----------------------------------------------------------------------------
(* The session.                                                            *)

Slot(number) == number % CacheSize

\* The last packet the browser has.
Highest == CHOOSE n \in DOMAIN got \cup {0} : \A m \in DOMAIN got : m <= n

\* rtc_session_send_access_unit while streaming.  The browser is not so far
\* behind that SRTP would take a number for another one.
SendUnit(unit) ==
  /\ nal = 0
  /\ Len(made) < MaxPackets
  /\ Reached - Highest <= MaxLag
  /\ nal' = 1 /\ offset' = 1
  /\ units' = Append(units, unit)
  /\ UNCHANGED <<sequence, made, refused, cache, wire, nacks, got>>

\* rtp_packet_sink: a packet that cannot be protected is neither sent nor kept;
\* one that is sent may be lost.
Sink(packet, fate) ==
  IF fate = "refused"
  THEN /\ Cardinality(refused) < MaxFailures
       /\ refused' = refused \cup {packet.index}
       /\ UNCHANGED <<cache, wire>>
  ELSE /\ cache' = [cache EXCEPT ![Slot(packet.number)] = packet]
       /\ wire' = IF fate = "sent" THEN wire \cup {packet} ELSE wire
       /\ UNCHANGED refused

\* A round of the loop in rtp_h264_packetize.
SendPacket(fate) ==
  /\ nal # 0
  /\ LET packet == Packet(fate) IN
     /\ sequence' = packet.number
     /\ IF packet.body.end
        THEN /\ nal' = IF nal = Len(units[Len(units)]) THEN 0 ELSE nal + 1
             /\ offset' = 1
        ELSE offset' = offset + Chunk /\ UNCHANGED nal
     /\ made' = Append(made, packet)
     /\ Sink(packet, fate)
  /\ UNCHANGED <<units, nacks, got>>

\* The numbers an entry names; with a bug, one too few for each bit.
ExpandShifted(entry) ==
  <<entry.pid>> \o
  [i \in 1 .. Cardinality(entry.mask) |->
     (entry.pid + SetToSortSeq(entry.mask, <)[i] - 1) % Numbers]
Expand(entry) ==
  <<entry.pid>> \o
  [i \in 1 .. Cardinality(entry.mask) |->
     (entry.pid + SetToSortSeq(entry.mask, <)[i]) % Numbers]

\* rtcp_parse of a generic NACK: it takes MaxNack numbers.
NackSeq(fci) ==
  LET all == FlattenSeq([i \in DOMAIN fci |-> Expand(fci[i])]) IN
  SubSeq(all, 1, Min({MaxNack, Len(all)}))

\* dtls_on_rtcp: what the slot of a number holds is sent again, whatever its
\* own number is.  The network loses some of it.
Asked == {slot \in Slots : \E n \in ToSet(NackSeq(nacks)) : slot = Slot(n)}
Answer == {cache[slot] : slot \in Asked} \ {Nothing}
NackArrives(lost) ==
  /\ nal = 0
  /\ nacks # <<>>
  /\ nacks' = <<>>
  /\ wire' = wire \cup (Answer \ lost)
  /\ UNCHANGED <<handVars, cache, got>>

-----------------------------------------------------------------------------
(* The network and the browser.                                            *)

\* The index the browser takes a number for: the one closest to the last
\* received.
Unwrapped(number) ==
  LET lowest == Highest - Numbers \div 2 + 1 IN
  lowest + ((number - First - lowest) % Numbers)

\* SRTP takes a packet that it has not seen, and whose authentication tag,
\* which covers the index, is good.
Accepts(p) == Unwrapped(p.number) = p.index /\ p.index \notin DOMAIN got

\* A packet arrives.
Deliver(p) ==
  /\ wire' = wire \ {p}
  /\ got' = IF Accepts(p)
            THEN [n \in DOMAIN got \cup {p.index} |->
                    IF n = p.index THEN p ELSE got[n]]
            ELSE got
  /\ UNCHANGED <<handVars, cache, nacks>>

LoseNack ==
  /\ nacks # <<>>
  /\ nacks' = <<>>
  /\ UNCHANGED <<handVars, cache, wire, got>>

\* What the browser misses of the packets it takes to be recent.
Missing ==
  {n \in 1 .. Highest : n \notin DOMAIN got /\ n > Highest - Numbers \div 2}

\* An entry for the first number missing and those close behind it, and so on.
FirstOf(missing) == {n \in missing : n <= Min(missing) + MaskBits}
Entry(group) ==
  [pid |-> (First + Min(group)) % Numbers,
   mask |-> {n - Min(group) : n \in group} \ {0}]
Fci(missing) ==
  LET entries[m \in SUBSET missing] ==
        IF m = {} THEN <<>>
        ELSE <<Entry(FirstOf(m))>> \o entries[m \ FirstOf(m)]
  IN entries[missing]

BrowserAsks ==
  /\ nacks = <<>> /\ Missing # {}
  /\ nacks' = Fci(Missing)
  /\ UNCHANGED <<handVars, cache, wire, got>>

\* Nothing is on its way, and a bound of SendUnit is met.
Done == wire = {} /\ nal = 0 /\ UNCHANGED vars

Next ==
  \/ \E unit \in Units : SendUnit(unit)
  \/ \E fate \in {"refused", "lost", "sent"} : SendPacket(fate)
  \/ LoseNack \/ BrowserAsks
  \/ \E lost \in SUBSET Answer : NackArrives(lost)
  \/ \E p \in wire : Deliver(p)
  \/ Done

Spec == Init /\ [][Next]_vars

\* A handler runs to its end; the browser keeps asking; of all answers to NACKs
\* some are not lost; what is on its way and new arrives.
FairSpec ==
  /\ Spec
  /\ WF_vars(\E fate \in {"refused", "lost", "sent"} : SendPacket(fate))
  /\ WF_vars(BrowserAsks) /\ SF_vars(NackArrives({}))
  /\ WF_vars(\E p \in wire : Accepts(p) /\ Deliver(p))
-----------------------------------------------------------------------------
(* Properties.                                                             *)

\* The NAL units a depacketizer (RFC 6184) has when it takes a payload.
Taken(nals, body) ==
  IF body.fu /\ ~body.start /\ nals # <<>>
  THEN [nals EXCEPT ![Len(nals)] = @ \o body.payload]
  ELSE Append(nals, IF body.fu THEN <<body.header>> \o body.payload
                               ELSE body.payload)

\* What it makes of the packets a to b.
Rebuilt(a, b) ==
  LET nals[n \in a - 1 .. b] ==
        IF n = a - 1 THEN <<>> ELSE Taken(nals[n - 1], got[n].body)
  IN nals[b]

\* The packets the browser takes for an access unit: numbered without a gap,
\* from after one marker to the next.
Run(a, b) ==
  /\ a .. b \subseteq DOMAIN got
  /\ a = 1 \/ (a - 1 \in DOMAIN got /\ got[a - 1].marker)
  /\ {n \in a .. b : got[n].marker} = {b}

\* Whatever is lost, reordered, sent again or could not be protected, all that
\* the browser takes for an access unit is one the encoder made, whole, with
\* every NAL unit intact.
UnitsRestored ==
  \A a, b \in DOMAIN got :
    a <= b /\ Run(a, b) =>
      LET unit == units[got[b].time] IN
      Rebuilt(a, b) = [k \in DOMAIN unit |-> Nal(unit, k)]

\* Missing packets that were sent and are among the last CacheSize.
Repairable ==
  {n \in 1 .. Highest :
     n > Reached - CacheSize /\ n \notin DOMAIN got \cup refused}

\* However much is lost, and NACKs with it, every packet known to be missing
\* is repaired, unless newer packets take its slot before: again and again the
\* browser has all it can have.
LossRepaired == []<>(Repairable = {})
=============================================================================
