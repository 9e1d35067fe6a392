----------------------------- MODULE JanusSender -----------------------------
(***************************************************************************)
(* The bridge to a Janus gateway (src/src/janus/janus_rtp_sender.c): a     *)
(* thread that pops the access unit ring, cuts each unit into RTP packets  *)
(* and sends them, reports to the gateway every five seconds so that it    *)
(* learns an address, and turns the feedback that comes back into the      *)
(* flag force_idr.  The encode thread pushes to the ring (AuRing) and      *)
(* consumes the flag; Janus is external and may go down and come back.     *)
(***************************************************************************)
EXTENDS AuRing, FiniteSets

CONSTANTS
  Encoded,      \* units the encoder makes
  Numbers,      \* RTP sequence numbers are taken modulo Numbers (2^16)
  Datagrams,    \* RTCP datagrams another host may send: sequences of packets
  MaxInbox,     \* bound: datagrams the socket holds; more are dropped
  MaxRestarts   \* bound: times Janus goes down

\* An RTCP packet counts by what rtcp_parse takes from it; "bad" has another
\* version, or a length beyond the datagram's end.
Feedback == {"pli", "fir", "other", "bad"}

ASSUME SenderAssumption ==
  /\ Encoded \subseteq Units
  /\ Numbers \in Nat \ {0}
  /\ Datagrams \subseteq Seq(Feedback)
  /\ MaxInbox \in Nat
  /\ MaxRestarts \in Nat

\* The two UDP sockets, by the port a peer would answer to.
Nowhere == "nowhere"
ListenPort == "rtcp_listen_fd"
SendPort == "send_fd"

VARIABLES
  pc,         \* where sender_thread stands
  running,
  next_sr,    \* TRUE when now >= next_sr_ms
  rtp,        \* the packetizer's last sequence number
  left,       \* packets of the unit in hand still to be sent
  inbox,      \* datagrams in the socket rtcp_listen_fd
  force_idr,
  janus_up,
  learned,    \* the address Janus would send feedback to
  restarts,
  owed,       \* history: Janus relayed a viewer's request that nobody read
  made,       \* history: packets made, numbers not wrapping
  unit,       \* history: packets that arrived since one with the marker
  last        \* history: what `made' was when that one was made

janusVars == <<janus_up, learned, restarts>>
sendVars == <<rtp, left, made, unit, last>>
feedVars == <<inbox, force_idr, owed>>
threadVars == <<pc, running, next_sr>>
senderVars == <<threadVars, sendVars, feedVars, janusVars>>
allVars == <<vars, senderVars>>

\* janus_rtp_sender_create and janus_rtp_sender_start: the first report is due.
SenderInit ==
  /\ Init
  /\ pc = "loop" /\ running = TRUE /\ next_sr = TRUE
  /\ rtp = 0 /\ left = 0 /\ made = 0 /\ unit = <<>> /\ last = 0
  /\ inbox = <<>> /\ force_idr = FALSE /\ owed = FALSE
  /\ janus_up = TRUE /\ learned = Nowhere /\ restarts = 0
-----------------------------------------------------------------------------
(* The sender thread.                                                      *)

Goto(place) == pc' = place /\ UNCHANGED <<running, next_sr>>

\* while (running)
Loop ==
  /\ pc = "loop"
  /\ Goto(IF running THEN "poll" ELSE "end")
  /\ UNCHANGED <<vars, sendVars, feedVars, janusVars>>

\* poll returns with something to read, or after 20 ms, or fails; with a bug,
\* it waits until there is something to read.
PollForever ==
  /\ pc = "poll"
  /\ inbox # <<>>
  /\ Goto("rtcp")
  /\ UNCHANGED <<vars, sendVars, feedVars, janusVars>>
Poll ==
  /\ pc = "poll"
  /\ \/ inbox # <<>> /\ Goto("rtcp")
     \/ inbox = <<>> /\ Goto("drain")
  /\ UNCHANGED <<vars, sendVars, feedVars, janusVars>>

PollFails ==
  /\ pc = "poll"
  /\ Goto("end")
  /\ UNCHANGED <<vars, sendVars, feedVars, janusVars>>

\* rtcp_parse: it stops at the first packet that is not well formed.
Parsed(datagram) ==
  {datagram[i] : i \in {j \in DOMAIN datagram :
                          \A k \in 1 .. j : datagram[k] # "bad"}}

\* A keyframe is wanted; with a bug, only if the compound packet starts with it.
WantsFirst(datagram) == datagram # <<>> /\ Head(datagram) \in {"pli", "fir"}
Wants(datagram) == Parsed(datagram) \cap {"pli", "fir"} # {}

\* handle_rtcp reads until the socket is empty.
HandleRtcp ==
  /\ pc = "rtcp"
  /\ IF inbox # <<>>
     THEN /\ inbox' = Tail(inbox)
          /\ force_idr' = (force_idr \/ Wants(Head(inbox)))
          /\ owed' = (owed /\ ~Wants(Head(inbox)))
          /\ UNCHANGED threadVars
     ELSE Goto("drain") /\ UNCHANGED feedVars
  /\ UNCHANGED <<vars, sendVars, janusVars>>

\* The next unit is popped; the ring is empty, or the unit did not fit the
\* buffer, which looks the same: the drain is over.
PopUnit ==
  /\ pc = "drain"
  /\ IF count # 0
     THEN /\ Pop
          /\ left' = IF buffer' # buffer THEN buffer'.meta.size ELSE 0
     ELSE UNCHANGED <<vars, left>>
  /\ Goto(IF left' # 0 THEN "send" ELSE "report")
  /\ UNCHANGED <<rtp, made, unit, last, feedVars, janusVars>>

\* A packet as its receiver sees it, and, as history, the unit it is a part of,
\* its place there, and its place among all packets.
Packet(number, marker) ==
  [number |-> number, marker |-> marker, part_of |-> buffer.meta,
   place |-> buffer.meta.size - left + 1, at |-> made + 1]

\* What has arrived when a packet does: it starts a unit after a marker.
Arrived(packet) ==
  IF unit # <<>> /\ unit[Len(unit)].marker
  THEN unit' = <<packet>> /\ last' = unit[Len(unit)].at
  ELSE unit' = Append(unit, packet) /\ UNCHANGED last

Next16(number) == (number + 1) % Numbers

\* Each packet takes a number, whether sendto succeeds or not; with a bug, the
\* number is used again when it fails.
NumberIfSent(sent) == IF sent THEN Next16(rtp) ELSE rtp
Number(sent) == Next16(rtp)

\* rtp_h264_packetize with send_sink: a unit of size n makes n packets, the
\* last with the marker.  A packet whose sendto fails, or that is sent while
\* Janus is down, is lost.
SendPacket ==
  /\ pc = "send"
  /\ \E sent \in {FALSE, janus_up} :
       /\ rtp' = Number(sent)
       /\ IF sent THEN Arrived(Packet(Next16(rtp), left = 1))
                  ELSE UNCHANGED <<unit, last>>
  /\ left' = left - 1 /\ made' = made + 1
  /\ Goto(IF left = 1 THEN "drain" ELSE "send")
  /\ UNCHANGED <<vars, feedVars, janusVars>>

\* send_sender_report, through the socket the packets use: sendto fails, the
\* network loses the report, or it arrives; whichever it is, the next one is due
\* in five seconds.  With a bug, none is sent while there is nothing to report.
ReportsMedia(arrives) ==
  /\ pc = "report" /\ (arrives => next_sr /\ janus_up /\ rtp # 0)
  /\ pc' = "loop" /\ next_sr' = FALSE
  /\ learned' = IF arrives THEN SendPort ELSE learned
  /\ UNCHANGED <<vars, running, sendVars, feedVars, janus_up, restarts>>
Reports(arrives) ==
  /\ pc = "report" /\ (arrives => next_sr /\ janus_up)
  /\ pc' = "loop" /\ next_sr' = FALSE
  /\ learned' = IF arrives THEN SendPort ELSE learned
  /\ UNCHANGED <<vars, running, sendVars, feedVars, janus_up, restarts>>

Report == \E arrives \in BOOLEAN : Reports(arrives)

SenderThread ==
  Loop \/ Poll \/ PollFails \/ HandleRtcp \/ PopUnit \/ SendPacket \/ Report
-----------------------------------------------------------------------------
(* Everybody else.                                                         *)

\* The encode thread pushes a unit, and takes the request for a keyframe.
EncoderPushes ==
  /\ \E u \in Encoded : Push(u)
  /\ UNCHANGED senderVars

EncoderTakes ==
  /\ force_idr
  /\ force_idr' = FALSE
  /\ UNCHANGED <<vars, threadVars, sendVars, inbox, owed, janusVars>>

\* Five seconds have passed since the last report.
TimePasses ==
  /\ ~next_sr
  /\ next_sr' = TRUE
  /\ UNCHANGED <<vars, pc, running, sendVars, feedVars, janusVars>>

\* janus_rtp_sender_stop.
Stop ==
  /\ running
  /\ running' = FALSE
  /\ UNCHANGED <<vars, pc, next_sr, sendVars, feedVars, janusVars>>

\* A datagram arrives at the port the thread listens to.
Arrives ==
  /\ Len(inbox) < MaxInbox
  /\ \E datagram \in Datagrams : inbox' = Append(inbox, datagram)
  /\ UNCHANGED <<vars, threadVars, sendVars, force_idr, owed, janusVars>>

\* Janus relays a viewer's request to the address it has learned.
Relay ==
  /\ janus_up /\ learned # Nowhere
  /\ Len(inbox) < MaxInbox
  /\ owed' = TRUE
  /\ inbox' = IF learned = ListenPort THEN Append(inbox, <<"pli">>) ELSE inbox
  /\ UNCHANGED <<vars, threadVars, sendVars, force_idr, janusVars>>

\* Janus goes down, and forgets the address.
JanusDown ==
  /\ janus_up
  /\ restarts < MaxRestarts
  /\ restarts' = restarts + 1
  /\ janus_up' = FALSE
  /\ learned' = Nowhere
  /\ UNCHANGED <<vars, threadVars, sendVars, feedVars>>

JanusUp ==
  /\ ~janus_up
  /\ janus_up' = TRUE
  /\ UNCHANGED <<vars, threadVars, sendVars, feedVars, learned, restarts>>

SenderDone == pc = "end" /\ ~running /\ UNCHANGED allVars

SenderNext ==
  \/ SenderThread
  \/ EncoderPushes \/ EncoderTakes
  \/ TimePasses \/ Stop
  \/ Arrives \/ Relay \/ JanusDown \/ JanusUp
  \/ SenderDone

SenderSpec == SenderInit /\ [][SenderNext]_allVars

\* The thread is scheduled; poll fails only where it wants to; time passes; of
\* infinitely many reports to a gateway that is up, one arrives.
Steps == Loop \/ Poll \/ HandleRtcp \/ PopUnit \/ SendPacket \/ Report

FairSenderSpec ==
  /\ SenderSpec
  /\ WF_allVars(Steps)
  /\ WF_allVars(TimePasses)
  /\ SF_allVars(Reports(TRUE))
-----------------------------------------------------------------------------
(* Properties.                                                             *)

\* Packets with consecutive numbers from after a marker to the next one are a
\* whole access unit, in order, unless as many packets were lost among them as
\* there are numbers: numbers are consumed by packets that could not be sent
\* (rtp_h264.c:191, send_sink), so that a receiver never takes a damaged unit
\* for a whole one.
WholeUnits ==
  LET n == Len(unit) IN
  n # 0 /\ unit[n].marker
    /\ unit[n].at - last - n < Numbers
    /\ (\A i \in 1 .. n : unit[i].number = (last + i) % Numbers)
  => \A i \in 1 .. n :
       /\ unit[i].part_of = unit[n].part_of /\ unit[i].place = i
       /\ unit[i].part_of.size = n

\* The thread ended, though nobody asked it to.
Died == pc = "end"

\* Neither of the loops inside a round looks at `running', at the clock or at
\* the other's source; each may be kept going by somebody faster than it, and
\* these say that it is, for ever.
Flooded == <>[](pc = "rtcp") /\ []<><<Arrives>>_allVars
Overfed == <>[](pc \in {"drain", "send"}) /\ []<><<EncoderPushes>>_allVars

\* A picture loss indication or a full intra request that reaches the socket,
\* at any place of a compound packet, raises force_idr, unless the thread is
\* stopped or dies first, or the encoder keeps it busy for ever.
Asks(datagram) ==
  \E i \in DOMAIN datagram :
    datagram[i] \in {"pli", "fir"} /\ \A k \in 1 .. i - 1 : datagram[k] # "bad"
FeedbackRaises ==
  \/ Overfed
  \/ (\E i \in DOMAIN inbox : Asks(inbox[i])) ~> (force_idr \/ ~running \/ Died)

\* After Janus restarts it learns an address again (the report every 5 s), though
\* reports fail and are lost, unless the thread never comes to send one.
Relearns ==
  \/ Flooded \/ Overfed
  \/ (janus_up /\ learned = Nowhere)
       ~> (learned # Nowhere \/ ~janus_up \/ ~running \/ Died)

\* A stopped thread ends, so that janus_rtp_sender_join returns, unless those who
\* feed it outpace it for ever: datagrams that keep coming, or a unit for each it
\* sends, do hold it.
SenderStops == \/ Flooded \/ Overfed
               \/ ~running ~> pc = "end"

\* Steps 3 to 5 of docs/22_janus_transport.md:235: a request that Janus relays
\* reaches the thread.
RelayedRequestRead ==
  \/ Flooded \/ Overfed
  \/ owed ~> (~owed \/ ~running \/ Died)
=============================================================================
