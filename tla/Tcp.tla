--------------------------------- MODULE Tcp ---------------------------------
(***************************************************************************)
(* The TCP client of src/os/kernel/net.c under one HTTP request after the  *)
(* other (net_http_request_once), and a peer across a network that loses,  *)
(* doubles and reorders segments.  The client is one thread that busy-waits*)
(* for the next frame and gives up after some polls; every connection of   *)
(* the machine uses the same local port, since tcp_iss moves by 0x1000 and *)
(* the port takes its low twelve bits, so segments of an earlier connection*)
(* reach a later one.                                                      *)
(*                                                                         *)
(* The request is ReqLen segments of one unit; the answer RespLen units.   *)
(* The numbers of connection k are those from k * Stride on, on both sides.*)
(***************************************************************************)
EXTENDS Naturals, Sequences, SequencesExt, FiniteSets, FiniteSetsExt

CONSTANTS
  MaxRequests, \* bound: requests the machine makes
  ReqLen,     \* segments of a request, of up to 1460 bytes: 2 for the 2048 of req
  RespLen,    \* units of an answer
  PeerMss,    \* most units the peer puts in a segment
  RecvCap,    \* sizeof(buf): 512 bytes
  Attempts,   \* SYNs of a connect: 5
  IdleMax,    \* idle rounds before the retransmission: 200
  CloseTries, \* rounds of net_sock_close: 200000
  MaxFaults,  \* bound: faults of the network
  MaxFlight   \* bound: segments under way before one more is sent

ASSUME TcpAssumption ==
  /\ {MaxRequests, ReqLen, RespLen, PeerMss, RecvCap, Attempts, CloseTries, MaxFlight} \subseteq Nat \ {0}
  /\ {IdleMax, MaxFaults} \subseteq Nat

Stride == ReqLen + RespLen + 4

VARIABLES
  phase,     \* "idle", "connecting", "receiving" or "closing"
  conn,      \* requests made: the connection
  attempt,   \* SYNs sent for it
  snd_nxt, snd_una, rcv_nxt,
  lastTx,    \* last_tx_seq and last_tx_len
  idle, did_retx, saw_fin,
  tries,     \* rounds of net_sock_close
  result,    \* what net_http_request_once returns: "none", "ok" or "error"
  sized,     \* the answer has a Content-Length
  received,  \* the units put in the caller's buffer, with their connection
  peer,      \* the peer's end
  toPeer, toClient,  \* segments under way
  faults,
  goneForGood        \* history: a segment nobody sends again was lost

connVars == <<conn, attempt, snd_nxt, snd_una, rcv_nxt, lastTx>>
loopVars == <<idle, did_retx, saw_fin, sized, received>>
client == <<phase, connVars, loopVars, tries, result>>
tcpVars == <<client, peer, toPeer, toClient, faults, goneForGood>>

-----------------------------------------------------------------------------
Iss(k) == k * Stride
PeerIss(k) == k * Stride
ConnOf(seq) == seq \div Stride

\* A segment.  What a client's segment carries is told by its number.
Segment(flags, seq, ack, data) == [flags |-> flags, seq |-> seq, ack |-> ack, data |-> data]
Empty(flags, seq, ack) == Segment(flags, seq, ack, <<>>)

RequestEnd(k) == Iss(k) + 1 + ReqLen
Unit(k, i) == <<k, i>>

Syn == Empty({"SYN"}, Iss(conn'), 0)
RequestSegments ==
  [i \in 1 .. ReqLen |-> Segment({"PSH", "ACK"}, Iss(conn) + i, rcv_nxt', <<i>>)]
AckNow == Empty({"ACK"}, snd_nxt, rcv_nxt')

-----------------------------------------------------------------------------
TcpInit ==
  /\ phase = "idle" /\ result = "none"
  /\ conn = 0 /\ attempt = 0
  /\ snd_nxt = 0 /\ snd_una = 0 /\ rcv_nxt = 0 /\ lastTx = [seq |-> 0, len |-> 0]
  /\ idle = 0 /\ did_retx = FALSE /\ saw_fin = FALSE /\ tries = 0
  /\ sized = FALSE /\ received = <<>>
  /\ peer = [conn |-> 0, synced |-> FALSE, got |-> {}, una |-> 0, nxt |-> 0, up |-> TRUE]
  /\ toPeer = <<>> /\ toClient = <<>>
  /\ faults = 0 /\ goneForGood = FALSE

Transmit(segments) == toPeer' = toPeer \o segments
Reads == toClient # <<>> /\ toClient' = Tail(toClient)
Read == Head(toClient)  \* what a round that Reads sees
RoomToSend == Len(toPeer) < MaxFlight

\* net_http_request_once up to the first SYN
Request ==
  /\ phase = "idle" /\ conn < MaxRequests /\ RoomToSend
  /\ conn' = conn + 1
  /\ attempt' = 1
  /\ phase' = "connecting" /\ result' = "none" /\ received' = <<>>
  /\ sized' \in BOOLEAN
  /\ Transmit(<<Syn>>)
  /\ goneForGood' = FALSE
  /\ UNCHANGED <<snd_nxt, snd_una, rcv_nxt, lastTx, idle, did_retx, saw_fin, tries,
                 peer, toClient, faults>>

\* tcp_connect after a round that brought no SYN-ACK of this connection.
NextAttempt ==
  /\ IF attempt < Attempts
       THEN /\ attempt' = attempt + 1
            /\ Transmit(<<Empty({"SYN"}, Iss(conn), 0)>>)
            /\ UNCHANGED <<phase, result>>
       ELSE /\ phase' = "idle" /\ result' = "error"
            /\ UNCHANGED <<attempt, toPeer>>
  /\ UNCHANGED <<conn, snd_nxt, snd_una, rcv_nxt, lastTx, loopVars, tries>>

Connected(m) == {"SYN", "ACK"} \subseteq m.flags /\ m.ack = Iss(conn) + 1

\* The handshake's ACK, then the request; one too long for its buffer is not
\* sent, and the connection closed.
SendRequest(m) ==
  /\ rcv_nxt' = m.seq + 1
  /\ snd_una' = Iss(conn) + 1
  /\ idle' = 0 /\ did_retx' = FALSE /\ saw_fin' = FALSE
  /\ \/ /\ snd_nxt' = RequestEnd(conn)
        /\ lastTx' = [seq |-> RequestEnd(conn) - 1, len |-> 1]
        /\ phase' = "receiving"
        /\ Transmit(<<Empty({"ACK"}, Iss(conn) + 1, rcv_nxt')>> \o RequestSegments)
        /\ UNCHANGED <<result, tries>>
     \/ /\ snd_nxt' = Iss(conn) + 2
        /\ lastTx' = [seq |-> Iss(conn) + 1, len |-> 0]
        /\ phase' = "closing" /\ tries' = 0 /\ result' = "error"
        /\ Transmit(<<Empty({"ACK"}, Iss(conn) + 1, rcv_nxt'),
                  Empty({"FIN", "ACK"}, Iss(conn) + 1, rcv_nxt')>>)
  /\ UNCHANGED <<conn, attempt, sized, received>>

ConnectRound ==
  /\ phase = "connecting" /\ RoomToSend
  /\ \/ UNCHANGED toClient /\ NextAttempt
     \/ Reads /\ IF Connected(Read) THEN SendRequest(Read) ELSE NextAttempt
  /\ UNCHANGED <<peer, faults, goneForGood>>

-----------------------------------------------------------------------------
\* tcp_recv_some: the acknowledgement counts if it lies in the window.
Acknowledged(m) == IF m.ack >= snd_una /\ m.ack <= snd_nxt THEN m.ack ELSE snd_una

Taken(m) == SubSeq(m.data, 1, Min({Len(m.data), RecvCap}))

\* A bug to catch: a segment is taken whatever its number.
AcceptedAnyOrder(m) == Taken(m)

\* Only payload that is next is accepted, and of it what the buffer takes.
Accepted(m) == IF m.seq = rcv_nxt THEN Taken(m) ELSE <<>>

\* A bug to catch: the whole segment is acknowledged.
NextExpectedWhole(m) == IF Accepted(m) = <<>> THEN rcv_nxt ELSE m.seq + Len(m.data)

NextExpected(m) == IF Accepted(m) = <<>> THEN rcv_nxt ELSE m.seq + Len(Accepted(m))

\* net_sock_close begins: `first` has been sent in the same round.
StartClosing(first, outcome) ==
  /\ phase' = "closing" /\ tries' = 0 /\ result' = outcome
  /\ lastTx' = [seq |-> snd_nxt, len |-> 0]
  /\ snd_nxt' = snd_nxt + 1
  /\ Transmit(first \o <<Empty({"FIN", "ACK"}, snd_nxt, rcv_nxt')>>)

\* A bug to catch: the flag is tested the wrong way round.
MayRetransmitAgain(quiet) == did_retx /\ quiet > IdleMax

MayRetransmit(quiet) == ~did_retx /\ quiet > IdleMax

\* The rest of a round of the receive loop, after `first` was sent and `cap`
\* units came: retransmit once after a while, and leave the loop after a FIN
\* that nothing follows or at the length the answer has.
EndRound(first, cap) ==
  LET quiet == IF cap = 0 THEN idle + 1 ELSE 0
      again == MayRetransmit(quiet)
      retx == IF again THEN <<Segment({"PSH", "ACK"}, lastTx.seq, rcv_nxt', <<lastTx.seq - Iss(conn)>>),
                              AckNow>>
                       ELSE <<>>
  IN  /\ did_retx' = (did_retx \/ again)
      /\ idle' = IF again THEN 0 ELSE Min({quiet, IdleMax + 1})
      /\ IF (saw_fin' /\ cap = 0) \/ (sized /\ Len(received') >= RespLen)
           THEN StartClosing(first \o retx, "ok")
           ELSE /\ Transmit(first \o retx)
                /\ UNCHANGED <<phase, tries, result, lastTx, snd_nxt>>

\* A round in which a segment comes: it is acknowledged whatever it is.
ReceiveSegment ==
  /\ phase = "receiving" /\ RoomToSend
  /\ Reads
  /\ snd_una' = Acknowledged(Read)
  /\ rcv_nxt' = NextExpected(Read)
  /\ IF "RST" \in Read.flags
       THEN /\ StartClosing(<<AckNow>>, "error")
            /\ UNCHANGED <<idle, did_retx, saw_fin, received>>
       ELSE /\ saw_fin' = (saw_fin \/ "FIN" \in Read.flags)
            /\ received' = received \o Accepted(Read)
            /\ EndRound(<<AckNow>>, Len(Accepted(Read)))
  /\ UNCHANGED <<conn, attempt, sized, peer, faults, goneForGood>>

\* A round in which none does.
ReceiveNothing ==
  /\ phase = "receiving" /\ RoomToSend
  /\ UNCHANGED <<rcv_nxt, saw_fin, received>>
  /\ EndRound(<<>>, 0)
  /\ UNCHANGED <<conn, attempt, snd_una, sized, peer, toClient, faults, goneForGood>>

\* A round of net_sock_close: nothing is acknowledged any more.
CloseRound ==
  /\ phase = "closing"
  /\ \/ UNCHANGED <<toClient, snd_una>>
     \/ Reads /\ snd_una' = Acknowledged(Read)
  /\ tries' = tries + 1
  /\ phase' = IF snd_una' >= snd_nxt \/ tries' = CloseTries THEN "idle" ELSE "closing"
  /\ UNCHANGED <<conn, attempt, snd_nxt, rcv_nxt, lastTx, loopVars, result,
                 peer, toPeer, faults, goneForGood>>

\* The polls of the main loop read the card too and drop what is no datagram.
DropStray ==
  /\ phase = "idle" /\ Reads
  /\ UNCHANGED <<client, peer, toPeer, faults, goneForGood>>

-----------------------------------------------------------------------------
\* The peer.  It keeps what comes out of order, sends again what is not
\* acknowledged, and numbers its units after its SYN, its FIN after them.
PeerNext(p) == Cardinality({n \in 1 .. ReqLen + 1 : 1 .. n \subseteq p.got}) + 1
PeerAck(p) == Iss(p.conn) + PeerNext(p)
PeerSeq(p) == PeerIss(p.conn) + 1 + p.nxt
Reply(segments) == toClient' = toClient \o segments

HandleSyn(m) ==
  LET k == ConnOf(m.seq)
      fresh == [conn |-> k, synced |-> FALSE, got |-> {}, una |-> 0, nxt |-> 0, up |-> TRUE]
  IN  CASE k > peer.conn ->
             peer' = fresh /\ Reply(<<Empty({"SYN", "ACK"}, PeerIss(k), Iss(k) + 1)>>)
        [] k = peer.conn /\ peer.up ->
             /\ UNCHANGED peer
             /\ Reply(<<IF peer.synced THEN Empty({"ACK"}, PeerSeq(peer), PeerAck(peer))
                        ELSE Empty({"SYN", "ACK"}, PeerIss(k), Iss(k) + 1)>>)
        [] OTHER -> UNCHANGED <<peer, toClient>>

HandleOther(m) ==
  LET acked == m.ack - PeerIss(peer.conn) - 1
      units == ToSet(m.data) \cup (IF "FIN" \in m.flags THEN {m.seq - Iss(peer.conn)} ELSE {})
      una == IF m.ack > PeerIss(peer.conn) /\ acked <= RespLen + 1
               THEN Max({peer.una, acked}) ELSE peer.una
      p == [peer EXCEPT !.synced = TRUE, !.got = @ \cup units,
                        !.una = una, !.nxt = Max({@, una})]
  IN  CASE ConnOf(m.seq) # peer.conn -> UNCHANGED <<peer, toClient>>
        [] ConnOf(m.seq) = peer.conn /\ ~peer.up ->
             UNCHANGED peer /\ Reply(<<Empty({"RST"}, m.ack, 0)>>)
        [] OTHER ->
             /\ peer' = p
             /\ IF units = {} THEN UNCHANGED toClient
                ELSE Reply(<<Empty({"ACK"}, PeerSeq(p), PeerAck(p))>>)

PeerReceives ==
  /\ toPeer # <<>>
  /\ toPeer' = Tail(toPeer)
  /\ IF "SYN" \in Head(toPeer).flags THEN HandleSyn(Head(toPeer)) ELSE HandleOther(Head(toPeer))
  /\ UNCHANGED <<client, faults, goneForGood>>

PeerAnswers == peer.up /\ peer.synced /\ PeerNext(peer) > ReqLen

\* A segment of the answer; the last one may bring the FIN, or that comes alone.
PeerSends ==
  /\ PeerAnswers /\ peer.nxt <= RespLen /\ Len(toClient) < MaxFlight
  /\ \E n \in 0 .. Min({PeerMss, RespLen - peer.nxt}), fin \in BOOLEAN :
       LET data == [i \in 1 .. n |-> Unit(peer.conn, peer.nxt + i)]
       IN  /\ fin => peer.nxt + n = RespLen
           /\ n > 0 \/ fin
           /\ Reply(<<Segment({"ACK"} \cup (IF fin THEN {"FIN"} ELSE {}),
                              PeerSeq(peer), PeerAck(peer), data)>>)
           /\ peer' = [peer EXCEPT !.nxt = @ + n + (IF fin THEN 1 ELSE 0)]
  /\ UNCHANGED <<client, toPeer, faults, goneForGood>>

PeerTimesOut ==
  /\ peer.up /\ peer.nxt > peer.una /\ toClient = <<>>
  /\ peer' = [peer EXCEPT !.nxt = peer.una]
  /\ UNCHANGED <<client, toPeer, toClient, faults, goneForGood>>

PeerResets ==
  /\ peer.up /\ peer.synced
  /\ peer' = [peer EXCEPT !.up = FALSE]
  /\ Reply(<<Empty({"RST"}, PeerSeq(peer), 0)>>)
  /\ UNCHANGED <<client, toPeer, faults, goneForGood>>

\* The network.
Fault == faults < MaxFaults /\ faults' = faults + 1

\* The client sends the last segment of a request twice at most and the others
\* once; a reset is not sent again of itself.
OnlyCopy(m) ==
  /\ ConnOf(m.seq) = conn
  /\ \/ "RST" \in m.flags
     \/ "PSH" \in m.flags /\ (m.seq # RequestEnd(conn) - 1 \/ did_retx)

LoseSegment ==
  /\ Fault
  /\ \/ \E i \in DOMAIN toPeer :
          /\ toPeer' = RemoveAt(toPeer, i)
          /\ goneForGood' = (goneForGood \/ OnlyCopy(toPeer[i]))
          /\ UNCHANGED toClient
     \/ \E i \in DOMAIN toClient :
          /\ toClient' = RemoveAt(toClient, i)
          /\ goneForGood' = (goneForGood \/ OnlyCopy(toClient[i]))
          /\ UNCHANGED toPeer
  /\ UNCHANGED <<client, peer>>

\* A segment stays behind, or comes twice, the second time after later ones.
Delay ==
  /\ Fault
  /\ \/ \E i \in DOMAIN toPeer : toPeer' = Append(toPeer, toPeer[i]) /\ UNCHANGED toClient
     \/ \E i \in DOMAIN toClient : toClient' = Append(toClient, toClient[i]) /\ UNCHANGED toPeer
     \/ \E i \in DOMAIN toPeer : toPeer' = Append(RemoveAt(toPeer, i), toPeer[i]) /\ UNCHANGED toClient
     \/ \E i \in DOMAIN toClient : toClient' = Append(RemoveAt(toClient, i), toClient[i]) /\ UNCHANGED toPeer
  /\ UNCHANGED <<client, peer, goneForGood>>

TcpNext ==
  \/ Request \/ ConnectRound \/ ReceiveSegment \/ ReceiveNothing \/ CloseRound \/ DropStray
  \/ PeerReceives \/ PeerSends \/ PeerTimesOut \/ PeerResets
  \/ LoseSegment \/ Delay

TcpSpec == TcpInit /\ [][TcpNext]_tcpVars

\* The client is a loop that reads what has come; the peer answers and repeats.
TcpFairSpec ==
  /\ TcpSpec
  /\ WF_tcpVars(ConnectRound) /\ WF_tcpVars(ReceiveSegment) /\ WF_tcpVars(ReceiveNothing) /\ WF_tcpVars(CloseRound)
  /\ WF_tcpVars(PeerReceives) /\ WF_tcpVars(PeerSends) /\ WF_tcpVars(PeerTimesOut)

-----------------------------------------------------------------------------
Flags == {"SYN", "ACK", "PSH", "FIN", "RST"}
Units == Nat \X Nat
ClientSegments == [flags : SUBSET Flags, seq : Nat, ack : Nat, data : Seq(Nat)]
PeerSegments == [flags : SUBSET Flags, seq : Nat, ack : Nat, data : Seq(Units)]

PeerStates == [conn : Nat, synced : BOOLEAN, got : SUBSET Nat,
               una : 0 .. RespLen + 1, nxt : 0 .. RespLen + 1, up : BOOLEAN]

ClientTypeOK ==
  /\ phase \in {"idle", "connecting", "receiving", "closing"} /\ result \in {"none", "ok", "error"}
  /\ conn \in 0 .. MaxRequests /\ attempt \in 0 .. Attempts
  /\ snd_nxt \in Nat /\ snd_una \in Nat /\ rcv_nxt \in Nat /\ lastTx \in [seq : Nat, len : {0, 1}]
  /\ idle \in 0 .. IdleMax + 1 /\ did_retx \in BOOLEAN /\ saw_fin \in BOOLEAN
  /\ tries \in 0 .. CloseTries /\ sized \in BOOLEAN
  /\ received \in Seq(Units) /\ Len(received) <= RespLen

\* The counters keep to their bounds, no more units come than an answer has, and
\* the peer is at no connection that was not begun.
TcpTypeOK ==
  /\ ClientTypeOK
  /\ peer \in PeerStates /\ peer.conn <= conn
  /\ toPeer \in Seq(ClientSegments) /\ toClient \in Seq(PeerSegments)
  /\ faults \in 0 .. MaxFaults /\ goneForGood \in BOOLEAN

\* What the caller's buffer holds is the beginning of the answer to this
\* request, each byte once: nothing of an earlier connection on the same port,
\* nothing twice or past a gap, whatever the network does.
PrefixDelivered ==
  received = [i \in 1 .. Len(received) |-> Unit(conn, i)]

\* The client acknowledges no byte it has not put in the buffer, so the peer
\* keeps every byte that is missing: a segment larger than the receive buffer
\* is acknowledged up to where it was taken.
AckedIsDelivered ==
  peer.conn = conn => peer.una <= Len(received)

\* Both ends agree on what has arrived: what the client has is a beginning of the
\* answer, and it acknowledges no more.
AnswerIsKept == PrefixDelivered /\ AckedIsDelivered

\* A request comes to an end when the peer answers, in spite of lost, doubled and
\* delayed segments, unless one is lost that nobody sends again.
RequestEnds ==
  phase # "idle" ~> phase = "idle" \/ goneForGood

\* net.c:1028 acknowledges after every segment "to keep sender moving": what was
\* left of a segment, or ignored, comes again, so that with nothing lost, doubled
\* or delayed a request that returns 0 has the whole answer.
OkIsWhole == result = "ok" /\ faults = 0 => Len(received) = RespLen
=============================================================================
