---------------------------- MODULE TcpTransport ----------------------------
(* network/src/tcp/transport.rs with one connection of the table, the
   application that uses it, a network that loses, duplicates and reorders
   segments, and a peer that follows the protocol.  Network and peer are
   external.  The service polls on every frame and at every deadline. *)
EXTENDS TcpConnection, SequencesExt

CONSTANTS
  Irs,          \* the initial sequence number of the peer
  QueueCap,     \* segments in flight in each direction
  Bounds        \* bytes of the application and of the peer, windows of the peer, faults

ASSUME TransportConstants ==
  /\ Irs \in 0 .. SeqSpace - 1 /\ QueueCap \in Nat \ {0}
  /\ \A b \in Bounds : b.faults \in Nat /\ \A n \in {b.app, b.peer} : 2 * (n + 2) <= SeqSpace

VARIABLES
  conn,     \* the slot of TcpTable
  app,      \* what the application did: opened, bytes sent, bytes got, end of stream seen;
            \* history: cut, the FIN was consumed without the byte before it
  peer,     \* the other end
  toPeer, toConn,   \* the segments in flight
  faults,   \* losses, duplications and reorderings so far
  bound     \* the member of Bounds this behaviour keeps to

system == <<conn, app, peer, toPeer, toConn, faults>>
vars == <<system, bound>>
AppBytes == bound.app
PeerBytes == bound.peer     \* the FIN of the peer follows them
MaxFaults == bound.faults
PeerWindows == bound.windows

Nothing == [state |-> "None"]
Live == conn # Nothing
Outcome(c, out) == [conn |-> c, out |-> out]

Init ==
  /\ conn = Nothing
  /\ app = [opened |-> FALSE, sent |-> 0, got |-> << >>, eof |-> FALSE, cut |-> FALSE]
  /\ peer = [state |-> "Listen", rcv |-> 0, got |-> << >>, fin |-> FALSE,
             una |-> 0, nxt |-> 0, edge |-> 0]
  /\ toPeer = << >> /\ toConn = << >> /\ faults = 0 /\ bound \in Bounds
-----------------------------------------------------------------------------
(* The network.  A full queue drops what is sent. *)
Queued(net, out) ==
  LET all == net \o out IN SubSeq(all, 1, Min({Len(all), Max({QueueCap, Len(net)})}))

(* Taking the i-th segment out, and what that costs.  Once the slot is free the
   table drops what still arrives, so the network stops there. *)
Taken(net, i, dup) ==
  /\ Live /\ i \in DOMAIN net
  /\ faults' = faults + (IF i > 1 THEN 1 ELSE 0) + (IF dup THEN 1 ELSE 0)
  /\ faults' <= MaxFaults

(* A timer that runs out while segments are still on their way is a fault too. *)
Delayed ==
  /\ faults' = faults + (IF toPeer = << >> /\ toConn = << >> THEN 0 ELSE 1)
  /\ faults' <= MaxFaults

Left(net, i, dup) == IF dup THEN net ELSE RemoveAt(net, i)

Lose ==
  /\ Live /\ faults < MaxFaults /\ faults' = faults + 1
  /\ \/ \E i \in DOMAIN toPeer : toPeer' = RemoveAt(toPeer, i) /\ UNCHANGED toConn
     \/ \E i \in DOMAIN toConn : toConn' = RemoveAt(toConn, i) /\ UNCHANGED toPeer
  /\ UNCHANGED <<conn, app, peer>>
-----------------------------------------------------------------------------
(* The transport.  reach is whether the next hop is in the ARP cache. *)
syn_segment == [seq |-> Iss, ack |-> 0, flags |-> {"syn"}, data |-> << >>, window |-> RecvCap]

(* on_unreachable *)
Transmitted(c, out, reach) ==
  IF reach \/ out = << >> THEN Outcome(c, out)
  ELSE Outcome([c EXCEPT !.pendingSyn = @ \/ c.state = "SynSent"], << >>)

send_syn_at(c, reach) ==
  LET r == [record_unacked(c, Iss, << >>, TRUE, FALSE) EXCEPT !.connect = ConnectTicks]
  IN  IF reach THEN Outcome([r EXCEPT !.nxt = Plus(Iss, 1), !.pendingSyn = FALSE], <<syn_segment>>)
      ELSE Outcome([r EXCEPT !.pendingSyn = TRUE], << >>)

send_ack_at(c, reach) == Transmitted(c, <<build_segment(c, {"ack"}, c.nxt, << >>)>>, reach)

send_fin_at(c, reach) ==
  Transmitted(record_unacked([c EXCEPT !.nxt = Plus(@, 1)], c.nxt, << >>, FALSE, TRUE),
              <<build_segment(c, {"ack", "fin"}, c.nxt, << >>)>>, reach)

RstOf(c) == build_segment(c, {"rst", "ack"}, c.nxt, << >>)

retransmit_at(c, reach) ==
  LET r == Transmitted(c, <<unacked_for_retransmit(c)>>, reach)
  IN  IF c.state = "SynSent" THEN [r EXCEPT !.conn.connect = ConnectTicks] ELSE r

\* Mutant: data is sent although a segment is still unacknowledged.
try_send_overlapping(c, reach) ==
  LET n == Min({Len(c.sendBuf), Mss, c.peerWindow})
  IN  IF ~MaySend(c) \/ n = 0 THEN Outcome(c, << >>)
      ELSE LET data == SubSeq(c.sendBuf, 1, n)
               d == [c EXCEPT !.sendBuf = SubSeq(@, n + 1, Len(@)), !.nxt = Plus(@, n)]
           IN  Transmitted(record_unacked(d, c.nxt, data, FALSE, FALSE),
                           <<build_segment(c, {"ack", "psh"}, c.nxt, data)>>, reach)

(* One segment at a time, as large as the peer takes. *)
try_send_data_at(c, reach) ==
  LET n == Min({Len(c.sendBuf), Mss, c.peerWindow})
      data == SubSeq(c.sendBuf, 1, n)
      d == [c EXCEPT !.sendBuf = SubSeq(@, n + 1, Len(@)), !.nxt = Plus(@, n)]
  IN  IF c.unacked.active \/ ~MaySend(c) \/ n = 0 THEN Outcome(c, << >>)
      ELSE Transmitted(record_unacked(d, c.nxt, data, FALSE, FALSE),
                       <<build_segment(c, {"ack", "psh"}, c.nxt, data)>>, reach)

(* A failed connection keeps its slot while received data waits. *)
OnFailed(c) == Outcome(IF c.recvBuf # << >> THEN c ELSE Nothing, << >>)

(* Segment s made a connection c that had no room for its data into d, which has
   seen the FIN. *)
CutShort(c, s, d) == d.peerFin /\ ~c.peerFin /\ Len(s.data) > RecvCap - Len(c.recvBuf)

(* poll: the receive loop, on what on_segment made of one segment *)
PollReceived(r, reach) ==
  CASE r.action = "SendAck" ->
         send_ack_at(IF r.conn.state = "TimeWait"
                     THEN [r.conn EXCEPT !.timeWait = TimeWaitTicks] ELSE r.conn, reach)
    [] r.action = "MaybeSendData" -> try_send_data_at(r.conn, reach)
    [] r.action = "Closed" -> Outcome(Nothing, << >>)
    [] r.action = "Failed" -> OnFailed(r.conn)
    [] OTHER               -> Outcome(r.conn, << >>)

(* poll: the timers, on what tick_timers returned *)
PollTimed(r, reach) ==
  CASE r.action = "Retransmit" -> retransmit_at(r.conn, reach)
    [] r.action = "Closed"     -> Outcome(Nothing, << >>)
    [] r.action = "Failed"     -> OnFailed(r.conn)
    [] OTHER                   -> Outcome(r.conn, << >>)

(* poll: the pass that retries the SYN or sends queued data *)
PollSent(c, reach) ==
  IF c.state = "SynSent" /\ c.pendingSyn THEN send_syn_at(c, reach) ELSE try_send_data_at(c, reach)

Apply(c, out) == conn' = c /\ toPeer' = Queued(toPeer, out)

(* poll, from the state rx leaves after the receive loop *)
PollRest(rx, reach) ==
  \/ rx.conn = Nothing /\ Apply(Nothing, rx.out)
  \/ /\ rx.conn # Nothing
     /\ \E t \in {tick_timers(rx.conn)} : \E timed \in {PollTimed(t, reach)} :
          \/ timed.conn = Nothing /\ Apply(Nothing, rx.out \o timed.out)
          \/ /\ timed.conn # Nothing
             /\ \E sent \in {PollSent(timed.conn, reach)} :
                  Apply(sent.conn, rx.out \o timed.out \o sent.out)

(* An ARP miss counts as a fault of the network. *)
Reaches(reach) == faults' = faults + (IF reach THEN 0 ELSE 1) /\ faults' <= MaxFaults

PollIdle(reach) ==
  /\ Live /\ Reaches(reach)
  /\ PollRest(Outcome(conn, << >>), reach)
  /\ UNCHANGED <<app, peer, toConn>>

PollFrame(i, dup) ==
  /\ Taken(toConn, i, dup)
  /\ \E r \in {on_segment(conn, toConn[i])} : \E rx \in {PollReceived(r, TRUE)} :
       /\ PollRest(rx, TRUE)
       /\ app' = [app EXCEPT !.cut = @ \/ CutShort(conn, toConn[i], r.conn)]
  /\ toConn' = Left(toConn, i, dup)
  /\ UNCHANGED peer

Tick ==
  /\ Live /\ Delayed
  /\ conn' = Elapsed(conn)
  /\ UNCHANGED <<app, peer, toPeer, toConn>>
-----------------------------------------------------------------------------
(* The calls of the application. *)
Connect(reach) ==
  /\ ~app.opened /\ Reaches(reach)
  /\ app' = [app EXCEPT !.opened = TRUE]
  /\ \E o \in {send_syn_at(NewConnection, reach)} : Apply(o.conn, o.out)
  /\ UNCHANGED <<peer, toConn>>

Send(n) ==
  /\ Live /\ MaySend(conn)
  /\ Pushed(conn, n) > 0 /\ app.sent + n <= AppBytes
  /\ LET k == Pushed(conn, n)
         new == [i \in 1 .. k |-> app.sent + i]
     IN  /\ app' = [app EXCEPT !.sent = @ + k]
         /\ \E o \in {try_send_data_at([conn EXCEPT !.sendBuf = @ \o new], TRUE)} : Apply(o.conn, o.out)
  /\ UNCHANGED <<peer, toConn, faults>>

Receive(n) ==
  /\ Live
  /\ LET k == Min({n, Len(conn.recvBuf)})
     IN  /\ app' = [app EXCEPT !.got = @ \o SubSeq(conn.recvBuf, 1, k),
                               !.eof = @ \/ (k = 0 /\ conn.state # "Reset" /\ conn.peerFin)]
         /\ conn' = [conn EXCEPT !.recvBuf = SubSeq(@, k + 1, Len(@))]
  /\ UNCHANGED <<peer, toPeer, toConn, faults>>

Close ==
  /\ Live /\ conn.state \in {"Established", "CloseWait"}
  /\ \E o \in {send_fin_at(start_close(conn), TRUE)} : Apply(o.conn, o.out)
  /\ UNCHANGED <<app, peer, toConn, faults>>

Abort ==
  /\ Live /\ conn' = Nothing
  /\ UNCHANGED <<app, peer, toPeer, toConn, faults>>

(* on_holder_exit, and reset *)
HolderExit ==
  /\ Live /\ conn.state \notin {"Closed", "Reset"}
  /\ Apply(Nothing, <<RstOf(conn)>>)
  /\ UNCHANGED <<app, peer, toConn, faults>>
-----------------------------------------------------------------------------
(* The peer: una, nxt and edge are positions in its stream (what is
   acknowledged, what was sent, what the window allows); its FIN follows byte
   PeerBytes. *)
PeerSegment(flags, seq, data, w) ==
  [seq |-> seq, ack |-> peer.rcv, flags |-> flags, data |-> data, window |-> w]

SynAck(l, w) ==
  [seq |-> Irs, ack |-> peer.rcv, flags |-> {"syn", "ack"}, data |-> [i \in 1 .. l |-> i], window |-> w]

(* What the peer makes of the acknowledgement and the window of s *)
PeerAcked(p, s) ==
  LET off == (s.ack - Irs - 1) % SeqSpace
  IN  IF "ack" \in s.flags /\ off \in p.una .. p.nxt
      THEN [p EXCEPT !.una = off, !.edge = Max({@, off + s.window}),
                     !.state = IF @ = "SynRcvd" THEN "Open" ELSE @]
      ELSE p

PeerTakes(p, s) ==
  IF occupies_sequence_space(s) /\ s.seq = p.rcv /\ p.state = "Open"
  THEN LET f == "fin" \in s.flags
       IN  [p EXCEPT !.got = @ \o s.data, !.fin = @ \/ f,
                     !.rcv = Plus(@, Len(s.data) + (IF f THEN 1 ELSE 0))]
  ELSE p

PeerHandles(s, w) ==
  LET p == PeerTakes(PeerAcked(peer, s), s)
      rst == [seq |-> s.ack, ack |-> Plus(s.seq, 1), flags |-> {"rst", "ack"},
              data |-> << >>, window |-> 0]
      ack == [seq |-> Plus(Irs, p.nxt + 1), ack |-> p.rcv, flags |-> {"ack"},
              data |-> << >>, window |-> w]
  IN  CASE peer.state = "Dead" -> [peer |-> peer, out |-> <<rst>>]
        [] peer.state = "Listen" ->
             [peer |-> IF "syn" \in s.flags
                       THEN [peer EXCEPT !.state = "SynRcvd", !.rcv = Plus(s.seq, 1), !.edge = s.window]
                       ELSE peer, out |-> << >>]
        [] peer.state = "SynRcvd" /\ "syn" \in s.flags -> [peer |-> peer, out |-> << >>]
        [] OTHER -> [peer |-> p, out |-> IF occupies_sequence_space(s) THEN <<ack>> ELSE << >>]

PeerReceive(i, dup, w) ==
  /\ Taken(toPeer, i, dup)
  /\ \E r \in {PeerHandles(toPeer[i], w)} :
       peer' = r.peer /\ toConn' = Queued(toConn, r.out)
  /\ toPeer' = Left(toPeer, i, dup)
  /\ UNCHANGED <<conn, app>>

(* New data, or again what is not acknowledged: l bytes, at most what the window
   allows or one byte to probe it, and the FIN when the stream ends with them, on
   the probe as well. *)
PeerSend(from, l, fin, w) ==
  /\ Live /\ Len(toConn) < QueueCap /\ peer.state = "Open"
  /\ IF from = peer.nxt THEN UNCHANGED faults ELSE from = peer.una /\ Delayed
  /\ l + (IF fin THEN 1 ELSE 0) > 0
  /\ from + l <= Min({PeerBytes, Max({peer.edge, peer.una + 1})})
  /\ fin => from + l = PeerBytes
  /\ peer' = [peer EXCEPT !.nxt = Max({@, from + l + (IF fin THEN 1 ELSE 0)})]
  /\ toConn' = Append(toConn, PeerSegment({"ack"} \cup (IF fin THEN {"fin"} ELSE {}),
                                          Plus(Irs, from + 1), [i \in 1 .. l |-> from + i], w))
  /\ UNCHANGED <<conn, app, toPeer>>

(* The SYN-ACK, perhaps with the first byte *)
PeerAccept(l, w) ==
  /\ Delayed /\ Live /\ Len(toConn) < QueueCap /\ peer.state = "SynRcvd"
  /\ l <= Min({PeerBytes, peer.edge, 1})
  /\ peer' = [peer EXCEPT !.nxt = Max({@, l})]
  /\ toConn' = Append(toConn, SynAck(l, w))
  /\ UNCHANGED <<conn, app, toPeer>>

PeerDies ==
  /\ peer.state \in {"Listen", "Open"} /\ peer' = [peer EXCEPT !.state = "Dead"]
  /\ UNCHANGED <<conn, app, toPeer, toConn, faults>>
-----------------------------------------------------------------------------
PeerNext ==
  \/ \E w \in PeerWindows :
       \/ \E i \in 1 .. QueueCap, dup \in BOOLEAN : PeerReceive(i, dup, w)
       \/ \E from \in 0 .. PeerBytes, l \in 0 .. Mss, fin \in BOOLEAN : PeerSend(from, l, fin, w)
       \/ \E l \in 0 .. 1 : PeerAccept(l, w)
  \/ PeerDies

Step ==
  \/ \E reach \in BOOLEAN : Connect(reach) \/ PollIdle(reach)
  \/ \E i \in 1 .. QueueCap, dup \in BOOLEAN : PollFrame(i, dup)
  \/ \E n \in 1 .. 2 : Send(n) \/ Receive(n)
  \/ Close \/ Abort \/ HolderExit \/ Tick
  \/ PeerNext \/ Lose

Next == Step /\ UNCHANGED bound

(* The service wakes for frames and deadlines and time passes; the network
   delivers what it does not lose; the peer answers, repeats what is not
   acknowledged and closes in the end. *)
Fairness ==
  /\ WF_system(PollIdle(TRUE)) /\ WF_system(PollFrame(1, FALSE)) /\ SF_system(Tick)
  /\ WF_system(\E w \in PeerWindows : PeerReceive(1, FALSE, w))
  /\ WF_system(\E l \in 0 .. 1, w \in PeerWindows : PeerAccept(l, w))
  /\ WF_system(\E l \in 0 .. Mss, fin \in BOOLEAN, w \in PeerWindows : PeerSend(peer.una, l, fin, w))

Spec == Init /\ [][Next]_vars /\ Fairness
-----------------------------------------------------------------------------
(* Properties. *)
Bytes(n) == [i \in 1 .. n |-> i]
Arrived == app.got \o (IF Live THEN conn.recvBuf ELSE << >>)

(* Each end receives the bytes of the other in order, without a gap and without
   a repetition, whatever the network loses, repeats or reorders (the checks
   against rcv_nxt in conn.rs). *)
StreamIntact == IsPrefix(Arrived, Bytes(PeerBytes)) /\ IsPrefix(peer.got, Bytes(app.sent))

(* receive reports the end of the stream only after everything the peer sent before
   its FIN, in whichever state the FIN was consumed, with one exception: when the last
   byte probes a full ring and carries the FIN, on_established drops the byte and
   consumes the FIN, and the end is reported one byte early. *)
EndIsReal == app.eof => app.got = Bytes(PeerBytes - (IF app.cut THEN 1 ELSE 0))

(* Until the application closes, each byte send accepted is acknowledged (and
   then the peer has it), in the segment kept for retransmission, or queued. *)
NothingForgotten ==
  Live /\ MaySend(conn) =>
    LET acked == (conn.una - Iss - 1) % SeqSpace
        kept == SubSeq(conn.unacked.data, ((conn.una - conn.unacked.seq) % SeqSpace) + 1,
                       Len(conn.unacked.data))
    IN  /\ acked <= Len(peer.got)
        /\ Bytes(acked) \o kept \o conn.sendBuf = Bytes(app.sent)

(* A closed connection gives its slot back: only FIN-WAIT-2, which has no timer,
   can hold it, when the peer is gone or the receive ring is full. *)
CloseCompletes ==
  []<>(Live /\ conn.ourFin =>
         conn.state = "FinWait2" /\ (peer.state = "Dead" \/ Len(conn.recvBuf) = RecvCap))

============================================================================
