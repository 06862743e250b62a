--------------------------- MODULE TcpConnection ---------------------------
(* network/src/tcp/conn.rs: the state machine of one client connection, as
   operators on its record.  Each handler returns the new record and what the
   transport is asked to do.  Sequence numbers wrap at SeqSpace, a small stand-in
   for 2^32.  A byte is its position in the stream it belongs to.  A deadline
   is the ticks left before it, or Off. *)
EXTENDS Integers, Sequences, FiniteSetsExt

CONSTANTS
  SeqSpace,         \* the sequence space
  Iss,            \* the initial sequence number of the connection
  RecvCap,        \* TCP_RECV_BUFFER_BYTES
  SendCap,        \* TCP_SEND_BUFFER_BYTES
  Mss,            \* MAX_TCP_PAYLOAD, and the peer's MSS
  RtoTicks,       \* TCP_RTO_TICKS
  ConnectTicks,   \* TCP_CONNECT_TIMEOUT_TICKS
  TimeWaitTicks,  \* TCP_TIME_WAIT_TICKS
  MaxRetries      \* TCP_MAX_RETRIES

ASSUME TcpConstants ==
  /\ SeqSpace \in Nat /\ SeqSpace % 2 = 0 /\ Iss \in 0 .. SeqSpace - 1
  /\ {RecvCap, SendCap, Mss, RtoTicks, ConnectTicks, TimeWaitTicks, MaxRetries} \subseteq Nat \ {0}
  /\ 2 * (RecvCap + 2) <= SeqSpace /\ 2 * (SendCap + 2) <= SeqSpace
  /\ RtoTicks < ConnectTicks

Off == -1
Plus(a, n) == (a + n) % SeqSpace
seq_lt(a, b) == (a - b) % SeqSpace >= SeqSpace \div 2
seq_le(a, b) == a = b \/ seq_lt(a, b)
ack_valid(c, ack) == seq_le(c.una, ack) /\ seq_le(ack, c.nxt)

occupies_sequence_space(s) == s.data # << >> \/ s.flags \cap {"syn", "fin"} # {}

NoUnacked == [active |-> FALSE, seq |-> 0, data |-> << >>, syn |-> FALSE, fin |-> FALSE]

NewConnection ==
  [state |-> "SynSent", una |-> Iss, nxt |-> Iss, rcv |-> 0, peerWindow |-> Mss,
   sendBuf |-> << >>, recvBuf |-> << >>, unacked |-> NoUnacked, rto |-> Off,
   retries |-> 0, timeWait |-> Off, connect |-> ConnectTicks, pendingSyn |-> TRUE,
   peerFin |-> FALSE, ourFin |-> FALSE, failed |-> FALSE]

release_buffers(c) ==
  [c EXCEPT !.sendBuf = << >>, !.recvBuf = << >>, !.unacked = NoUnacked, !.rto = Off]

advertised_window(c) == RecvCap - Len(c.recvBuf)

build_segment(c, flags, seq, data) ==
  [seq |-> seq, ack |-> c.rcv, flags |-> flags, data |-> data, window |-> advertised_window(c)]

record_unacked(c, seq, data, syn, fin) ==
  [c EXCEPT !.unacked = [active |-> TRUE, seq |-> seq, data |-> data, syn |-> syn, fin |-> fin],
            !.rto = RtoTicks]

unacked_for_retransmit(c) ==
  build_segment(c, IF c.unacked.syn THEN {"syn"}
                   ELSE {"ack"} \cup (IF c.unacked.fin THEN {"fin"} ELSE {}),
                c.unacked.seq, c.unacked.data)
-----------------------------------------------------------------------------
Result(c, action) == [conn |-> c, action |-> action]

Failed(c) == Result([release_buffers(c) EXCEPT !.state = "Reset", !.failed = TRUE], "Failed")

(* The retransmission stops only when everything sent is acknowledged. *)
apply_ack(c, ack) ==
  IF ack = c.nxt
  THEN [c EXCEPT !.una = ack, !.unacked = NoUnacked, !.rto = Off, !.retries = 0]
  ELSE [c EXCEPT !.una = ack]

AckApplied(c, s) == IF "ack" \in s.flags /\ ack_valid(c, s.ack) THEN apply_ack(c, s.ack) ELSE c

\* Mutant: a segment that lies behind rcv_nxt is taken for new data.
OnlyAheadUnacceptable(c, s) == occupies_sequence_space(s) /\ seq_lt(c.rcv, s.seq)

is_unacceptable(c, s) == occupies_sequence_space(s) /\ s.seq # c.rcv

(* As much of the payload as the receive ring has room for. *)
Accept(c, data) ==
  LET take == Min({Len(data), RecvCap - Len(c.recvBuf)})
  IN  [c EXCEPT !.recvBuf = @ \o SubSeq(data, 1, take), !.rcv = Plus(@, take)]

FinConsumed(c, state) == [c EXCEPT !.peerFin = TRUE, !.rcv = Plus(@, 1), !.state = state]

on_syn_sent(c, s) ==
  IF ~ {"syn", "ack"} \subseteq s.flags \/ s.ack # Plus(Iss, 1)
  THEN Result(c, "None")
  ELSE Result(Accept([c EXCEPT !.pendingSyn = FALSE, !.unacked = NoUnacked, !.rto = Off,
                               !.retries = 0, !.rcv = Plus(s.seq, 1), !.peerWindow = s.window,
                               !.una = Plus(Iss, 1), !.nxt = Plus(Iss, 1),
                               !.state = "Established", !.connect = Off], s.data), "SendAck")

on_established(c, s) ==
  LET w == [AckApplied(c, s) EXCEPT !.peerWindow = s.window]
      d == Accept(w, s.data)
      y == IF "syn" \in s.flags THEN [d EXCEPT !.rcv = Plus(@, 1)] ELSE d
  IN  IF is_unacceptable(w, s) THEN Result(w, "SendAck")
      ELSE IF occupies_sequence_space(s)
      THEN Result(IF "fin" \in s.flags THEN FinConsumed(y, "CloseWait") ELSE y, "SendAck")
      ELSE Result(w, IF "ack" \in s.flags /\ ack_valid(w, s.ack) THEN "MaybeSendData" ELSE "None")

on_fin_wait1(c, s) ==
  LET r == on_established(c, s)
      acked == r.conn.ourFin /\ r.conn.una = r.conn.nxt
  IN  [r EXCEPT !.conn.state = IF r.conn.peerFin
                               THEN IF acked THEN "TimeWait" ELSE "Closing"
                               ELSE IF acked THEN "FinWait2" ELSE "FinWait1"]

\* Mutant: a FIN is consumed wherever it lies in the stream.
on_fin_wait2_any(c, s) ==
  IF "fin" \in s.flags THEN Result(FinConsumed(AckApplied(c, s), "TimeWait"), "SendAck")
  ELSE IF is_unacceptable(c, s) THEN Result(AckApplied(c, s), "SendAck")
  ELSE Result(Accept(AckApplied(c, s), s.data), "SendAck")

(* A FIN that comes with data is left to the peer's next transmission. *)
on_fin_wait2(c, s) ==
  LET w == AckApplied(c, s)
  IN  IF is_unacceptable(w, s) THEN Result(w, "SendAck")
      ELSE IF s.data # << >> THEN Result(Accept(w, s.data), "SendAck")
      ELSE IF "fin" \in s.flags THEN Result(FinConsumed(w, "TimeWait"), "SendAck")
      ELSE Result(w, "None")

on_closing(c, s) ==
  LET valid == "ack" \in s.flags /\ ack_valid(c, s.ack)
      w == AckApplied(c, s)
      t == IF valid /\ w.una = w.nxt THEN [w EXCEPT !.state = "TimeWait"] ELSE w
  IN  Result(t, IF is_unacceptable(t, s) THEN "SendAck" ELSE "None")

on_time_wait(c, s) == Result(c, IF is_unacceptable(c, s) THEN "SendAck" ELSE "None")

on_last_ack(c, s) ==
  IF "ack" \in s.flags /\ s.ack = c.nxt
  THEN Result([release_buffers(c) EXCEPT !.state = "Closed"], "Closed")
  ELSE Result(c, IF is_unacceptable(c, s) THEN "SendAck" ELSE "None")

(* The window of the peer is not read here. *)
on_close_wait(c, s) ==
  LET w == AckApplied(c, s)
  IN  IF is_unacceptable(w, s) THEN Result(w, "SendAck")
      ELSE IF s.data # << >> THEN Result(Accept(w, s.data), "SendAck")
      ELSE Result(w, "MaybeSendData")

on_segment(c, s) ==
  CASE c.failed -> Result(c, "Failed")
    [] ~c.failed /\ "rst" \in s.flags ->
         IF IF c.state = "SynSent" THEN "ack" \in s.flags /\ s.ack = Plus(Iss, 1) ELSE s.seq = c.rcv
         THEN Failed(c) ELSE Result(c, "None")
    [] OTHER ->
         CASE c.state = "SynSent"     -> on_syn_sent(c, s)
           [] c.state = "Established" -> on_established(c, s)
           [] c.state = "FinWait1"    -> on_fin_wait1(c, s)
           [] c.state = "FinWait2"    -> on_fin_wait2(c, s)
           [] c.state = "Closing"     -> on_closing(c, s)
           [] c.state = "LastAck"     -> on_last_ack(c, s)
           [] c.state = "TimeWait"    -> on_time_wait(c, s)
           [] c.state = "CloseWait"   -> on_close_wait(c, s)
           [] OTHER                   -> Result(c, "None")
-----------------------------------------------------------------------------
\* Mutant: the retransmissions of a segment are not counted.
tick_rto_forever(c) ==
  IF c.unacked.active /\ c.rto = 0
  THEN Result([c EXCEPT !.rto = RtoTicks], "Retransmit") ELSE Result(c, "None")

(* the retransmission timer of tick_timers *)
tick_rto(c) ==
  IF ~ (c.unacked.active /\ c.rto = 0) THEN Result(c, "None")
  ELSE IF c.state # "SynSent" /\ c.retries >= MaxRetries THEN Failed(c)
  ELSE Result([c EXCEPT !.retries = IF c.state # "SynSent" THEN @ + 1 ELSE @,
                        !.rto = RtoTicks], "Retransmit")

tick_timers(c) ==
  LET armed == IF c.state = "TimeWait" /\ c.timeWait = Off
               THEN [c EXCEPT !.timeWait = TimeWaitTicks] ELSE c
  IN  IF c.failed THEN Result(c, "Failed")
      ELSE IF armed.state = "TimeWait" /\ armed.timeWait = 0
      THEN Result([release_buffers(armed) EXCEPT !.state = "Closed"], "Closed")
      ELSE IF c.state = "SynSent" /\ c.connect = 0 THEN Failed(c)
      ELSE tick_rto(armed)

(* Time passes for the deadlines of the connection. *)
Elapse(t) == IF t > 0 THEN t - 1 ELSE t
Elapsed(c) == [c EXCEPT !.rto = Elapse(@), !.timeWait = Elapse(@), !.connect = Elapse(@)]
-----------------------------------------------------------------------------
(* queue_send: the bytes the send ring takes, and whether the call succeeds *)
MaySend(c) == c.state \in {"Established", "CloseWait"}
Pushed(c, n) == Min({n, SendCap - Len(c.sendBuf)})

start_close(c) ==
  [c EXCEPT !.ourFin = TRUE, !.state = IF @ = "Established" THEN "FinWait1" ELSE "LastAck"]
============================================================================
