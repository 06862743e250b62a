----------------------------- MODULE NetService -----------------------------
(***************************************************************************)
(* The network service process (net-service/src/bin/userspace.rs): one loop  *)
(* that drains the exits of its callers, feeds its stacks, completes parked  *)
(* requests, takes the next one and sleeps when there is nothing to do.  A    *)
(* step is a system call with the private work that follows it; answers go    *)
(* out one system call each.  The TCP stack is TcpTransport's; here a stream   *)
(* is connecting, open, has bytes, is at its end, or has failed.              *)
(***************************************************************************)
EXTENDS NetBridge

CONSTANTS SessionCount,  \* MAX_SESSIONS
          ParkedCount    \* MAX_PARKED_REQUESTS

VARIABLE service

FreeSession == [owner |-> NoPid, conn |-> "none"]
NotParked == [id |-> 0, caller |-> NoPid, index |-> 0, work |-> "none", conn |-> "none"]

\* run_service_loop starts with empty tables.
FreshService ==
    [up |-> TRUE, pc |-> "exits", next |-> 1, progressed |-> FALSE, outbox |-> <<>>,
     sessions |-> [i \in 1 .. SessionCount |-> FreeSession],
     parked |-> [k \in 1 .. ParkedCount |-> NotParked]]
Down == [FreshService EXCEPT !.up = FALSE]

ServiceIds == {service.parked[k].id : k \in 1 .. ParkedCount}
              \cup {service.outbox[k].id : k \in 1 .. Len(service.outbox)}

Free(s) == {i \in 1 .. SessionCount : s.sessions[i].owner = NoPid}
Room(s) == {k \in 1 .. ParkedCount : s.parked[k].id = 0}

\* alloc_session: the first free index from the one after the last, round robin.
After(s, n) == ((s.next - 1 + n) % SessionCount) + 1
NewSession(s) == After(s, Min({n \in 0 .. SessionCount - 1 : After(s, n) \in Free(s)}))

\* validate_session
Valid(s, b, r) ==
    /\ r.session.gen = b.gen
    /\ s.sessions[r.session.index].owner = r.client

\* park
Park(s, r, work, conn) ==
    [s EXCEPT !.parked[Min(Room(s))] =
       [id |-> r.id, caller |-> r.client, index |-> r.session.index, work |-> work, conn |-> conn]]

Send1(s, id, answer) == [s EXCEPT !.outbox = Append(@, [id |-> id, answer |-> answer])]

\* cancel_parked_where: the matching entries in table order, each with Reset.
Cancel(s, matching) ==
    LET hit == {k \in matching : s.parked[k].id # 0}
        resets == [n \in 1 .. Cardinality(hit) |->
                     [id |-> s.parked[SetToSortSeq(hit, <)[n]].id, answer |-> Answer("Reset")]]
    IN  [s EXCEPT !.outbox = @ \o resets,
                  !.parked = [k \in 1 .. ParkedCount |-> IF k \in hit THEN NotParked ELSE s.parked[k]]]

\* try_tcp_receive_once: bytes before the end, nothing while the stream is open.
Received(conn) ==
    Answer(CASE conn \in {"data", "dataEnd"} -> "Data" [] conn = "end" -> "Eof" [] OTHER -> "Error")
Drained(conn) == CASE conn = "data" -> "open" [] conn = "dataEnd" -> "end" [] OTHER -> conn

\* handle_service_request of the request in slot r, for sessions of Linux streams;
\* fails says whether the stack refuses the connection or the bytes.
HandleOpen(s, b, r) ==
    IF Free(s) = {} THEN Send1(s, r.id, Answer("Error"))
    ELSE LET i == NewSession(s)
         IN  Send1([s EXCEPT !.sessions[i].owner = r.client, !.next = (i % SessionCount) + 1],
                   r.id, [kind |-> "Open", session |-> [gen |-> b.gen, index |-> i]])

\* handle_service_plain_tcp_connect
HandleConnect(s, r, fails) ==
    LET conn == s.sessions[r.session.index].conn
        connecting == \E k \in 1 .. ParkedCount :
                        /\ s.parked[k].caller = r.client /\ s.parked[k].work = "connect"
                        /\ s.parked[k].index = r.session.index
    IN  IF conn # "none" THEN Send1(s, r.id, Answer(IF conn = "reset" THEN "Error" ELSE "Connect"))
        ELSE IF connecting \/ Room(s) = {} \/ fails THEN Send1(s, r.id, Answer("Error"))
        ELSE Park(s, r, "connect", "syn")

\* handle_service_plain_tcp_send
HandleSend(s, r, fails) ==
    LET conn == s.sessions[r.session.index].conn
    IN  Send1(s, r.id, Answer(IF conn \in {"none", "reset"} \/ fails THEN "Error" ELSE "Send"))

\* receive_or_park, park_or_refuse
HandleReceive(s, r) ==
    LET i == r.session.index
        conn == s.sessions[i].conn
    IN  IF conn # "open" THEN Send1([s EXCEPT !.sessions[i].conn = Drained(conn)], r.id, Received(conn))
        ELSE IF Room(s) = {} THEN Send1(s, r.id, Answer("Error"))
        ELSE Park(s, r, "receive", "none")

\* The Close of a session first resets what is parked on it (cancel_session).
HandleClose(s, r) ==
    LET ofSession == {k \in 1 .. ParkedCount :
                        s.parked[k].caller = r.client /\ s.parked[k].index = r.session.index}
    IN  Send1([Cancel(s, ofSession) EXCEPT !.sessions[r.session.index] = FreeSession],
              r.id, Answer("Close"))

Handle(s, b, r, fails) ==
    CASE r.op = "open"                             -> HandleOpen(s, b, r)
      [] r.op # "open" /\ ~Valid(s, b, r)          -> Send1(s, r.id, Answer("Error"))
      [] r.op = "connect" /\ Valid(s, b, r)        -> HandleConnect(s, r, fails)
      [] r.op = "send" /\ Valid(s, b, r)           -> HandleSend(s, r, fails)
      [] r.op = "receive" /\ Valid(s, b, r)        -> HandleReceive(s, r)
      [] r.op = "close" /\ Valid(s, b, r)          -> HandleClose(s, r)

\* drain_ingress: what timers, and frames if there are any, can make of a stream.
Arrivals(conn, frame) ==
    LET brought == CASE conn = "syn"  -> {"open", "data", "dataEnd", "end"}
                     [] conn = "open" -> {"data", "dataEnd", "end"}
                     [] conn = "data" -> {"dataEnd"}
                     [] OTHER         -> {}
    IN  {conn} \cup (IF frame THEN brought ELSE {})
               \cup (IF conn \in {"syn", "open", "data"} THEN {"reset"} ELSE {})

\* The streams after drain_ingress: those of the sessions and those of the parked connects
Fed(s, frame) ==
    LET Each(row) ==  \* the choices of a stream for every entry of a table
          LET can == [i \in DOMAIN row |-> Arrivals(row[i].conn, frame)]
          IN  {f \in [DOMAIN row -> UNION Range(can)] : \A i \in DOMAIN row : f[i] \in can[i]}
        With(row, f) == [i \in DOMAIN row |-> [row[i] EXCEPT !.conn = f[i]]]
    IN  {[s EXCEPT !.sessions = With(s.sessions, f), !.parked = With(s.parked, g)] :
           f \in Each(s.sessions), g \in Each(s.parked)}

\* poll_parked: the answer of a parked request, none while it must wait.  A connect
\* whose handshake finished is attached to its session.
Parkable(s, e, expired) ==
    CASE e.work = "receive" -> s.sessions[e.index].conn = "open"
      [] e.work = "connect" -> e.conn = "syn" /\ ~expired
      [] OTHER              -> TRUE

PollParked(s, k) ==
    LET e == s.parked[k]
        conn == s.sessions[e.index].conn
        s2 == [s EXCEPT !.parked[k] = NotParked]
    IN  IF e.work = "receive"
        THEN Send1([s2 EXCEPT !.sessions[e.index].conn = Drained(conn)], e.id, Received(conn))
        ELSE IF e.conn \in {"syn", "reset"} THEN Send1(s2, e.id, Answer("Error"))
        ELSE Send1([s2 EXCEPT !.sessions[e.index].conn = e.conn], e.id, Answer("Connect"))

\* pump_parked_requests, in table order
Pumped(s, expired) ==
    LET Visit(acc, k) == IF Parkable(acc, acc.parked[k], k \in expired) THEN acc ELSE PollParked(acc, k)
    IN  FoldLeft(Visit, s, [k \in 1 .. ParkedCount |-> k])

\* drain_holder_exits, for one caller: everything of it goes.
Forget(s, c) ==
    LET s2 == Cancel(s, {k \in 1 .. ParkedCount : s.parked[k].caller = c})
    IN  [s2 EXCEPT !.sessions = [i \in 1 .. SessionCount |->
                      IF s2.sessions[i].owner = c THEN FreeSession ELSE s2.sessions[i]]]

\* next_service_deadline: a handshake or an open stream keeps a timer armed.
HasDeadline == \/ \E k \in 1 .. ParkedCount : service.parked[k].work = "connect"
               \/ \E i \in 1 .. SessionCount : service.sessions[i].conn # "none"
=============================================================================
