---------------------------- MODULE LinuxSockets ----------------------------
(***************************************************************************)
(* Stream sockets of Linux processes (kernel/src/process/linux_socket/): each *)
(* call is brokered to the network service through NetBridge, and while a    *)
(* connected stream has nothing buffered one Receive is kept outstanding.    *)
(* Bytes are present or not.  A process has one thread and at most one        *)
(* socket descriptor.  A blocked call is executed again when it is woken.     *)
(* Every handler runs with interrupts masked, so it is one step.              *)
(***************************************************************************)
EXTENDS NetBridge

CONSTANTS SocketCount,  \* LINUX_SOCKET_MAX
          MaxLive       \* PROCESS_REGISTRY_CAPACITY

VARIABLES bridge,   \* NET_BRIDGE
          sockets,  \* SOCKET_POOL
          procs     \* per process: its state, the service generation its network
                    \* capability names, its socket, its call and what it sleeps on;
                    \* history: whether the poll it sleeps in could not arm a Receive

clientVars == <<bridge, sockets, procs>>

Awake == <<"none", 0>>
ReqKey(id) == <<"request", id>>
SockKey(i) == <<"socket", i>>
PollKey(p) == <<"poll", p>>

ClosedSocket == [state |-> "Closed", owner |-> NoPid, session |-> NoSession, inflight |-> 0,
                 pendingRx |-> 0, rx |-> FALSE, eof |-> FALSE, err |-> FALSE]
NewProc == [state |-> "new", cap |-> 0, sock |-> 0, call |-> "none", on |-> Awake,
            unarmed |-> FALSE]

ClientInit ==
    /\ bridge = Register(NewBridge)
    /\ sockets = [i \in 1 .. SocketCount |-> ClosedSocket]
    /\ procs = [p \in Pids |-> NewProc]

SocketIds == {sockets[i].inflight : i \in 1 .. SocketCount}
             \cup {sockets[i].pendingRx : i \in 1 .. SocketCount}

\* A process is in user mode, or its blocked call has been woken and restarts.
Calls(p, call) ==
    /\ procs[p].state = "live"
    /\ procs[p].on = Awake
    /\ procs[p].call \in {"none", call}

Returns(p) == [procs EXCEPT ![p].call = "none"]
Blocks(p, call, key) == [procs EXCEPT ![p].call = call, ![p].on = key]

\* wake_all on each of the keys
Woken(ps, keys) == [p \in Pids |-> IF ps[p].on \in keys THEN [ps[p] EXCEPT !.on = Awake] ELSE ps[p]]

\* authorize_network_op: the capability names the service instance it was granted
\* for, and does not outlive it.
Authorized(p, b) == procs[p].cap = b.gen

\* broker_sync: authorize again on every pass, submit unless a request is in
\* flight, take its answer or wait for it.  id is the bridge's next request id.
Broker(p, b, s, op, id) ==
    LET own == IF s.inflight = 0 THEN id ELSE s.inflight
        sent == IF s.inflight = 0 THEN Submit(b, p, id, op, s.session) ELSE b
    IN  IF ~Authorized(p, b) \/ (s.inflight = 0 /\ ~CanSubmit(b, p))
        THEN [b |-> b, s |-> s, out |-> Answer("refused")]
        ELSE IF Finished(sent, own)
        THEN [b |-> Consume(sent, own), s |-> [s EXCEPT !.inflight = 0], out |-> Result(sent, own)]
        ELSE [b |-> sent, s |-> [s EXCEPT !.inflight = own], out |-> Answer("pending")]

\* abandon_outstanding_requests
Abandon(b, s) == Discard(Discard(b, s.pendingRx), s.inflight)

\* close_m7_session: a fire-and-forget Close, unless the session is none or is of
\* another instance, or the queue is full.
CloseSession(p, b, s, id) ==
    IF s.session = NoSession \/ s.session.gen # b.gen \/ ~Authorized(p, b) \/ ~CanSubmit(b, p)
    THEN b
    ELSE Discard(Submit(b, p, id, "close", s.session), id)

\* release_socket
ReleaseSocket(p, b, s, id) == CloseSession(p, Abandon(b, s), s, id)

\* inflight_socket_for_restart, else alloc_socket
Opening(p) == {i \in 1 .. SocketCount : /\ sockets[i].owner = p /\ sockets[i].state = "Unbound"
                                        /\ sockets[i].inflight # 0}
Unused == {i \in 1 .. SocketCount : sockets[i].state = "Closed"}
PoolSlot(p) == IF Opening(p) # {} THEN Min(Opening(p)) ELSE Min(Unused)

\* sys_socket: the session is opened before there is a descriptor.
Socket(p, id) ==
    /\ Calls(p, "socket") /\ procs[p].sock = 0
    /\ Opening(p) \cup Unused # {}
    /\ LET i == PoolSlot(p)
           s == IF Opening(p) # {} THEN sockets[i]
                ELSE [ClosedSocket EXCEPT !.state = "Unbound", !.owner = p]
           r == Broker(p, bridge, s, "open", id)
       IN  CASE r.out.kind = "pending" ->
                  /\ bridge' = r.b /\ sockets' = [sockets EXCEPT ![i] = r.s]
                  /\ procs' = Blocks(p, "socket", ReqKey(r.s.inflight))
             [] r.out.kind = "Open" ->
                  /\ bridge' = r.b
                  /\ sockets' = [sockets EXCEPT ![i] = [r.s EXCEPT !.session = r.out.session]]
                  /\ procs' = [procs EXCEPT ![p].call = "none", ![p].sock = i]
             [] OTHER ->
                  /\ bridge' = ReleaseSocket(p, r.b, r.s, id)
                  /\ sockets' = [sockets EXCEPT ![i] = ClosedSocket]
                  /\ procs' = Woken(Returns(p), {SockKey(i)})

\* sys_connect
Connect(p, id) ==
    /\ Calls(p, "connect") /\ procs[p].sock # 0
    /\ LET i == procs[p].sock
           r == Broker(p, bridge, [sockets[i] EXCEPT !.state = "Connecting"], "connect", id)
           s == IF r.out.kind = "Connect" THEN [r.s EXCEPT !.state = "Connected"] ELSE r.s
       IN  /\ sockets[i].state # "Connected"
           /\ bridge' = r.b
           /\ sockets' = [sockets EXCEPT ![i] = s]
           /\ procs' = IF r.out.kind = "pending" THEN Blocks(p, "connect", ReqKey(s.inflight))
                       ELSE Returns(p)

\* The deadline of connect: ETIMEDOUT, and the request stays in flight.
ConnectTimeout(p) ==
    /\ procs[p].call = "connect" /\ procs[p].on # Awake
    /\ procs' = [Returns(p) EXCEPT ![p].on = Awake]
    /\ UNCHANGED <<bridge, sockets>>

\* write_stream
Send(p, id) ==
    /\ Calls(p, "send") /\ procs[p].sock # 0
    /\ LET i == procs[p].sock
           r == Broker(p, bridge, sockets[i], "send", id)
       IN  /\ sockets[i].state = "Connected"
           /\ bridge' = r.b
           /\ sockets' = [sockets EXCEPT ![i] = r.s]
           /\ procs' = IF r.out.kind = "pending" THEN Blocks(p, "send", ReqKey(r.s.inflight))
                       ELSE Returns(p)

\* complete_prefetch: what the outstanding Receive brought moves into the socket.
CompletePrefetch(b, s) ==
    IF s.pendingRx = 0 \/ ~Finished(b, s.pendingRx) THEN [b |-> b, s |-> s]
    ELSE LET kind == Result(b, s.pendingRx).kind
         IN  [b |-> Consume(b, s.pendingRx),
              s |-> [s EXCEPT !.pendingRx = 0, !.rx = (kind = "Data"), !.eof = (kind = "Eof"),
                              !.err = (kind \notin {"Data", "Eof"})]]

Readable(s) == s.rx \/ s.eof \/ s.err

\* arm_receive of a stream
Armed(s) == s.state # "Connected" \/ s.pendingRx # 0 \/ Readable(s)
CanArm(p, b, s) == Armed(s) \/ (Authorized(p, b) /\ CanSubmit(b, p))
ArmReceive(p, b, s, id) ==
    IF Armed(s) THEN [b |-> b, s |-> s]
    ELSE [b |-> Submit(b, p, id, "receive", s.session), s |-> [s EXCEPT !.pendingRx = id]]

\* read_stream: buffered bytes, then the error once, then the end of stream, else
\* a Receive is armed and the reader sleeps on the socket unless it is non-blocking.
Read(p, id, nonblock) ==
    /\ Calls(p, "read") /\ procs[p].sock # 0
    /\ LET i == procs[p].sock
           r == CompletePrefetch(bridge, sockets[i])
           a == ArmReceive(p, r.b, r.s, id)
       IN  IF Readable(r.s) \/ ~CanArm(p, r.b, r.s)
           THEN /\ bridge' = r.b
                /\ sockets' = [sockets EXCEPT ![i] =
                     IF r.s.rx THEN [r.s EXCEPT !.rx = FALSE] ELSE [r.s EXCEPT !.err = FALSE]]
                /\ procs' = Returns(p)
           ELSE /\ bridge' = a.b
                /\ sockets' = [sockets EXCEPT ![i] = a.s]
                /\ procs' = IF nonblock THEN Returns(p) ELSE Blocks(p, "read", SockKey(i))

\* poll(2) for input with no timeout: refresh_readiness_for_fd, whose failure to
\* arm is ignored, then readiness_for.
Poll(p, id) ==
    /\ Calls(p, "poll") /\ procs[p].sock # 0
    /\ LET i == procs[p].sock
           r == CompletePrefetch(bridge, sockets[i])
           a == IF CanArm(p, r.b, r.s) THEN ArmReceive(p, r.b, r.s, id) ELSE r
       IN  /\ bridge' = a.b
           /\ sockets' = [sockets EXCEPT ![i] = a.s]
           /\ procs' = IF Readable(a.s) THEN Returns(p)
                       ELSE [Blocks(p, "poll", PollKey(p)) EXCEPT
                               ![p].unarmed = ~CanArm(p, r.b, r.s)]

\* close(2) of the last descriptor
Close(p, id) ==
    /\ Calls(p, "close") /\ procs[p].sock # 0
    /\ LET i == procs[p].sock
       IN  /\ bridge' = ReleaseSocket(p, bridge, sockets[i], id)
           /\ sockets' = [sockets EXCEPT ![i] = ClosedSocket]
           /\ procs' = Woken([procs EXCEPT ![p].sock = 0], {SockKey(i)})

\* A process is launched with a capability for the current service instance.
Launch(p) ==
    /\ procs[p].state = "new"
    /\ Cardinality({q \in Pids : procs[q].state = "live"}) < MaxLive
    /\ procs' = [procs EXCEPT ![p].state = "live", ![p].cap = bridge.gen]
    /\ UNCHANGED <<bridge, sockets>>

\* The end of a process, also while it is blocked: its descriptors are released
\* before the teardown hooks reclaim its requests and notify the service.
Exit(p, id) ==
    /\ procs[p].state = "live"
    /\ LET i == procs[p].sock
           b == IF i = 0 THEN bridge ELSE ReleaseSocket(p, bridge, sockets[i], id)
       IN  /\ bridge' = MarkExit(Reclaim(b, p), p)
           /\ sockets' = IF i = 0 THEN sockets ELSE [sockets EXCEPT ![i] = ClosedSocket]
           /\ procs' = [procs EXCEPT ![p] = [NewProc EXCEPT !.state = "gone"]]
=============================================================================
