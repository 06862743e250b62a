----------------------------- MODULE PortEngine -----------------------------
(***************************************************************************)
(* Service ports (port/src/engine.rs, port/src/transfer.rs) as the kernel  *)
(* runs them (kernel/src/service/port.rs, port_syscall.rs): a server       *)
(* registers a port, clients connect, send requests that may transfer a    *)
(* capability, and receive events.  Every operation runs with interrupts   *)
(* masked, effects included, so it is one action; a call that would block  *)
(* parks the thread, and a wake makes it execute the call again.  Native   *)
(* processes have one thread, so a blocked holder does nothing else.       *)
(* Frames, reasons and the kind of a notice are left out, so an event ring *)
(* is the number of events in it.                                          *)
(***************************************************************************)
EXTENDS Integers, FiniteSets

CONSTANTS
  NoHolder,           \* HolderId::KERNEL
  Ports,              \* slots of the registry
  MaxSeq,             \* bound on the sequence numbers of one registration
  EventDepth, RequestDepth, MaxConnections, MaxPerHolder,
  MaxTransfers, MaxConnTransfers, \* PORT_MAX_TRANSFERS_IN_FLIGHT(_PER_CONNECTION)
  Bounds              \* the instances checked, see bound

ASSUME PortConstants ==
  /\ \A b \in Bounds :
       /\ NoHolder \notin b.servers \cup b.clients
       /\ b.conns \subseteq Nat /\ IsFiniteSet(b.conns) /\ {b.maxGen, b.maxOutstanding} \subseteq Nat \ {0}
  /\ Ports \subseteq Nat
  /\ {MaxSeq, EventDepth, RequestDepth, MaxConnections, MaxPerHolder,
      MaxTransfers, MaxConnTransfers} \subseteq Nat \ {0}

VARIABLES
  bound,         \* the size of this instance, chosen once
  ports, conns,  \* PORTS: the registry and the pool
  children,      \* live capabilities that a SEND installed for a server
  authority,     \* live connect, serve and shared-buffer capabilities
  blocked,       \* the call each holder's thread is blocked in, or Running
  ready,         \* bits set on the work set each server bound
  gone,          \* holders that exited
  taken,         \* history: last request sequence number each port delivered
  delivered,     \* history: live children handed to their server
  drained        \* history: the server's last RECV found nothing, and no WAIT
                 \* returned since

vars == <<ports, conns, children, authority, blocked, ready, gone, taken, delivered, drained>>

Servers == bound.servers  \* holders; process ids are never reused
Clients == bound.clients
Holders == Servers \cup Clients
Conns == bound.conns      \* slots of the connection pool
MaxGen == bound.maxGen    \* u32::MAX: a free slot at this generation is retired
MaxOutstanding == bound.maxOutstanding

Key(p) == [slot |-> p, gen |-> ports[p].gen]
ConnId(i) == [slot |-> i, gen |-> conns[i].gen]
NoPort == [slot |-> 0, gen |-> 0]

Running == [op |-> "none", on |-> <<"none", NoPort>>, conn |-> NoPort, moves |-> FALSE]
Runs(h) == h \notin gone /\ blocked[h].op = "none"

\* Port::EMPTY, with the first sequence number that register gives.
EmptyPort(gen) == [gen |-> gen, live |-> FALSE, server |-> NoHolder, nextSeq |-> 1,
                   transfers |-> 0, wake |-> FALSE, requests |-> {}]
EmptyConn(gen) == [gen |-> gen, state |-> "Free", port |-> NoPort, client |-> NoHolder,
                   outstanding |-> 0, transfers |-> 0, closeSeq |-> 0, events |-> 0]

LivePort(key) == ports[key.slot].live /\ ports[key.slot].gen = key.gen
BoundTo(p) == {i \in Conns : conns[i].state # "Free" /\ conns[i].port = Key(p)}
Notices(p) == {i \in BoundTo(p) : conns[i].state = "ClosePending"}
HasWork(p) == ports[p].requests # {} \/ Notices(p) # {}

ClientConn(c, i) == Runs(c) /\ conns[i].state # "Free" /\ conns[i].client = c

\* authorize_serve
Serves(s, p) ==
  /\ Runs(s) /\ ports[p].live /\ ports[p].server = s
  /\ <<"serve", s, s>> \in authority

\* The check of reauthorize_client on the capability the client connected with.
MayConnect(c, p) == <<"connect", c, ports[p].server>> \in authority

-----------------------------------------------------------------------------
(* Effects. *)

ServerKey(p) == <<"server", Key(p)>>
SpaceKey(p) == <<"space", Key(p)>>
ConnKey(i) == <<"conn", ConnId(i)>>

\* apply: keys are the wait keys woken and signals the <<server, bit>> set;
\* work_set::signal wakes the server blocked in WAIT if a bit is newly set.
Apply(keys, signals) ==
  /\ ready' = [s \in Servers |-> ready[s] \cup {bit \in {"request", "notice"} : <<s, bit>> \in signals}]
  /\ blocked' = [h \in Holders |->
       IF \/ blocked[h].on \in keys
          \/ blocked[h].op = "work" /\ \E g \in signals : g[1] = h /\ g[2] \notin ready[h]
         THEN Running ELSE blocked[h]]

\* attempt_or_block on WouldBlock: the holder is parked on the key of its call and
\* makes the call again when woken.
AttemptOrBlock(h, op, key, id, moves) ==
  blocked' = [blocked EXCEPT ![h] = [op |-> op, on |-> key, conn |-> id, moves |-> moves]]

Signals(p, bit) == IF ports[p].wake THEN {<<ports[p].server, bit>>} ELSE {}

-----------------------------------------------------------------------------
(* Ending connections.  T is a set of ports that are torn down (teardown_port), S
   of open connections that become notices (close_pending), F of connections
   whose client is done with them (consume_terminal). *)

\* purge_connection: the undelivered requests of the connections in S.
Purged(p, S) == {r \in ports[p].requests : r.conn \in {ConnId(i) : i \in S}}

Child(p, r) == [port |-> Key(p), seq |-> r.seq, from |-> conns[r.conn.slot].client,
                to |-> ports[p].server]

\* Mutant: the children of purged requests are not released.
ReleasedNone(T, S) == {}

\* release_child for every undelivered transfer that is dropped.
Released(T, S) ==
  UNION {{Child(p, r) : r \in {q \in ports[p].requests : q.moves /\ (p \in T \/ q \in Purged(p, S))}}
         : p \in Ports}

Moving(R) == Cardinality({r \in R : r.moves})
Rank(i, S) == Cardinality({j \in S : j < i /\ conns[j].port = conns[i].port})

ClosedPort(p, T, S) ==
  IF p \in T THEN EmptyPort(ports[p].gen)
  ELSE [ports[p] EXCEPT
          !.requests = @ \ Purged(p, S),
          !.transfers = @ - Moving(Purged(p, S)),
          !.nextSeq = @ + Cardinality(S \cap BoundTo(p))]

Orphaned(T) == UNION {BoundTo(p) : p \in T}

\* Mutant: teardown frees the open connections without telling their clients.
ClosedConnSilent(i, T, S, F) ==
  IF i \in F \cup Orphaned(T) THEN EmptyConn(conns[i].gen)
  ELSE IF i \in S THEN [conns[i] EXCEPT !.state = "ClosePending", !.events = 0,
         !.outstanding = 0, !.transfers = 0,
         !.closeSeq = ports[conns[i].port.slot].nextSeq + Rank(i, S)]
  ELSE conns[i]

\* The sequence number of a ServerGone state is only reported, so it is left out.
ClosedConn(i, T, S, F) ==
  CASE i \in F -> EmptyConn(conns[i].gen)
    [] i \in Orphaned(T) \ F ->
         IF conns[i].state = "ClosePending" THEN EmptyConn(conns[i].gen)
         ELSE [conns[i] EXCEPT !.state = "ServerGone", !.events = 0, !.outstanding = 0,
                               !.transfers = 0, !.closeSeq = 0]
    [] i \in S -> [conns[i] EXCEPT !.state = "ClosePending", !.events = 0,
                     !.outstanding = 0, !.transfers = 0,
                     !.closeSeq = ports[conns[i].port.slot].nextSeq + Rank(i, S)]
    [] OTHER -> conns[i]

\* Mutant: a closed connection does not give its queue space to blocked senders.
ClosingKeysNoSpace(T, S, F) ==
  (UNION {{ServerKey(p), SpaceKey(p)} : p \in T})
    \cup {ServerKey(conns[i].port.slot) : i \in S}
    \cup {ConnKey(i) : i \in S \cup F \cup {j \in Orphaned(T) : conns[j].state # "ClosePending"}}

ClosingKeys(T, S, F) ==
  (UNION {{ServerKey(p), SpaceKey(p)} : p \in T \cup {conns[i].port.slot : i \in S}})
    \cup {ConnKey(i) : i \in S \cup F \cup {j \in Orphaned(T) : conns[j].state # "ClosePending"}}

Closing(T, S, F) ==
  /\ ports' = [p \in Ports |-> ClosedPort(p, T, S)]
  /\ conns' = [i \in Conns |-> ClosedConn(i, T, S, F)]

CloseSignals(S) == UNION {Signals(conns[i].port.slot, "notice") : i \in S}

-----------------------------------------------------------------------------
(* Registration and client operations. *)

\* register_port by launch policy: the server gets its serve right, the clients
\* that are running their connect right.
Register(s) ==
  /\ s \notin gone /\ <<"serve", s, s>> \notin authority
  /\ \A p \in Ports : ~ports[p].live
  /\ \E p \in Ports :
       /\ ports[p].gen # MaxGen
       /\ \A q \in Ports : q < p => ports[q].gen = MaxGen
       /\ ports' = [ports EXCEPT ![p] = [EmptyPort(@.gen + 1) EXCEPT !.live = TRUE, !.server = s]]
       /\ taken' = [taken EXCEPT ![p] = 0]
  /\ authority' = authority \cup {<<"serve", s, s>>} \cup {<<"connect", c, s>> : c \in Clients \ gone}
  /\ UNCHANGED <<conns, children, blocked, ready, gone, delivered, drained>>

FreeConns == {i \in Conns : conns[i].state = "Free" /\ conns[i].gen # MaxGen}

Connect(c, p) ==
  /\ Runs(c) /\ ports[p].live /\ MayConnect(c, p)
  /\ Cardinality({i \in BoundTo(p) : conns[i].client = c}) < MaxPerHolder
  /\ Cardinality(BoundTo(p)) < MaxConnections
  /\ \E i \in FreeConns :
       /\ \A j \in FreeConns : i <= j
       /\ conns' = [conns EXCEPT ![i] = [EmptyConn(@.gen + 1) EXCEPT
                      !.state = "Open", !.port = Key(p), !.client = c]]
  /\ UNCHANGED <<ports, children, authority, blocked, ready, gone, taken, delivered, drained>>

\* SEND has no room: WouldBlock.
SendFull(i, p, moves) ==
  \/ conns[i].outstanding >= MaxOutstanding
  \/ Cardinality(ports[p].requests) >= RequestDepth
  \/ moves /\ (conns[i].transfers >= MaxConnTransfers \/ ports[p].transfers >= MaxTransfers)

\* A transfer installs a child of the client's shared-buffer capability; when the
\* capability table is full the call fails and changes nothing here.
Send(c, i, moves) ==
  /\ ClientConn(c, i) /\ conns[i].state = "Open"
  /\ moves => <<"buffer", c, c>> \in authority
  /\ LET p == conns[i].port.slot
         r == [seq |-> ports[p].nextSeq, conn |-> ConnId(i), moves |-> moves]
     IN  /\ MayConnect(c, p) /\ ~SendFull(i, p, moves) /\ ports[p].nextSeq <= MaxSeq
         /\ ports' = [ports EXCEPT ![p].requests = @ \cup {r}, ![p].nextSeq = @ + 1,
                                   ![p].transfers = IF moves THEN @ + 1 ELSE @]
         /\ conns' = [conns EXCEPT ![i].outstanding = @ + 1,
                                   ![i].transfers = IF moves THEN @ + 1 ELSE @]
         /\ children' = IF moves THEN children \cup {Child(p, r)} ELSE children
         /\ Apply({ServerKey(p)}, Signals(p, "request"))
  /\ UNCHANGED <<authority, gone, taken, delivered, drained>>

\* SEND with PORT_SEND_WAIT
SendBlocks(c, i, moves) ==
  /\ ClientConn(c, i) /\ conns[i].state = "Open"
  /\ LET p == conns[i].port.slot
     IN  /\ MayConnect(c, p) /\ SendFull(i, p, moves)
         /\ AttemptOrBlock(c, "send", SpaceKey(p), ConnId(i), moves)
  /\ UNCHANGED <<ports, conns, children, authority, ready, gone, taken, delivered, drained>>

End(T, S, F) ==
  /\ Closing(T, S, F)
  /\ children' = children \ Released(T, S)
  /\ Apply(ClosingKeys(T, S, F), CloseSignals(S))

\* CLOSE of an open connection; also SEND or an empty RECV_EVENT, whose
\* reauthorize_client finds the connect capability revoked.
Close(c, i) ==
  /\ ClientConn(c, i) /\ conns[i].state = "Open"
  /\ End({}, {i}, {})
  /\ UNCHANGED <<authority, gone, taken, delivered, drained>>

\* RECV_EVENT takes the oldest event, also after the server disconnected.
TakeEvent(c, i) ==
  /\ ClientConn(c, i) /\ conns[i].state \in {"Open", "ServerClosed"}
  /\ conns[i].events > 0
  /\ conns' = [conns EXCEPT ![i].events = @ - 1]
  /\ UNCHANGED <<ports, children, authority, blocked, ready, gone, taken, delivered, drained>>

\* RECV_EVENT reports the end, or CLOSE drops it.
TakeEnd(c, i) ==
  /\ ClientConn(c, i) /\ conns[i].state \in {"ServerClosed", "ServerGone"}
  /\ End({}, {}, {i})
  /\ UNCHANGED <<authority, gone, taken, delivered, drained>>

EventBlocks(c, i) ==
  /\ ClientConn(c, i) /\ conns[i].state = "Open" /\ conns[i].events = 0
  /\ MayConnect(c, conns[i].port.slot)
  /\ AttemptOrBlock(c, "event", ConnKey(i), ConnId(i), FALSE)
  /\ UNCHANGED <<ports, conns, children, authority, ready, gone, taken, delivered, drained>>

-----------------------------------------------------------------------------
(* Server operations. *)

\* RECV: the oldest notice wins over every request and frees the connection.
RecvNotice(s, p) ==
  /\ Serves(s, p) /\ Notices(p) # {}
  /\ \E i \in Notices(p) :
       /\ \A j \in Notices(p) : conns[i].closeSeq <= conns[j].closeSeq
       /\ conns' = [conns EXCEPT ![i] = EmptyConn(@.gen)]
  /\ UNCHANGED <<ports, children, authority, blocked, ready, gone, taken, delivered, drained>>

\* Mutant: RECV takes the first entry in use, whatever its sequence number.
OldestAny(p, r) == TRUE

Oldest(p, r) == \A q \in ports[p].requests : r.seq <= q.seq

\* RECV otherwise takes the request with the lowest sequence number; a child it
\* transfers now belongs to the server.
RecvRequest(s, p) ==
  /\ Serves(s, p) /\ Notices(p) = {}
  /\ \E r \in ports[p].requests :
       /\ Oldest(p, r)
       /\ ports' = [ports EXCEPT ![p].requests = @ \ {r}, ![p].transfers = IF r.moves THEN @ - 1 ELSE @]
       /\ conns' = IF conns[r.conn.slot].gen = r.conn.gen
                     THEN [conns EXCEPT ![r.conn.slot].outstanding = @ - 1,
                                        ![r.conn.slot].transfers = IF r.moves THEN @ - 1 ELSE @]
                     ELSE conns
       /\ delivered' = IF r.moves THEN delivered \cup ({Child(p, r)} \cap children) ELSE delivered
       /\ taken' = [taken EXCEPT ![p] = r.seq]
  /\ Apply({SpaceKey(p)}, {})
  /\ UNCHANGED <<children, authority, gone, drained>>

\* RECV finds nothing: it returns EAGAIN or, if it may, blocks.
RecvEmpty(s, p) ==
  /\ Serves(s, p) /\ ~HasWork(p)
  /\ drained' = [drained EXCEPT ![s] = TRUE]
  /\ \/ UNCHANGED blocked
     \/ AttemptOrBlock(s, "recv", ServerKey(p), NoPort, FALSE)
  /\ UNCHANGED <<ports, conns, children, authority, ready, gone, taken, delivered>>

Post(s, p, i) ==
  /\ Serves(s, p) /\ i \in BoundTo(p) /\ conns[i].state = "Open"
  /\ conns[i].events < EventDepth /\ ports[p].nextSeq <= MaxSeq
  /\ ports' = [ports EXCEPT ![p].nextSeq = @ + 1]
  /\ conns' = [conns EXCEPT ![i].events = @ + 1]
  /\ Apply({ConnKey(i)}, {})
  /\ UNCHANGED <<children, authority, gone, taken, delivered, drained>>

Disconnect(s, p, i) ==
  /\ Serves(s, p) /\ i \in BoundTo(p) /\ conns[i].state = "Open"
  /\ ports' = [ports EXCEPT ![p] = [ClosedPort(p, {}, {i}) EXCEPT !.nextSeq = ports[p].nextSeq + 1]]
  /\ conns' = [conns EXCEPT ![i].state = "ServerClosed", ![i].outstanding = 0,
                            ![i].transfers = 0, ![i].closeSeq = ports[p].nextSeq]
  /\ children' = children \ Released({}, {i})
  /\ Apply({ConnKey(i), SpaceKey(p)}, {})
  /\ UNCHANGED <<authority, gone, taken, delivered, drained>>

\* Mutant: BIND_WAKE does not signal what is already pending.
BindSignalsNone(s, p) == {}

\* Each source that is already pending is signalled at once.
BindSignals(s, p) ==
  {<<s, "request">> : r \in ports[p].requests} \cup {<<s, "notice">> : i \in Notices(p)}

BindWake(s, p) ==
  /\ Serves(s, p)
  /\ ports' = [ports EXCEPT ![p].wake = TRUE]
  /\ Apply({}, BindSignals(s, p))
  /\ UNCHANGED <<conns, children, authority, gone, taken, delivered, drained>>

\* WORK_SET WAIT on the two bound bits (module WorkSet).
WaitReady(s) ==
  /\ Runs(s) /\ ready[s] # {}
  /\ ready' = [ready EXCEPT ![s] = {}]
  /\ drained' = [drained EXCEPT ![s] = FALSE]
  /\ UNCHANGED <<ports, conns, children, authority, blocked, gone, taken, delivered>>

WaitBlocks(s) ==
  /\ Runs(s) /\ ready[s] = {}
  /\ \E p \in Ports : ports[p].live /\ ports[p].server = s /\ ports[p].wake
  /\ blocked' = [blocked EXCEPT ![s] =
       [op |-> "work", on |-> <<"work", NoPort>>, conn |-> NoPort, moves |-> FALSE]]
  /\ UNCHANGED <<ports, conns, children, authority, ready, gone, taken, delivered, drained>>

-----------------------------------------------------------------------------
(* Teardown, revocation and deadlines. *)

\* Teardown hooks of an exiting process, in their order: Port (on_holder_exit),
\* WorkSet, RevokeHolderCapabilities with the subtrees, ThreadReap.
Exit(h) ==
  /\ h \notin gone
  /\ LET T == {p \in Ports : ports[p].live /\ ports[p].server = h}
         mine == {i \in Conns : conns[i].client = h /\ conns[i].state \notin {"Free", "ClosePending"}}
         S == {i \in mine : conns[i].state = "Open"} \ Orphaned(T)
     IN  /\ Closing(T, S, mine \ S)
         /\ children' = {k \in children \ Released(T, S) : h \notin {k.from, k.to}}
         /\ ready' = [s \in Servers |-> IF s = h THEN {} ELSE
              ready[s] \cup {bit \in {"notice"} : <<s, bit>> \in CloseSignals(S)}]
         /\ blocked' = [g \in Holders |->
              IF \/ g = h \/ blocked[g].on \in ClosingKeys(T, S, mine \ S)
                 \/ blocked[g].op = "work" /\ <<g, "notice">> \in CloseSignals(S) /\ "notice" \notin ready[g]
                THEN Running ELSE blocked[g]]
  /\ authority' = {a \in authority : a[2] # h}
  /\ gone' = gone \cup {h}
  /\ delivered' = delivered \cap children'
  /\ drained' = [s \in Servers |-> drained[s] /\ s # h]
  /\ UNCHANGED taken

\* A capability is revoked by whoever may; with a shared buffer go the children
\* sent from it.  Nobody blocked in a port call is woken.
Revoke(a) ==
  /\ a \in authority
  /\ authority' = authority \ {a}
  /\ children' = IF a[1] = "buffer" THEN {k \in children : k.from # a[2]} ELSE children
  /\ delivered' = delivered \cap children'
  /\ UNCHANGED <<ports, conns, blocked, ready, gone, taken, drained>>

\* expire_deadlines: the call had a deadline and returns ETIMEDOUT.
TimesOut(h) ==
  /\ blocked[h].op # "none"
  /\ blocked' = [blocked EXCEPT ![h] = Running]
  /\ UNCHANGED <<ports, conns, children, authority, ready, gone, taken, delivered, drained>>

Init ==
  /\ bound \in Bounds
  /\ ports = [p \in Ports |-> EmptyPort(0)]
  /\ conns = [i \in Conns |-> EmptyConn(0)]
  /\ children = {} /\ delivered = {} /\ gone = {}
  /\ authority = {<<"buffer", c, c>> : c \in Clients}
  /\ blocked = [h \in Holders |-> Running]
  /\ ready = [s \in Servers |-> {}]
  /\ taken = [p \in Ports |-> 0]
  /\ drained = [s \in Servers |-> FALSE]

Step ==
  \/ \E s \in Servers : Register(s) \/ WaitReady(s) \/ WaitBlocks(s)
  \/ \E c \in Clients, p \in Ports : Connect(c, p)
  \/ \E c \in Clients, i \in Conns :
       \/ Close(c, i) \/ TakeEvent(c, i) \/ TakeEnd(c, i) \/ EventBlocks(c, i)
       \/ \E moves \in BOOLEAN : Send(c, i, moves) \/ SendBlocks(c, i, moves)
  \/ \E s \in Servers, p \in Ports :
       \/ RecvNotice(s, p) \/ RecvRequest(s, p) \/ RecvEmpty(s, p) \/ BindWake(s, p)
       \/ \E i \in Conns : Post(s, p, i) \/ Disconnect(s, p, i)
  \/ \E h \in Holders : Exit(h) \/ TimesOut(h)
  \/ \E a \in authority : Revoke(a)

Next == Step /\ UNCHANGED bound

Spec == Init /\ [][Next]_<<vars, bound>>

-----------------------------------------------------------------------------
(* Properties. *)

\* Mirrors check_invariants of the engine's tests: the counters that bound the
\* queues equal what is queued, requests come only from open connections of the
\* same generation, and a connection whose port is dead has been told so.
QueuesAccounted ==
  /\ \A p \in Ports :
       /\ ~ports[p].live => ports[p].requests = {}
       /\ ports[p].transfers = Moving(ports[p].requests) /\ ports[p].transfers <= MaxTransfers
       /\ Cardinality(ports[p].requests) <= RequestDepth
       /\ \A r \in ports[p].requests :
            /\ conns[r.conn.slot].state = "Open" /\ ConnId(r.conn.slot) = r.conn
            /\ conns[r.conn.slot].port = Key(p)
  /\ \A i \in Conns : conns[i].state # "Free" =>
       LET queued == UNION {{r \in ports[p].requests : r.conn = ConnId(i)} : p \in Ports}
       IN  /\ conns[i].outstanding = Cardinality(queued) /\ conns[i].outstanding <= MaxOutstanding
           /\ conns[i].transfers = Moving(queued) /\ conns[i].transfers <= MaxConnTransfers
           /\ conns[i].events <= EventDepth
           /\ LivePort(conns[i].port) \/ conns[i].state = "ServerGone"

\* A thread is blocked in SEND, RECV_EVENT or RECV only while the call would still
\* block: whatever makes it complete (room, an event, a request, a notice, the end
\* of the connection or of the port) wakes it (attempt_or_block, Effects).  The
\* revocation of its own capability is the exception, and is not stated here.
NoLostWakeup ==
  \A h \in Holders :
    LET b == blocked[h]
        i == b.conn.slot
    IN  /\ b.op = "recv" => LivePort(b.on[2]) /\ ports[b.on[2].slot].server = h
                             /\ ~HasWork(b.on[2].slot)
        /\ b.op \in {"send", "event"} => conns[i].state = "Open" /\ ConnId(i) = b.conn
        /\ b.op = "event" => conns[i].events = 0
        /\ b.op = "send" => SendFull(i, conns[i].port.slot, b.moves)

\* A server that drains its port before it waits on its work set never sleeps
\* over pending work, even if it bound the work set after requests or notices had
\* arrived (bind_wake signals what is pending; send and close_pending signal).
WorkSignalled ==
  \A p \in Ports :
    LET s == ports[p].server
    IN  ports[p].live /\ ports[p].wake /\ HasWork(p) /\ blocked[s].op = "work" => ~drained[s]

\* The two facts that keep a bound work set and the limits of the queues honest: what
\* is counted is what is queued, and what is queued has been signalled.
QueuesServed == QueuesAccounted /\ WorkSignalled

\* Requests of all connections of a port are delivered in the order in which they
\* were sent, each at most once (recv).
DeliveredInOrder == \A p \in Ports : \A r \in ports[p].requests : r.seq > taken[p]

\* A capability installed by SEND is live only while its request is queued or once
\* RECV gave it to the server: dropping a request (close, exit, disconnect, server
\* teardown) releases its child, and none outlives its server or its sender.
ChildrenAccounted ==
  \A k \in children :
    /\ k.from \notin gone /\ k.to \notin gone
    /\ \/ k \in delivered
       \/ \E p \in Ports : Key(p) = k.port /\ \E r \in ports[p].requests : r.seq = k.seq /\ r.moves

\* An open connection does not vanish: unless its client exits it ends in a state
\* that tells the client (ServerClosed, ServerGone) or the server (ClosePending),
\* and a slot in use keeps its identity (teardown_port, close_pending, disconnect).
EndsAreReported ==
  [][\A i \in Conns :
       /\ conns[i].state = "Open" /\ conns'[i].state = "Free" => conns[i].client \in gone'
       /\ conns[i].state # "Free" /\ conns'[i].state # "Free" =>
            /\ conns'[i].gen = conns[i].gen /\ conns'[i].client = conns[i].client
            /\ conns[i].state # conns'[i].state =>
                 conns[i].state = "Open" \/ conns'[i].state = "ServerGone"]_vars
=============================================================================
