--------------------------- MODULE PortWakeProofs ---------------------------
(***************************************************************************)
(* No blocked caller of the port engine is forgotten and no queue outgrows  *)
(* its limits: the actions that end connections keep the invariant of       *)
(* PortQueueProofs, and with it the two properties follow.                  *)
(***************************************************************************)
EXTENDS PortEngineProofs, PortQueueProofs

(* The provers have thirty seconds for a leaf. *)
USE SMTT(30), ZenonT(30)

(* The requests that go with their connections leave the counters of their port
   right. *)
LEMMA PurgedCounted ==
  ASSUME PortInv, NEW p \in Ports, PortCounted(p), NEW S,
         ports'[p].requests = ports[p].requests \ Purged(p, S),
         ports'[p].transfers = ports[p].transfers - Moving(Purged(p, S))
  PROVE  PortCounted(p)'
  <1>1. PICK R : R = ports[p].requests
    OBVIOUS
  <1>2. PICK X : X = Purged(p, S)
    OBVIOUS
  <1>3. PICK Q : Q = R \ X
    BY ZenonT(30)
  <1>4. X \in SUBSET R /\ IsFiniteSet(R) /\ ports[p].transfers = Moving(R)
        /\ ports[p].transfers <= MaxTransfers /\ Cardinality(R) <= RequestDepth
    BY <1>1, <1>2 DEF Purged, PortCounted
  <1>5. /\ IsFiniteSet(Q) /\ Cardinality(Q) \in Nat /\ Cardinality(R) \in Nat
        /\ Cardinality(Q) <= Cardinality(R)
        /\ Moving(R) \in Nat /\ Moving(X) \in Nat /\ Moving(Q) = Moving(R) - Moving(X)
    BY <1>3, <1>4, CountDrop
  <1>6. MaxTransfers \in Nat /\ RequestDepth \in Nat
    BY Limits DEF PortInv
  <1>7. ports'[p].requests = Q /\ ports'[p].transfers = Moving(R) - Moving(X)
    BY <1>1, <1>2, <1>3, <1>4, ZenonT(30)
  <1>8. ports'[p].transfers = Moving(Q) /\ ports'[p].transfers <= MaxTransfers /\ Cardinality(Q) <= RequestDepth
    BY <1>4, <1>5, <1>6, <1>7
  <1> QED BY <1>5, <1>7, <1>8, ZenonT(30) DEF PortCounted, Moving

(* What Closing does to the counters. *)
LEMMA ClosingCounters ==
  ASSUME PortInv, NEW T, NEW S, NEW F, Closable(T, S, F), Closing(T, S, F)
  PROVE  /\ \A p \in T : ports'[p] = EmptyPort(ports[p].gen)
         /\ \A p \in Ports \ T : /\ ports'[p].transfers = ports[p].transfers - Moving(Purged(p, S))
                                 /\ ports'[p].wake = ports[p].wake
         /\ \A i \in F \cup Orphaned(T) \cup S :
              conns'[i].outstanding = 0 /\ conns'[i].transfers = 0 /\ conns'[i].events = 0
  <1>0. /\ Shape /\ T \in SUBSET Ports /\ S \in SUBSET Conns /\ F \in SUBSET Conns
        /\ S \cap F = {} /\ S \cap Orphaned(T) = {}
    BY DEF PortInv, Closable
  <1>1. /\ \A p \in Ports : ports'[p] = ClosedPort(p, T, S)
        /\ \A i \in Conns : conns'[i] = ClosedConn(i, T, S, F)
    BY DEF Closing
  <1>2. \A p \in T : ports'[p] = EmptyPort(ports[p].gen)
    BY <1>0, <1>1, ZenonT(30) DEF ClosedPort
  <1>3. ASSUME NEW p \in Ports \ T
        PROVE  /\ ports'[p].transfers = ports[p].transfers - Moving(Purged(p, S))
               /\ ports'[p].wake = ports[p].wake
    <2>1. ports'[p] = [ports[p] EXCEPT !.requests = @ \ Purged(p, S),
                                       !.transfers = @ - Moving(Purged(p, S)),
                                       !.nextSeq = @ + Cardinality(S \cap BoundTo(p))]
      BY <1>1, ZenonT(30) DEF ClosedPort
    <2>2. DOMAIN ports[p] = PortFields
      BY <1>0 DEF Shape
    <2> QED BY <2>1, <2>2 DEF PortFields
  <1>4. ASSUME NEW i \in F \cup Orphaned(T) \cup S
        PROVE  conns'[i].outstanding = 0 /\ conns'[i].transfers = 0 /\ conns'[i].events = 0
    <2>1. i \in Conns
      BY <1>0 DEF Orphaned, BoundTo
    <2>2. DOMAIN conns[i] = ConnFields
      BY <1>0, <2>1 DEF Shape
    <2>3. \/ conns'[i] = EmptyConn(conns[i].gen)
          \/ conns'[i] = [conns[i] EXCEPT !.state = "ServerGone", !.events = 0, !.outstanding = 0,
                                          !.transfers = 0, !.closeSeq = 0]
          \/ \E n : conns'[i] = [conns[i] EXCEPT !.state = "ClosePending", !.events = 0, !.outstanding = 0,
                                                 !.transfers = 0, !.closeSeq = n]
      <3>1. CASE i \in F
        BY <1>1, <2>1, <3>1, ZenonT(30) DEF ClosedConn
      <3>2. CASE i \in Orphaned(T) \ F
        BY <1>0, <1>1, <2>1, <3>2, ZenonT(30) DEF ClosedConn
      <3>3. CASE i \in S
        <4>1. i \notin F /\ i \notin Orphaned(T) \ F
          BY <1>0, <3>3
        <4>2. conns'[i] = [conns[i] EXCEPT !.state = "ClosePending", !.events = 0, !.outstanding = 0,
                             !.transfers = 0, !.closeSeq = ports[conns[i].port.slot].nextSeq + Rank(i, S)]
          BY <1>1, <2>1, <3>3, <4>1, ZenonT(30) DEF ClosedConn
        <4> QED BY <4>2, ZenonT(30)
      <3> QED BY <3>1, <3>2, <3>3, ZenonT(30)
    <2>4. CASE conns'[i] = EmptyConn(conns[i].gen)
      BY <2>4, EmptyCounts
    <2>5. CASE conns'[i] # EmptyConn(conns[i].gen)
      BY <2>2, <2>3, <2>5, ZenonT(30) DEF ConnFields
    <2> QED BY <2>4, <2>5
  <1> QED BY <1>2, <1>3, <1>4

(* A step that ends connections, and what the two invariants say before it. *)
Ending(T, S, F) ==
  /\ PortInv /\ PortInv' /\ QueueInv /\ bound' = bound /\ taken' = taken
  /\ Closable(T, S, F) /\ Closing(T, S, F)

(* What an ending step does to ports and connections, in one place. *)
LEMMA EndingFacts ==
  ASSUME NEW T, NEW S, NEW F, Ending(T, S, F)
  PROVE  /\ Counted /\ Conns' = Conns /\ Shape /\ PortInv /\ PortInv' /\ bound' = bound
         /\ T \in SUBSET Ports /\ S \in SUBSET Conns /\ F \in SUBSET Conns
         /\ \A i \in F : conns[i].state = "Open" => i \in Orphaned(T)
         /\ \A i \in S : conns[i].state = "Open"
         /\ PortsClosed(T, S) /\ ConnsClosed(T, S, F)
         /\ \A p \in T : ports'[p] = EmptyPort(ports[p].gen)
         /\ \A p \in Ports \ T : /\ ports'[p].transfers = ports[p].transfers - Moving(Purged(p, S))
                                 /\ ports'[p].wake = ports[p].wake
         /\ \A i \in F \cup Orphaned(T) \cup S :
              conns'[i].outstanding = 0 /\ conns'[i].transfers = 0 /\ conns'[i].events = 0
  <1>1. /\ Counted /\ Conns' = Conns /\ Shape /\ PortInv /\ PortInv' /\ bound' = bound /\ taken' = taken
        /\ Closable(T, S, F) /\ Closing(T, S, F)
    BY DEF Ending, QueueInv, Conns, PortInv
  <1>2. /\ T \in SUBSET Ports /\ S \in SUBSET Conns /\ F \in SUBSET Conns
        /\ \A i \in F : conns[i].state = "Open" => i \in Orphaned(T)
        /\ \A i \in S : conns[i].state = "Open"
    BY <1>1 DEF Closable
  <1>3. PortsClosed(T, S) /\ ConnsClosed(T, S, F)
    BY <1>1, ClosingFacts
  <1>4. /\ \A p \in T : ports'[p] = EmptyPort(ports[p].gen)
        /\ \A p \in Ports \ T : /\ ports'[p].transfers = ports[p].transfers - Moving(Purged(p, S))
                                /\ ports'[p].wake = ports[p].wake
        /\ \A i \in F \cup Orphaned(T) \cup S :
             conns'[i].outstanding = 0 /\ conns'[i].transfers = 0 /\ conns'[i].events = 0
    BY <1>1, ClosingCounters
  <1> QED BY <1>1, <1>2, <1>3, <1>4, ZenonT(30)

(* The counters of the ports after it. *)
LEMMA EndingPortCounted ==
  ASSUME NEW T, NEW S, NEW F, Ending(T, S, F)
  PROVE  \A p \in Ports : PortCounted(p)'
  <1> SUFFICES ASSUME NEW p \in Ports PROVE PortCounted(p)'
    OBVIOUS
  <1>1. PortCounted(p) /\ PortInv /\ Shape
    BY EndingFacts DEF Counted
  <1>2. MaxTransfers \in Nat /\ RequestDepth \in Nat
    BY <1>1, Limits
  <1>3. CASE p \in T
    <2>1. ports'[p] = EmptyPort(ports[p].gen)
      BY <1>3, EndingFacts
    <2>2. ports'[p].requests = {} /\ ports'[p].transfers = 0
      BY <2>1, EmptyShapes, EmptyCounts, ZenonT(30)
    <2> QED BY <1>2, <2>2, CountNone DEF PortCounted, Moving
  <1>4. CASE p \notin T
    <2>1. ports'[p].requests = ports[p].requests \ Purged(p, S)
      BY <1>4, EndingFacts DEF PortsClosed
    <2>2. ports'[p].transfers = ports[p].transfers - Moving(Purged(p, S))
      BY <1>4, EndingFacts
    <2> QED BY <1>1, <2>1, <2>2, PurgedCounted, ZenonT(30)
  <1> QED BY <1>3, <1>4

(* The counters of the connections after it. *)
LEMMA EndingConnCounted ==
  ASSUME NEW T, NEW S, NEW F, Ending(T, S, F)
  PROVE  \A i \in Conns : ConnCounted(i)'
  <1> SUFFICES ASSUME NEW i \in Conns PROVE ConnCounted(i)'
    OBVIOUS
  <1>1. /\ ConnCounted(i) /\ PortInv /\ PortInv' /\ bound' = bound /\ Shape
        /\ T \in SUBSET Ports /\ PortsClosed(T, S) /\ ConnsClosed(T, S, F)
    BY EndingFacts DEF Counted
  <1>2. CASE i \in F \cup Orphaned(T) \cup S
    <2>1. conns'[i].outstanding = 0 /\ conns'[i].transfers = 0 /\ conns'[i].events = 0 /\ EventDepth \in Nat
      BY <1>1, <1>2, EndingFacts, Limits
    <2>2. conns'[i].state # "Open"
      BY <1>1, <1>2, EmptyShapes, ZenonT(30) DEF ConnsClosed
    <2>3. \A p \in Ports : \A r \in ports'[p].requests : r.conn.slot # i
      BY <1>1, <2>2, ZenonT(30) DEF PortInv, Backed
    <2> QED BY <1>1, <2>1, <2>3, ConnCountedNone
  <1>3. CASE i \notin F \cup Orphaned(T) \cup S
    <2>1. conns'[i] = conns[i]
      BY <1>1, <1>3, ZenonT(30) DEF ConnsClosed
    <2>2. ASSUME NEW p \in Ports, NEW r \in ports[p].requests, r.conn.slot = i
          PROVE  r \in ports'[p].requests
      <3>1. r.conn = ConnId(i) /\ conns[i].state = "Open" /\ conns[i].port = Key(p)
        BY <1>1, <2>2, ZenonT(30) DEF PortInv, Backed
      <3>2. p \notin T
        BY <1>3, <3>1 DEF Orphaned, BoundTo
      <3>3. r \notin Purged(p, S)
        BY <1>3, <3>1 DEF Purged, ConnId
      <3> QED BY <1>1, <3>2, <3>3, ZenonT(30) DEF PortsClosed
    <2>3. \A p \in Ports : ports'[p].requests \subseteq ports[p].requests
      BY <1>1, EmptyShapes DEF PortsClosed
    <2>4. \A p \in Ports : {r \in ports'[p].requests : r.conn.slot = i} = {r \in ports[p].requests : r.conn.slot = i}
      BY <2>2, <2>3, ZenonT(30)
    <2>5. conns'[i].events \in Nat /\ conns'[i].events <= EventDepth
      BY <1>1, <2>1, ZenonT(30) DEF ConnCounted
    <2> QED BY <1>1, <2>1, <2>4, <2>5, ConnCountedKept, ZenonT(30)
  <1> QED BY <1>2, <1>3

(* A port that stays gets work only by the notices of what its clients end. *)
LEMMA EndingWork ==
  ASSUME NEW T, NEW S, NEW F, Ending(T, S, F), NEW p \in Ports \ T
  PROVE  /\ ports'[p].live = ports[p].live /\ ports'[p].gen = ports[p].gen
         /\ ports'[p].server = ports[p].server /\ Key(p)' = Key(p)
         /\ HasWork(p)' => HasWork(p) \/ \E i \in S : conns[i].port = Key(p)
  <1>0. /\ PortsClosed(T, S) /\ ConnsClosed(T, S, F) /\ Conns' = Conns
        /\ T \in SUBSET Ports /\ S \in SUBSET Conns /\ F \in SUBSET Conns
    BY EndingFacts
  <1>1. /\ ports'[p].live = ports[p].live /\ ports'[p].gen = ports[p].gen
        /\ ports'[p].server = ports[p].server /\ ports'[p].requests \subseteq ports[p].requests
    BY <1>0 DEF PortsClosed
  <1>2. Key(p)' = Key(p)
    BY <1>1 DEF Key
  <1>3. ASSUME NEW i \in Notices(p)' PROVE i \in Notices(p) \/ (i \in S /\ conns[i].port = Key(p))
    <2>1. i \in Conns /\ conns'[i].state = "ClosePending" /\ conns'[i].port = Key(p)
      BY <1>0, <1>2, <1>3, ZenonT(30) DEF Notices, BoundTo
    <2>2. i \notin F /\ i \notin Orphaned(T)
      BY <1>0, <2>1, EmptyShapes, ZenonT(30) DEF ConnsClosed
    <2>3. CASE i \in S
      BY <1>0, <2>1, <2>3, ZenonT(30) DEF ConnsClosed
    <2>4. CASE i \notin S
      BY <1>0, <2>1, <2>2, <2>4, ZenonT(30) DEF ConnsClosed, Notices, BoundTo
    <2> QED BY <2>3, <2>4
  <1> QED BY <1>1, <1>2, <1>3, ZenonT(30) DEF HasWork

(* The keys that an ending step has to wake. *)
EndsIn(keys, T, S, F) ==
  /\ \A p \in T : ServerKey(p) \in keys /\ SpaceKey(p) \in keys
  /\ \A i \in S : \A p \in Ports : conns[i].port = Key(p) => ServerKey(p) \in keys /\ SpaceKey(p) \in keys
  /\ \A i \in S \cup F : ConnKey(i) \in keys
  /\ \A i \in Orphaned(T) : conns[i].state # "ClosePending" => ConnKey(i) \in keys

(* They are among those it wakes. *)
LEMMA EndingKeys ==
  ASSUME NEW T, NEW S, NEW F, NEW keys, keys = ClosingKeys(T, S, F)
  PROVE  EndsIn(keys, T, S, F)
  <1>1. PICK M : M = T \cup {conns[i].port.slot : i \in S}
    BY ZenonT(30)
  <1>2. PICK O : O = S \cup F \cup {j \in Orphaned(T) : conns[j].state # "ClosePending"}
    BY ZenonT(30)
  <1>3. keys = (UNION {{ServerKey(p), SpaceKey(p)} : p \in M}) \cup {ConnKey(i) : i \in O}
    BY <1>1, <1>2 DEF ClosingKeys
  <1>4. \A p \in M : ServerKey(p) \in keys /\ SpaceKey(p) \in keys
    BY <1>3
  <1>5. \A i \in O : ConnKey(i) \in keys
    BY <1>3
  <1>6. \A i \in S : conns[i].port.slot \in M
    BY <1>1
  <1>7. \A i, p : conns[i].port = Key(p) => conns[i].port.slot = p
    BY DEF Key
  <1>8. \A p \in T : p \in M
    BY <1>1
  <1>9. /\ \A i \in S \cup F : i \in O
        /\ \A i \in Orphaned(T) : conns[i].state # "ClosePending" => i \in O
    BY <1>2, ZenonT(30)
  <1> QED BY <1>4, <1>5, <1>6, <1>7, <1>8, <1>9, ZenonT(30) DEF EndsIn

(* A queue that was full and is not woken for has lost nothing. *)
LEMMA EndingSpaceKept ==
  ASSUME NEW T, NEW S, NEW F, Ending(T, S, F), NEW keys, keys = ClosingKeys(T, S, F)
  PROVE  SpaceKept(keys)
  <1>0. /\ PortsClosed(T, S) /\ ConnsClosed(T, S, F) /\ PortInv /\ Counted /\ bound' = bound
        /\ \A i \in F : conns[i].state = "Open" => i \in Orphaned(T)
        /\ \A q \in Ports \ T : ports'[q].transfers = ports[q].transfers - Moving(Purged(q, S))
    BY EndingFacts
  <1> SUFFICES ASSUME NEW i \in Conns, NEW p \in Ports, conns[i].state = "Open", conns[i].port = Key(p),
                      ports[p].live, SpaceKey(p) \notin keys
               PROVE  /\ conns'[i] = conns[i] /\ ports'[p].live /\ ports'[p].gen = ports[p].gen
                      /\ \A moves : SendFull(i, p, moves) => SendFull(i, p, moves)'
    BY DEF SpaceKept
  <1>1. p \notin T /\ i \notin S /\ \A j \in S : conns[j].port # Key(p)
    BY EndingKeys DEF EndsIn
  <1>2. i \notin Orphaned(T)
    BY <1>1, KeyInjective DEF Orphaned, BoundTo
  <1>3. conns'[i] = conns[i]
    BY <1>0, <1>1, <1>2, ZenonT(30) DEF ConnsClosed
  <1>4. Purged(p, S) = {}
    <2> SUFFICES ASSUME NEW r \in Purged(p, S) PROVE FALSE
      OBVIOUS
    <2>1. PICK j \in S : r.conn = ConnId(j) /\ r \in ports[p].requests
      BY DEF Purged
    <2>2. r.conn.slot = j
      BY <2>1 DEF ConnId
    <2> QED BY <1>0, <1>1, <2>1, <2>2, ZenonT(30) DEF PortInv, Backed
  <1>5. ports'[p].requests = ports[p].requests
    <2>1. ports'[p].requests = ports[p].requests \ Purged(p, S)
      BY <1>0, <1>1, ZenonT(30) DEF PortsClosed
    <2> QED BY <1>4, <2>1, ZenonT(30)
  <1>6. ports'[p].transfers = ports[p].transfers
    <2>1. ports[p].transfers \in Nat
      BY <1>0, CountersNat
    <2>2. ports'[p].transfers = ports[p].transfers - Moving({})
      BY <1>0, <1>1, <1>4, ZenonT(30)
    <2> QED BY <2>1, <2>2, CountNone
  <1>7. \A moves : SendFull(i, p, moves) => SendFull(i, p, moves)'
    BY <1>0, <1>3, <1>5, <1>6, FullKept, ZenonT(30)
  <1>8. ports'[p].live = ports[p].live /\ ports'[p].gen = ports[p].gen
    BY <1>1, EndingWork, ZenonT(30)
  <1> QED BY <1>3, <1>7, <1>8, ZenonT(30)

(* Closing a connection of a bound port signals its server. *)
LEMMA CloseSignalled ==
  ASSUME NEW S, NEW i \in S, NEW p, ports[p].wake, conns[i].port.slot = p
  PROVE  <<ports[p].server, "notice">> \in CloseSignals(S)
  BY DEF CloseSignals, Signals

(* Ending connections: who waits on what ends is woken, and a server that gets a
   notice is woken or given a bit. *)
LEMMA ClosingQueues ==
  ASSUME PortInv, PortInv', QueueInv, bound' = bound, taken' = taken, WaitShape',
         NEW T, NEW S, NEW F, Closable(T, S, F), Closing(T, S, F), Woken(ClosingKeys(T, S, F)),
         \A p \in Ports \ T : ports[p].live =>
           /\ drained'[ports[p].server] => drained[ports[p].server]
           /\ ready[ports[p].server] \subseteq ready'[ports[p].server]
           /\ <<ports[p].server, "notice">> \in CloseSignals(S) => ready'[ports[p].server] # {}
  PROVE  QueueInv'
  <1>0. Signalled /\ (\A h \in Holders : Parked(h)) /\ Ending(T, S, F) /\ Conns' = Conns
    BY DEF QueueInv, Ending, Conns
  <1>1. (\A p \in Ports : PortCounted(p)') /\ (\A i \in Conns : ConnCounted(i)')
    BY <1>0, EndingPortCounted, EndingConnCounted, ZenonT(30)
  <1>2. PICK keys : keys = ClosingKeys(T, S, F)
    OBVIOUS
  <1>3. EndsIn(keys, T, S, F)
    BY <1>2, EndingKeys, ZenonT(30)
  <1>4. \A p \in Ports \ T : /\ ports'[p].live = ports[p].live /\ ports'[p].gen = ports[p].gen
                             /\ ports'[p].server = ports[p].server /\ ports'[p].wake = ports[p].wake
                             /\ HasWork(p)' => HasWork(p) \/ \E i \in S : conns[i].port = Key(p)
    BY <1>0, EndingWork, EndingFacts
  <1>5. ServerKept(keys)
    BY <1>3, <1>4, ZenonT(30) DEF EndsIn, ServerKept
  <1>6. ConnsClosed(T, S, F) /\ \A p \in T : ports'[p] = EmptyPort(ports[p].gen)
    BY <1>0, EndingFacts, ZenonT(30)
  <1>7. ConnKept(keys)
    BY <1>3, <1>6, ZenonT(30) DEF EndsIn, ConnKept, ConnsClosed
  <1>8. SpaceKept(keys)
    BY <1>0, <1>2, EndingSpaceKept, ZenonT(30)
  <1>9. (\A h \in Holders : Parked(h))'
    BY <1>0, <1>2, <1>5, <1>7, <1>8, WokenParked, ZenonT(30)
  <1>10. Signalled'
    <2>1. ASSUME NEW p \in Ports, ports'[p].live
          PROVE  /\ p \notin T /\ ports[p].live /\ ports'[p].server = ports[p].server
                 /\ ports'[p].wake = ports[p].wake
      <3>1. p \notin T
        BY <1>6, <2>1, EmptyShapes, ZenonT(30)
      <3> QED BY <1>4, <2>1, <3>1, ZenonT(30)
    <2>2. ASSUME NEW p \in Ports, ports'[p].live, ports'[p].wake, HasWork(p)'
          PROVE  (ports[p].wake /\ HasWork(p)) \/ ready'[ports[p].server] # {}
      <3>1. p \notin T /\ ports[p].live /\ ports[p].wake
        BY <2>1, <2>2, ZenonT(30)
      <3>2. CASE \E i \in S : conns[i].port = Key(p)
        <4>1. PICK i \in S : conns[i].port = Key(p)
          BY <3>2, ZenonT(30)
        <4>2. conns[i].port.slot = p
          BY <4>1 DEF Key
        <4>3. <<ports[p].server, "notice">> \in CloseSignals(S)
          BY <3>1, <4>1, <4>2, CloseSignalled, ZenonT(30)
        <4> QED BY <3>1, <4>3, ZenonT(30)
      <3> QED BY <1>4, <2>2, <3>1, <3>2, ZenonT(30)
    <2>3. ASSUME NEW p \in Ports, ports'[p].live
          PROVE  /\ ports[p].live /\ ports'[p].server = ports[p].server
                 /\ ports'[p].wake /\ HasWork(p)' => (ports[p].wake /\ HasWork(p)) \/ ready'[ports[p].server] # {}
                 /\ drained'[ports[p].server] => drained[ports[p].server]
                 /\ ready[ports[p].server] \subseteq ready'[ports[p].server]
      BY <2>1, <2>2, <2>3, ZenonT(30)
    <2> QED BY <1>0, <2>3, SignalledKept, ZenonT(30)
  <1> QED BY <1>0, <1>1, <1>9, <1>10, ZenonT(30) DEF QueueInv, Counted

(* CLOSE, and the end that RECV_EVENT reports. *)
LEMMA EndQueues ==
  ASSUME PortInv, PortInv', QueueInv, bound' = bound, taken' = taken, drained' = drained,
         NEW S, NEW F, Closable({}, S, F), End({}, S, F)
  PROVE  QueueInv'
  <1>0. WaitShape /\ Signalled /\ \A h \in Holders : Parked(h)
    BY DEF QueueInv
  <1>1. Closing({}, S, F) /\ Apply(ClosingKeys({}, S, F), CloseSignals(S))
    BY DEF End
  <1>2. /\ WaitShape' /\ Woken(ClosingKeys({}, S, F))
        /\ \A s \in Servers : /\ ready[s] \subseteq ready'[s]
                              /\ \A bit \in {"request", "notice"} : <<s, bit>> \in CloseSignals(S) => ready'[s] # {}
    BY <1>0, <1>1, ApplyWakes, ZenonT(30)
  <1>3. \A p \in Ports : ports[p].live => ports[p].server \in Servers
    BY <1>0 DEF Signalled
  <1> QED BY <1>1, <1>2, <1>3, ClosingQueues, ZenonT(30)

(* Exit ends what the process served and held, and wakes and signals likewise. *)
LEMMA ExitQueues ==
  ASSUME PortInv, PortInv', QueueInv, bound' = bound, NEW h, Exit(h)
  PROVE  QueueInv'
  <1>0. /\ WaitShape /\ Signalled /\ (\A g \in Holders : Parked(g)) /\ Servers' = Servers /\ Holders' = Holders
    BY DEF QueueInv, Servers, Holders, Clients
  <1>1. PICK T : T = {p \in Ports : ports[p].live /\ ports[p].server = h}
    BY ZenonT(30)
  <1>2. PICK mine : mine = {i \in Conns : conns[i].client = h /\ conns[i].state \notin {"Free", "ClosePending"}}
    BY ZenonT(30)
  <1>3. PICK S : S = {i \in mine : conns[i].state = "Open"} \ Orphaned(T)
    BY ZenonT(30)
  <1>4. PICK F : F = mine \ S
    BY ZenonT(30)
  <1>5. /\ Closing(T, S, F) /\ taken' = taken /\ drained' = [s \in Servers |-> drained[s] /\ s # h]
        /\ ready' = [s \in Servers |-> IF s = h THEN {} ELSE
             ready[s] \cup {bit \in {"notice"} : <<s, bit>> \in CloseSignals(S)}]
        /\ blocked' = [g \in Holders |->
             IF \/ g = h \/ blocked[g].on \in ClosingKeys(T, S, F)
                \/ blocked[g].op = "work" /\ <<g, "notice">> \in CloseSignals(S) /\ "notice" \notin ready[g]
               THEN Running ELSE blocked[g]]
    BY <1>1, <1>2, <1>3, <1>4, ZenonT(30) DEF Exit
  <1>6. Closable(T, S, F)
    BY <1>1, <1>2, <1>3, <1>4, ZenonT(30) DEF Closable
  <1>7. WaitShape'
    BY <1>0, <1>5, ZenonT(30) DEF WaitShape
  <1>8. Woken(ClosingKeys(T, S, F))
    <2> SUFFICES ASSUME NEW g \in Holders, blocked'[g] # Running
                 PROVE  /\ blocked'[g] = blocked[g] /\ blocked[g].on \notin ClosingKeys(T, S, F)
                        /\ blocked[g].op = "work" => ready'[g] = {}
      BY ZenonT(30) DEF Woken
    <2>1. /\ g # h /\ blocked'[g] = blocked[g] /\ blocked[g].on \notin ClosingKeys(T, S, F)
          /\ ~(blocked[g].op = "work" /\ <<g, "notice">> \in CloseSignals(S) /\ "notice" \notin ready[g])
      BY <1>5
    <2>2. ASSUME blocked[g].op = "work" PROVE ready'[g] = {}
      <3>1. g \in Servers /\ ready[g] = {}
        BY <1>0, <2>2, ZenonT(30) DEF Parked
      <3> QED BY <1>5, <2>1, <2>2, <3>1, ZenonT(30)
    <2> QED BY <2>1, <2>2, ZenonT(30)
  <1>9. ASSUME NEW p \in Ports \ T, ports[p].live
        PROVE  /\ drained'[ports[p].server] => drained[ports[p].server]
               /\ ready[ports[p].server] \subseteq ready'[ports[p].server]
               /\ <<ports[p].server, "notice">> \in CloseSignals(S) => ready'[ports[p].server] # {}
    <2>1. ports[p].server # h /\ ports[p].server \in Servers
      BY <1>0, <1>1, <1>9, ZenonT(30) DEF Signalled
    <2> QED BY <1>5, <2>1, ZenonT(30)
  <1> QED BY <1>5, <1>6, <1>7, <1>8, <1>9, ClosingQueues, ZenonT(30)

(* DISCONNECT drops the requests of one connection, and wakes its client and who
   waits for room. *)
LEMMA DisconnectQueues ==
  ASSUME PortInv, PortInv', QueueInv, bound' = bound, NEW s, NEW p \in Ports, NEW j \in Conns,
         Disconnect(s, p, j)
  PROVE  QueueInv'
  <1>0. /\ WaitShape /\ Counted /\ Signalled /\ (\A h \in Holders : Parked(h))
        /\ Conns' = Conns /\ Shape
    BY DEF QueueInv, Conns, PortInv
  <1>1. /\ ports' = [ports EXCEPT ![p] = [ClosedPort(p, {}, {j}) EXCEPT !.nextSeq = ports[p].nextSeq + 1]]
        /\ conns' = [conns EXCEPT ![j].state = "ServerClosed", ![j].outstanding = 0,
                                  ![j].transfers = 0, ![j].closeSeq = ports[p].nextSeq]
        /\ Apply({ConnKey(j), SpaceKey(p)}, {}) /\ drained' = drained
        /\ conns[j].state = "Open" /\ conns[j].port = Key(p)
    BY ZenonT(30) DEF Disconnect, BoundTo
  <1>2. ASSUME NEW q \in Ports
        PROVE  /\ ports'[q].live = ports[q].live /\ ports'[q].gen = ports[q].gen
               /\ ports'[q].server = ports[q].server /\ ports'[q].wake = ports[q].wake
               /\ q # p => ports'[q].requests = ports[q].requests /\ ports'[q].transfers = ports[q].transfers
               /\ q = p => /\ ports'[q].requests = ports[q].requests \ Purged(p, {j})
                           /\ ports'[q].transfers = ports[q].transfers - Moving(Purged(p, {j}))
    <2>1. DOMAIN ports[q] = PortFields
      BY <1>0 DEF Shape
    <2>2. CASE q # p
      BY <1>0, <1>1, <2>2, ZenonT(30) DEF Shape
    <2>3. CASE q = p
      <3>1. ports'[p] = [ClosedPort(p, {}, {j}) EXCEPT !.nextSeq = ports[p].nextSeq + 1]
        BY <1>0, <1>1 DEF Shape
      <3>2. ClosedPort(p, {}, {j}) =
              [ports[p] EXCEPT !.requests = @ \ Purged(p, {j}), !.transfers = @ - Moving(Purged(p, {j})),
                               !.nextSeq = @ + Cardinality({j} \cap BoundTo(p))]
        BY DEF ClosedPort
      <3>3. PICK C : C = ClosedPort(p, {}, {j})
        OBVIOUS
      <3>4. PICK n : n = ports[p].transfers - Moving(Purged(p, {j}))
        OBVIOUS
      <3>5. PICK R : R = ports[p].requests \ Purged(p, {j})
        BY ZenonT(30)
      <3>6. /\ DOMAIN C = PortFields /\ C.live = ports[p].live /\ C.gen = ports[p].gen
            /\ C.server = ports[p].server /\ C.wake = ports[p].wake
            /\ C.requests = R /\ C.transfers = n
        BY <2>1, <2>3, <3>2, <3>3, <3>4, <3>5, ZenonT(30) DEF PortFields
      <3>7. ports'[p] = [C EXCEPT !.nextSeq = ports[p].nextSeq + 1]
        BY <3>1, <3>3, ZenonT(30)
      <3>8. /\ ports'[p].live = C.live /\ ports'[p].gen = C.gen
            /\ ports'[p].server = C.server /\ ports'[p].wake = C.wake
            /\ ports'[p].requests = C.requests /\ ports'[p].transfers = C.transfers
        BY <3>6, <3>7, ZenonT(30) DEF PortFields
      <3> QED BY <2>3, <3>4, <3>5, <3>6, <3>8, ZenonT(30)
    <2> QED BY <2>2, <2>3, ZenonT(30)
  <1>3. ASSUME NEW i \in Conns
        PROVE  /\ i # j => conns'[i] = conns[i]
               /\ i = j => /\ conns'[i].state = "ServerClosed" /\ conns'[i].outstanding = 0
                           /\ conns'[i].transfers = 0 /\ conns'[i].events = conns[i].events
    <2>1. /\ DOMAIN conns[i] = ConnFields
          /\ conns'[i] = IF i = j THEN [conns[j] EXCEPT !.state = "ServerClosed", !.outstanding = 0,
                                                        !.transfers = 0, !.closeSeq = ports[p].nextSeq]
                         ELSE conns[i]
      BY <1>0, <1>1, ZenonT(30) DEF Shape
    <2> QED BY <2>1 DEF ConnFields
  <1>4. ASSUME NEW q \in Ports PROVE PortCounted(q)'
    <2>1. PortCounted(q)
      BY <1>0 DEF Counted
    <2>2. CASE q # p
      BY <1>2, <2>1, <2>2, PortCountedKept, ZenonT(30)
    <2>3. CASE q = p
      BY <1>2, <2>1, <2>3, PurgedCounted, ZenonT(30)
    <2> QED BY <2>2, <2>3, ZenonT(30)
  <1>5. ASSUME NEW i \in Conns PROVE ConnCounted(i)'
    <2>1. ConnCounted(i)
      BY <1>0 DEF Counted
    <2>2. conns'[i].events \in Nat /\ conns'[i].events <= EventDepth
      BY <1>3, <2>1, ZenonT(30) DEF ConnCounted
    <2>3. CASE i = j
      <3>1. \A q \in Ports : \A r \in ports'[q].requests : r.conn.slot # i
        BY <1>3, <2>3, ZenonT(30) DEF PortInv, Backed
      <3> QED BY <1>3, <2>2, <2>3, <3>1, ConnCountedNone, ZenonT(30)
    <2>4. CASE i # j
      <3>1. \A r \in Purged(p, {j}) : r.conn.slot = j
        BY DEF Purged, ConnId
      <3>2. \A q \in Ports : {r \in ports'[q].requests : r.conn.slot = i} = {r \in ports[q].requests : r.conn.slot = i}
        BY <1>2, <2>4, <3>1, ZenonT(30)
      <3> QED BY <1>3, <2>1, <2>2, <2>4, <3>2, ConnCountedKept, ZenonT(30)
    <2> QED BY <2>3, <2>4, ZenonT(30)
  <1>6. \A q \in Ports : HasWork(q)' => HasWork(q)
    <2>1. \A q \in Ports : Key(q)' = Key(q) /\ ports'[q].requests \subseteq ports[q].requests
      BY <1>2, ZenonT(30) DEF Key
    <2>2. \A q \in Ports : Notices(q)' \subseteq Notices(q)
      BY <1>0, <1>3, <2>1, ZenonT(30) DEF Notices, BoundTo
    <2> QED BY <2>1, <2>2, ZenonT(30) DEF HasWork
  <1>7. PICK keys : keys = {ConnKey(j), SpaceKey(p)}
    BY ZenonT(30)
  <1>8. ServerKept(keys) /\ ConnKept(keys)
    BY <1>2, <1>3, <1>6, <1>7, ZenonT(30) DEF ServerKept, ConnKept
  <1>9. SpaceKept(keys)
    <2> SUFFICES ASSUME NEW i \in Conns, NEW q \in Ports, conns[i].state = "Open", conns[i].port = Key(q),
                        ports[q].live, SpaceKey(q) \notin keys
                 PROVE  /\ conns'[i] = conns[i]
                        /\ \A moves : SendFull(i, q, moves) => SendFull(i, q, moves)'
      BY <1>2, ZenonT(30) DEF SpaceKept
    <2>1. q # p /\ i # j
      BY <1>1, <1>7, KeyInjective, ZenonT(30)
    <2>2. \A moves : SendFull(i, q, moves) => SendFull(i, q, moves)'
      BY <1>2, <1>3, <2>1, FullKept, ZenonT(30)
    <2> QED BY <1>3, <2>1, <2>2, ZenonT(30)
  <1>10. WaitShape' /\ Woken(keys) /\ \A t \in Servers : ready[t] \subseteq ready'[t]
    BY <1>0, <1>1, <1>7, ApplyWakes, ZenonT(30)
  <1>11. (\A h \in Holders : Parked(h))'
    BY <1>0, <1>8, <1>9, <1>10, WokenParked, ZenonT(30)
  <1>12. Signalled'
    <2>1. \A q \in Ports : ports[q].live => ports[q].server \in Servers
      BY <1>0 DEF Signalled
    <2> QED BY <1>0, <1>1, <1>2, <1>6, <1>10, <2>1, SignalledKept, ZenonT(30)
  <1> QED BY <1>0, <1>4, <1>5, <1>10, <1>11, <1>12, ZenonT(30) DEF QueueInv, Counted

(* Initially nothing is queued, blocked or signalled. *)
LEMMA InitQueues == Init => QueueInv
  <1> SUFFICES ASSUME Init PROVE QueueInv
    OBVIOUS
  <1>1. /\ \A p \in Ports : ports[p] = EmptyPort(0)
        /\ \A i \in Conns : conns[i] = EmptyConn(0)
        /\ \A h \in Holders : blocked[h] = Running
        /\ bound \in Bounds
    BY DEF Init
  <1>2. WaitShape
    BY DEF Init, WaitShape
  <1>3. EventDepth \in Nat /\ MaxTransfers \in Nat /\ RequestDepth \in Nat /\ MaxOutstanding \in Nat
        /\ MaxConnTransfers \in Nat
    BY <1>1, PortConstants, ZenonT(30) DEF MaxOutstanding
  <1>4. \A p \in Ports : ports[p].requests = {} /\ ports[p].transfers = 0 /\ ~ports[p].live
    BY <1>1, EmptyShapes, EmptyCounts
  <1>5. \A p \in Ports : PortCounted(p)
    BY <1>3, <1>4, CountNone DEF PortCounted
  <1>6. ASSUME NEW i \in Conns PROVE ConnCounted(i)
    <2>1. Queued(i) = {}
      BY <1>4 DEF Queued
    <2>2. conns[i].outstanding = 0 /\ conns[i].transfers = 0 /\ conns[i].events = 0
      BY <1>1, EmptyCounts
    <2>3. Cardinality(Queued(i)) = 0 /\ Moving(Queued(i)) = 0
      BY <2>1, CountNone, ZenonT(30)
    <2> QED BY <1>3, <2>2, <2>3 DEF ConnCounted
  <1>7. \A h \in Holders : Parked(h)
    BY <1>1 DEF Parked, Running
  <1>8. Signalled
    BY <1>4 DEF Signalled
  <1> QED BY <1>2, <1>5, <1>6, <1>7, <1>8, ZenonT(30) DEF QueueInv, Counted

(* Every step keeps the second invariant, given that it keeps the first. *)
LEMMA StepQueues ==
  ASSUME PortInv, PortInv', QueueInv, [Next]_<<vars, bound>>
  PROVE  QueueInv'
  <1>1. CASE UNCHANGED <<vars, bound>>
    BY <1>1, OtherInv DEF vars
  <1>2. ASSUME Step, bound' = bound PROVE QueueInv'
    <2>1. ASSUME NEW s \in Servers, Register(s) \/ WaitReady(s) \/ WaitBlocks(s) PROVE QueueInv'
      BY <1>2, <2>1, RegisterQueues, WaitInv, ZenonT(30)
    <2>2. ASSUME NEW c \in Clients, NEW p \in Ports, Connect(c, p) PROVE QueueInv'
      BY <1>2, <2>2, ConnectQueues, ZenonT(30)
    <2>3. ASSUME NEW c \in Clients, NEW i \in Conns, Close(c, i) PROVE QueueInv'
      <3>1. Closable({}, {i}, {})
        BY <2>3 DEF Close, Closable, Orphaned
      <3>2. End({}, {i}, {}) /\ taken' = taken /\ drained' = drained
        BY <2>3 DEF Close
      <3> QED BY <1>2, <3>1, <3>2, EndQueues, ZenonT(30)
    <2>4. ASSUME NEW c \in Clients, NEW i \in Conns, TakeEnd(c, i) PROVE QueueInv'
      <3>1. Closable({}, {}, {i})
        BY <2>4 DEF TakeEnd, Closable, Orphaned
      <3>2. End({}, {}, {i}) /\ taken' = taken /\ drained' = drained
        BY <2>4 DEF TakeEnd
      <3> QED BY <1>2, <3>1, <3>2, EndQueues, ZenonT(30)
    <2>5. ASSUME NEW c \in Clients, NEW i \in Conns, TakeEvent(c, i) PROVE QueueInv'
      BY <1>2, <2>5, TakeEventQueues, ZenonT(30)
    <2>6. ASSUME NEW c \in Clients, NEW i \in Conns,
                 EventBlocks(c, i) \/ \E moves \in BOOLEAN : SendBlocks(c, i, moves)
          PROVE  QueueInv'
      BY <1>2, <2>6, ClientBlocksInv, ZenonT(30)
    <2>7. ASSUME NEW c \in Clients, NEW i \in Conns, NEW moves \in BOOLEAN, Send(c, i, moves) PROVE QueueInv'
      BY <1>2, <2>7, SendQueues, ZenonT(30)
    <2>8. ASSUME NEW s \in Servers, NEW p \in Ports,
                 RecvNotice(s, p) \/ RecvRequest(s, p) \/ RecvEmpty(s, p) \/ BindWake(s, p)
          PROVE  QueueInv'
      BY <1>2, <2>8, RecvNoticeQueues, RecvRequestQueues, RecvEmptyInv, BindWakeQueues, ZenonT(30)
    <2>9. ASSUME NEW s \in Servers, NEW p \in Ports, NEW i \in Conns, Post(s, p, i) \/ Disconnect(s, p, i)
          PROVE  QueueInv'
      BY <1>2, <2>9, PostQueues, DisconnectQueues, ZenonT(30)
    <2>10. ASSUME NEW h \in Holders, Exit(h) PROVE QueueInv'
      BY <1>2, <2>10, ExitQueues, ZenonT(30)
    <2>11. ASSUME NEW h \in Holders, TimesOut(h) PROVE QueueInv'
      <3>1. ports' = ports /\ conns' = conns /\ ready' = ready /\ drained' = drained
        BY <2>11 DEF TimesOut
      <3> QED BY <1>2, <2>11, <3>1, OtherInv, ZenonT(30)
    <2>12. ASSUME NEW a \in authority, Revoke(a) PROVE QueueInv'
      <3>1. ports' = ports /\ conns' = conns /\ ready' = ready /\ drained' = drained /\ blocked' = blocked
        BY <2>12 DEF Revoke
      <3> QED BY <1>2, <3>1, OtherInv, ZenonT(30)
    <2> QED BY <1>2, <2>1, <2>2, <2>3, <2>4, <2>5, <2>6, <2>7, <2>8, <2>9, <2>10, <2>11, <2>12, ZenonT(30) DEF Step
  <1> QED BY <1>1, <1>2, ZenonT(30) DEF Next

(* Both invariants hold in every reachable state. *)
THEOREM QueueInvariance == Spec => [](PortInv /\ QueueInv)
  <1>1. PortInv /\ QueueInv /\ [Next]_<<vars, bound>> => (PortInv /\ QueueInv)'
    BY StepInv, StepQueues
  <1> QED BY <1>1, InitInv, InitQueues, PTL DEF Spec

(* Whatever the number of holders and connections, a thread is blocked in SEND,
   RECV_EVENT or RECV only while its call would still block: whatever makes the
   call complete wakes it (attempt_or_block, Effects). *)
THEOREM NoLostWakeupCorrect == Spec => []NoLostWakeup
  <1>1. PortInv /\ QueueInv => NoLostWakeup
    <2> SUFFICES ASSUME QueueInv, NEW h \in Holders
                 PROVE  /\ blocked[h].op = "recv" =>
                             /\ LivePort(blocked[h].on[2]) /\ ports[blocked[h].on[2].slot].server = h
                             /\ ~HasWork(blocked[h].on[2].slot)
                        /\ blocked[h].op \in {"send", "event"} =>
                             conns[blocked[h].conn.slot].state = "Open" /\ ConnId(blocked[h].conn.slot) = blocked[h].conn
                        /\ blocked[h].op = "event" => conns[blocked[h].conn.slot].events = 0
                        /\ blocked[h].op = "send" =>
                             SendFull(blocked[h].conn.slot, conns[blocked[h].conn.slot].port.slot, blocked[h].moves)
      BY ZenonT(30) DEF NoLostWakeup
    <2>1. Parked(h)
      BY DEF QueueInv
    <2>2. CASE blocked[h].op = "recv"
      <3>1. PICK p \in Ports : RecvParked(h, p)
        BY <2>1, <2>2, ZenonT(30) DEF Parked
      <3>2. blocked[h].on[2] = Key(p) /\ ports[p].live /\ ports[p].server = h /\ ~HasWork(p)
        BY <3>1 DEF RecvParked, ServerKey
      <3>3. Key(p).slot = p /\ Key(p).gen = ports[p].gen
        BY DEF Key
      <3> QED BY <2>2, <3>2, <3>3, ZenonT(30) DEF LivePort
    <2>3. CASE blocked[h].op = "event"
      <3>1. PICK i \in Conns : EventParked(h, i)
        BY <2>1, <2>3, ZenonT(30) DEF Parked
      <3>2. blocked[h].conn = ConnId(i) /\ conns[i].state = "Open" /\ conns[i].events = 0 /\ ConnId(i).slot = i
        BY <3>1, ZenonT(30) DEF EventParked, ConnId
      <3> QED BY <2>3, <3>2, ZenonT(30)
    <2>4. CASE blocked[h].op = "send"
      <3>1. PICK i \in Conns, p \in Ports : SendParked(h, i, p)
        BY <2>1, <2>4, ZenonT(30) DEF Parked
      <3>2. /\ blocked[h].conn = ConnId(i) /\ conns[i].state = "Open" /\ ConnId(i).slot = i
            /\ conns[i].port = Key(p) /\ SendFull(i, p, blocked[h].moves) /\ Key(p).slot = p
        BY <3>1 DEF SendParked, ConnId, Key
      <3> QED BY <2>4, <3>2, ZenonT(30)
    <2> QED BY <2>2, <2>3, <2>4, ZenonT(30)
  <1> QED BY <1>1, QueueInvariance, PTL

(* Whatever the depths of the queues, the counters that bound them equal what is
   queued and stay within their limits, and a server that drains its port before it
   waits on its work set never sleeps over pending work (send, recv, bind_wake). *)
THEOREM QueuesServedCorrect == Spec => []QueuesServed
  <1>1. PortInv /\ QueueInv => QueuesAccounted
    <2> SUFFICES ASSUME PortInv, QueueInv PROVE QueuesAccounted
      OBVIOUS
    <2>1. ASSUME NEW p \in Ports
          PROVE  /\ ~ports[p].live => ports[p].requests = {}
                 /\ ports[p].transfers = Moving(ports[p].requests) /\ ports[p].transfers <= MaxTransfers
                 /\ Cardinality(ports[p].requests) <= RequestDepth
                 /\ \A r \in ports[p].requests :
                      /\ conns[r.conn.slot].state = "Open" /\ ConnId(r.conn.slot) = r.conn
                      /\ conns[r.conn.slot].port = Key(p)
      BY ZenonT(30) DEF PortInv, Ordered, Backed, QueueInv, Counted, PortCounted
    <2>2. ASSUME NEW i \in Conns
          PROVE  /\ conns[i].outstanding = Cardinality(Queued(i)) /\ conns[i].outstanding <= MaxOutstanding
                 /\ conns[i].transfers = Moving(Queued(i)) /\ conns[i].transfers <= MaxConnTransfers
                 /\ conns[i].events <= EventDepth
      BY DEF QueueInv, Counted, ConnCounted
    <2>3. ASSUME NEW i \in Conns, conns[i].state # "Free"
          PROVE  LivePort(conns[i].port) \/ conns[i].state = "ServerGone"
      <3>1. CASE conns[i].state # "ServerGone"
        <4>1. PICK p \in Ports : ports[p].live /\ conns[i].port = Key(p)
          BY <2>3, <3>1, ZenonT(30) DEF PortInv, Attached
        <4>2. conns[i].port.slot = p /\ conns[i].port.gen = ports[p].gen
          BY <4>1 DEF Key
        <4> QED BY <4>1, <4>2, ZenonT(30) DEF LivePort
      <3> QED BY <3>1, ZenonT(30)
    <2>4. \A i \in Conns : Queued(i) = UNION {{r \in ports[p].requests : r.conn = ConnId(i)} : p \in Ports}
      BY ZenonT(30) DEF Queued
    <2> QED BY <2>1, <2>2, <2>3, <2>4, ZenonT(30) DEF QueuesAccounted
  <1>2. QueueInv => WorkSignalled
    <2> SUFFICES ASSUME QueueInv, NEW p \in Ports, ports[p].live, ports[p].wake, HasWork(p),
                        blocked[ports[p].server].op = "work"
                 PROVE  ~drained[ports[p].server]
      BY DEF WorkSignalled
    <2>1. ports[p].server \in Holders
      BY ZenonT(30) DEF QueueInv, Signalled, Holders
    <2>2. ready[ports[p].server] = {}
      BY <2>1 DEF QueueInv, Parked
    <2> QED BY <2>2, ZenonT(30) DEF QueueInv, Signalled
  <1> QED BY <1>1, <1>2, QueueInvariance, PTL DEF QueuesServed
=============================================================================
