-------------------------- MODULE PortEngineProofs --------------------------
(* Proofs about service ports, for any number of ports, connections, holders
   and generations and any depth of the queues. *)
EXTENDS PortInvariant, FiniteSetTheorems, TLAPS

(* The provers have thirty seconds for a leaf. *)
USE SMTT(30), ZenonT(30)

(* The empty records have the fields of their kind. *)
LEMMA EmptyShapes ==
  /\ \A g : /\ DOMAIN EmptyPort(g) = PortFields /\ ~EmptyPort(g).live /\ EmptyPort(g).requests = {}
            /\ EmptyPort(g).gen = g /\ EmptyPort(g).nextSeq = 1 /\ EmptyPort(g).server = NoHolder
  /\ \A g : DOMAIN EmptyConn(g) = ConnFields /\ EmptyConn(g).state = "Free" /\ EmptyConn(g).gen = g
  BY DEF EmptyPort, EmptyConn, PortFields, ConnFields

(* Of two requests with different numbers one is older. *)
LEMMA OlderNumber == \A m, n : m \in Nat /\ n \in Nat /\ m <= n /\ m # n => m < n
  OBVIOUS

(* The number of connections of a set is a natural number. *)
LEMMA CountConns ==
  ASSUME Shape, NEW S \in SUBSET Conns
  PROVE  Cardinality(S) \in Nat
  <1>1. IsFiniteSet(Conns)
    BY PortConstants DEF Shape, Conns
  <1> QED BY <1>1, FS_Subset, FS_CardinalityType

-----------------------------------------------------------------------------
(* Ending connections. *)

(* Which sets the operations end: the connections of S are open and keep their
   port, those of F are done with or lose their port with their client. *)
Closable(T, S, F) ==
  /\ T \in SUBSET Ports /\ S \in SUBSET Conns /\ F \in SUBSET Conns
  /\ \A i \in S : conns[i].state = "Open"
  /\ S \cap F = {} /\ S \cap Orphaned(T) = {}
  /\ \A i \in F : conns[i].state = "Open" => i \in Orphaned(T)

PortsClosed(T, S) ==
  /\ \A p \in T : ports'[p] = EmptyPort(ports[p].gen)
  /\ \A p \in Ports \ T :
       /\ ports'[p].requests = ports[p].requests \ Purged(p, S)
       /\ ports'[p].live = ports[p].live /\ ports'[p].gen = ports[p].gen
       /\ ports'[p].server = ports[p].server
       /\ \E n \in Nat : ports'[p].nextSeq = ports[p].nextSeq + n

ConnsClosed(T, S, F) ==
  /\ \A i \in F : conns'[i] = EmptyConn(conns[i].gen)
  /\ \A i \in Orphaned(T) \ F :
       IF conns[i].state = "ClosePending" THEN conns'[i] = EmptyConn(conns[i].gen)
       ELSE /\ conns'[i].state = "ServerGone" /\ conns'[i].gen = conns[i].gen
            /\ conns'[i].client = conns[i].client
  /\ \A i \in S : /\ conns'[i].state = "ClosePending" /\ conns'[i].gen = conns[i].gen
                  /\ conns'[i].port = conns[i].port /\ conns'[i].client = conns[i].client
  /\ \A i \in Conns \ (F \cup Orphaned(T) \cup S) : conns'[i] = conns[i]

(* A key names one port. *)
LEMMA KeyInjective == \A p, q : Key(p) = Key(q) => p = q
  BY DEF Key

(* What Closing does to each port and each connection. *)
LEMMA ClosingFacts ==
  ASSUME PortInv, bound' = bound, taken' = taken,
         NEW T, NEW S, NEW F, Closable(T, S, F), Closing(T, S, F)
  PROVE  Shape' /\ PortsClosed(T, S) /\ ConnsClosed(T, S, F)
  <1>0. /\ Shape /\ Conns' = Conns
        /\ T \in SUBSET Ports /\ S \in SUBSET Conns /\ F \in SUBSET Conns
        /\ S \cap F = {} /\ S \cap Orphaned(T) = {}
    BY DEF PortInv, Conns, Closable
  <1>1. /\ \A p \in Ports : ports'[p] = ClosedPort(p, T, S)
        /\ \A i \in Conns : conns'[i] = ClosedConn(i, T, S, F)
        /\ ports' = [p \in Ports |-> ports'[p]] /\ conns' = [i \in Conns |-> conns'[i]]
    BY DEF Closing
  <1>2. \A p \in T : ports'[p] = EmptyPort(ports[p].gen)
    BY <1>0, <1>1, ZenonT(30) DEF ClosedPort
  <1>3. ASSUME NEW p \in Ports \ T
        PROVE  /\ DOMAIN ports'[p] = PortFields
               /\ ports'[p].requests = ports[p].requests \ Purged(p, S)
               /\ ports'[p].live = ports[p].live /\ ports'[p].gen = ports[p].gen
               /\ ports'[p].server = ports[p].server
               /\ \E n \in Nat : ports'[p].nextSeq = ports[p].nextSeq + n
    <2>1. ports'[p] = [ports[p] EXCEPT !.requests = @ \ Purged(p, S),
                                       !.transfers = @ - Moving(Purged(p, S)),
                                       !.nextSeq = @ + Cardinality(S \cap BoundTo(p))]
      BY <1>1, ZenonT(30) DEF ClosedPort
    <2>2. DOMAIN ports[p] = PortFields
      BY <1>0 DEF Shape
    <2>3. Cardinality(S \cap BoundTo(p)) \in Nat
      BY <1>0, CountConns DEF BoundTo
    <2> QED BY <2>1, <2>2, <2>3 DEF PortFields
  <1>4. \A i \in F : conns'[i] = EmptyConn(conns[i].gen)
    BY <1>0, <1>1, ZenonT(30) DEF ClosedConn
  <1>5. ASSUME NEW i \in Conns
        PROVE  DOMAIN conns[i] = ConnFields
    BY <1>0 DEF Shape
  <1>6. ASSUME NEW i \in Orphaned(T) \ F
        PROVE  /\ DOMAIN conns'[i] = ConnFields
               /\ IF conns[i].state = "ClosePending" THEN conns'[i] = EmptyConn(conns[i].gen)
                  ELSE /\ conns'[i].state = "ServerGone" /\ conns'[i].gen = conns[i].gen
                       /\ conns'[i].client = conns[i].client
    <2>1. i \in Conns /\ i \notin S
      BY <1>0 DEF Orphaned, BoundTo
    <2>2. conns'[i] = IF conns[i].state = "ClosePending" THEN EmptyConn(conns[i].gen)
                      ELSE [conns[i] EXCEPT !.state = "ServerGone", !.events = 0, !.outstanding = 0,
                                            !.transfers = 0, !.closeSeq = 0]
      BY <1>1, <2>1, ZenonT(30) DEF ClosedConn
    <2> QED BY <1>5, <2>1, <2>2, EmptyShapes DEF ConnFields
  <1>7. ASSUME NEW i \in S
        PROVE  /\ DOMAIN conns'[i] = ConnFields
               /\ conns'[i].state = "ClosePending" /\ conns'[i].gen = conns[i].gen
               /\ conns'[i].port = conns[i].port /\ conns'[i].client = conns[i].client
    <2>1. i \in Conns /\ i \notin F /\ i \notin Orphaned(T) \ F
      BY <1>0
    <2>2. conns'[i] = [conns[i] EXCEPT !.state = "ClosePending", !.events = 0, !.outstanding = 0,
                         !.transfers = 0, !.closeSeq = ports[conns[i].port.slot].nextSeq + Rank(i, S)]
      BY <1>1, <2>1, ZenonT(30) DEF ClosedConn
    <2> QED BY <1>5, <2>1, <2>2 DEF ConnFields
  <1>8. \A i \in Conns \ (F \cup Orphaned(T) \cup S) : conns'[i] = conns[i]
    BY <1>1, ZenonT(30) DEF ClosedConn
  <1>9. Shape'
    <2>1. \A p \in Ports : DOMAIN ports'[p] = PortFields
      BY <1>2, <1>3, EmptyShapes
    <2>2. \A i \in Conns : DOMAIN conns'[i] = ConnFields
      BY <1>4, <1>5, <1>6, <1>7, <1>8, EmptyShapes
    <2> QED BY <1>0, <1>1, <2>1, <2>2 DEF Shape
  <1> QED BY <1>2, <1>3, <1>4, <1>6, <1>7, <1>8, <1>9 DEF PortsClosed, ConnsClosed

(* Ending connections keeps the queues ordered and backed by open connections,
   and a transfer whose child is not released stays queued. *)
LEMMA ClosingInv ==
  ASSUME PortInv, bound' = bound, taken' = taken,
         NEW T, NEW S, NEW F, Closable(T, S, F), Closing(T, S, F)
  PROVE  /\ Shape' /\ Ordered' /\ Attached' /\ Backed'
         /\ \A p \in Ports : ports'[p].live =>
              p \notin T /\ ports[p].live /\ ports'[p].server = ports[p].server
         /\ \A p \in Ports : \A r \in ports[p].requests :
              r.moves /\ Child(p, r) \notin Released(T, S) =>
                r \in ports'[p].requests /\ Child(p, r)' = Child(p, r)
         /\ \A i \in Conns : (i \in F => conns[i].client \in gone' \/ conns[i].state # "Open") => Reported(i)
  <1>0. /\ Conns' = Conns /\ Shape
        /\ T \in SUBSET Ports /\ S \in SUBSET Conns /\ F \in SUBSET Conns
        /\ S \cap F = {} /\ S \cap Orphaned(T) = {}
        /\ \A i \in F : conns[i].state = "Open" => i \in Orphaned(T)
        /\ \A i \in S : conns[i].state = "Open"
    BY DEF Conns, PortInv, Closable
  <1>1. Shape' /\ PortsClosed(T, S) /\ ConnsClosed(T, S, F)
    BY ClosingFacts
  <1>3. Ordered'
    <2> SUFFICES ASSUME NEW p \in Ports
                 PROVE  /\ ports'[p].live =>
                             /\ ports'[p].nextSeq \in Nat /\ taken[p] \in Nat /\ taken[p] < ports'[p].nextSeq
                             /\ \A r \in ports'[p].requests : r.seq \in Nat /\ taken[p] < r.seq /\ r.seq < ports'[p].nextSeq
                             /\ \A q, r \in ports'[p].requests : q.seq = r.seq => q = r
                        /\ ~ports'[p].live => ports'[p].requests = {}
      BY DEF Ordered
    <2>1. CASE p \in T
      BY <1>1, <2>1, EmptyShapes DEF PortsClosed
    <2>2. CASE p \notin T
      <3>1. PICK n \in Nat : ports'[p].nextSeq = ports[p].nextSeq + n
        BY <1>1, <2>2 DEF PortsClosed
      <3>2. ports'[p].requests \subseteq ports[p].requests /\ ports'[p].live = ports[p].live
        BY <1>1, <2>2, ZenonT(30) DEF PortsClosed
      <3> QED BY <3>1, <3>2 DEF PortInv, Ordered
    <2> QED BY <2>1, <2>2
  <1>4. ASSUME NEW p \in Ports, NEW r \in ports[p].requests, r \in ports'[p].requests
        PROVE  /\ p \notin T /\ r.conn.slot \in Conns
               /\ r.conn.slot \notin F \cup Orphaned(T) \cup S
               /\ conns'[r.conn.slot] = conns[r.conn.slot] /\ ports'[p].gen = ports[p].gen
               /\ ports'[p].server = ports[p].server
    <2>1. p \notin T
      BY <1>1, <1>4, EmptyShapes DEF PortsClosed
    <2>2. /\ r.conn.slot \in Conns /\ r.conn = ConnId(r.conn.slot)
          /\ conns[r.conn.slot].state = "Open" /\ conns[r.conn.slot].port = Key(p)
      BY DEF PortInv, Backed
    <2>3. r.conn.slot \notin S
      BY <1>1, <1>4, <2>1, <2>2 DEF PortsClosed, Purged
    <2>4. r.conn.slot \notin Orphaned(T)
      BY <1>0, <2>1, <2>2, KeyInjective DEF Orphaned, BoundTo
    <2>5. r.conn.slot \notin F
      BY <1>0, <2>2, <2>4
    <2> QED BY <1>1, <2>1, <2>2, <2>3, <2>4, <2>5, ZenonT(30) DEF PortsClosed, ConnsClosed
  <1>5. \A p \in Ports : ports'[p].requests \subseteq ports[p].requests
    BY <1>0, <1>1, EmptyShapes DEF PortsClosed
  <1>6. Backed'
    <2> SUFFICES ASSUME NEW p \in Ports, NEW r \in ports'[p].requests
                 PROVE  /\ r.conn.slot \in Conns /\ r.conn = ConnId(r.conn.slot)'
                        /\ conns'[r.conn.slot].state = "Open" /\ conns'[r.conn.slot].port = Key(p)'
      BY <1>0 DEF Backed
    <2>1. r \in ports[p].requests
      BY <1>5
    <2>2. conns'[r.conn.slot] = conns[r.conn.slot] /\ ports'[p].gen = ports[p].gen
      BY <1>4, <2>1, ZenonT(30)
    <2> QED BY <2>1, <2>2 DEF PortInv, Backed, ConnId, Key
  <1>7. Attached'
    <2> SUFFICES ASSUME NEW i \in Conns, conns'[i].state \notin {"Free", "ServerGone"}
                 PROVE  \E p \in Ports : ports'[p].live /\ conns'[i].port = Key(p)'
      BY <1>0, ZenonT(30) DEF Attached
    <2>1. i \notin F /\ i \notin Orphaned(T) /\ conns'[i].port = conns[i].port
          /\ conns[i].state \notin {"Free", "ServerGone"}
      BY <1>0, <1>1, EmptyShapes DEF ConnsClosed
    <2>2. PICK p \in Ports : ports[p].live /\ conns[i].port = Key(p)
      BY <2>1 DEF PortInv, Attached
    <2>3. p \notin T
      BY <2>1, <2>2 DEF Orphaned, BoundTo
    <2> QED BY <1>1, <2>1, <2>2, <2>3 DEF Key, PortsClosed
  <1>8. \A p \in Ports : ports'[p].live => p \notin T /\ ports[p].live /\ ports'[p].server = ports[p].server
    BY <1>0, <1>1, EmptyShapes DEF PortsClosed
  <1>9. ASSUME NEW p \in Ports, NEW r \in ports[p].requests, r.moves, Child(p, r) \notin Released(T, S)
        PROVE  r \in ports'[p].requests /\ Child(p, r)' = Child(p, r)
    <2>1. p \notin T /\ r \notin Purged(p, S)
      BY <1>9 DEF Released
    <2>2. r \in ports'[p].requests
      BY <1>1, <2>1 DEF PortsClosed
    <2>3. conns'[r.conn.slot] = conns[r.conn.slot] /\ ports'[p].gen = ports[p].gen
          /\ ports'[p].server = ports[p].server
      BY <1>4, <2>2
    <2> QED BY <2>2, <2>3 DEF Child, Key
  <1>10. ASSUME NEW i \in Conns, i \in F => conns[i].client \in gone' \/ conns[i].state # "Open"
         PROVE  Reported(i)
    <2>1. CASE i \in F
      BY <1>1, <1>10, <2>1, EmptyShapes DEF ConnsClosed, Reported
    <2>2. CASE i \in Orphaned(T) \ F
      BY <1>1, <2>2, EmptyShapes DEF ConnsClosed, Reported
    <2>3. CASE i \in S
      BY <1>0, <1>1, <2>3, ZenonT(30) DEF ConnsClosed, Reported
    <2>4. CASE i \notin F \cup Orphaned(T) \cup S
      BY <1>1, <2>4, ZenonT(30) DEF ConnsClosed, Reported
    <2> QED BY <2>1, <2>2, <2>3, <2>4, ZenonT(30)
  <1> QED BY <1>1, <1>3, <1>6, <1>7, <1>8, <1>9, <1>10, ZenonT(30)

(* An operation that ends connections and lets nobody go keeps the invariant and
   reports the end of every open connection. *)
LEMMA EndInv ==
  ASSUME PortInv, bound' = bound, taken' = taken, gone' = gone, delivered' = delivered,
         NEW S, NEW F, Closable({}, S, F), End({}, S, F)
  PROVE  PortInv' /\ \A i \in Conns : Reported(i)
  <1>1. Closing({}, S, F) /\ children' = children \ Released({}, S)
    BY ZenonT(30) DEF End
  <1>2. /\ Shape' /\ Ordered' /\ Attached' /\ Backed'
        /\ \A p \in Ports : ports'[p].live =>
             p \notin {} /\ ports[p].live /\ ports'[p].server = ports[p].server
        /\ \A p \in Ports : \A r \in ports[p].requests :
             r.moves /\ Child(p, r) \notin Released({}, S) =>
               r \in ports'[p].requests /\ Child(p, r)' = Child(p, r)
        /\ \A i \in Conns : (i \in F => conns[i].client \in gone' \/ conns[i].state # "Open") => Reported(i)
    BY <1>1, ClosingInv
  <1>3. Served'
    BY <1>2, ZenonT(30) DEF PortInv, Served
  <1>4. Carried'
    <2> SUFFICES ASSUME NEW k \in children', k \notin delivered
                 PROVE  \E p \in Ports : \E r \in ports'[p].requests : r.moves /\ k = Child(p, r)'
      BY <1>1, ZenonT(30) DEF PortInv, Carried
    <2>1. PICK p \in Ports : \E r \in ports[p].requests : r.moves /\ k = Child(p, r)
      BY <1>1 DEF PortInv, Carried
    <2>2. PICK r \in ports[p].requests : r.moves /\ k = Child(p, r)
      BY <2>1
    <2> QED BY <1>1, <1>2, <2>2, ZenonT(30)
  <1>5. \A i \in F : conns[i].state # "Open"
    BY DEF Closable, Orphaned
  <1> QED BY <1>2, <1>3, <1>4, <1>5 DEF PortInv

-----------------------------------------------------------------------------
(* Operations that end no connection. *)

(* Every port and connection keeps its identity. *)
Kept ==
  /\ bound' = bound /\ gone' = gone
  /\ taken' = [p \in Ports |-> taken'[p]]
  /\ ports' = [p \in Ports |-> ports'[p]]
  /\ \A p \in Ports :
       /\ DOMAIN ports'[p] = PortFields /\ ports'[p].live = ports[p].live
       /\ ports'[p].gen = ports[p].gen /\ ports'[p].server = ports[p].server
  /\ conns' = [i \in Conns |-> conns'[i]]
  /\ \A i \in Conns :
       /\ DOMAIN conns'[i] = ConnFields /\ conns'[i].gen = conns[i].gen
       /\ conns'[i].state = conns[i].state /\ conns'[i].port = conns[i].port
       /\ conns'[i].client = conns[i].client

(* Identities kept, only the queues are left to look at. *)
LEMMA KeptInv ==
  ASSUME PortInv, Kept
  PROVE  /\ Shape' /\ Served' /\ Attached' /\ Conns' = Conns
         /\ \A i \in Conns : Reported(i)
         /\ \A p \in Ports : Key(p)' = Key(p)
         /\ \A p \in Ports : \A r \in ports[p].requests :
              /\ Child(p, r)' = Child(p, r) /\ r.conn.slot \in Conns
              /\ r.conn = ConnId(r.conn.slot)'
              /\ conns'[r.conn.slot].state = "Open" /\ conns'[r.conn.slot].port = Key(p)'
  <1>1. Conns' = Conns
    BY DEF Kept, Conns
  <1>2. Shape'
    BY <1>1 DEF Kept, PortInv, Shape
  <1>3. \A p \in Ports : Key(p)' = Key(p)
    BY DEF Kept, Key
  <1>4. Served'
    BY DEF Kept, PortInv, Served
  <1>5. Attached'
    BY <1>1, <1>3 DEF Kept, PortInv, Attached
  <1>6. \A i \in Conns : Reported(i)
    BY DEF Kept, Reported
  <1>7. ASSUME NEW p \in Ports, NEW r \in ports[p].requests
        PROVE  /\ Child(p, r)' = Child(p, r) /\ r.conn.slot \in Conns
               /\ r.conn = ConnId(r.conn.slot)'
               /\ conns'[r.conn.slot].state = "Open" /\ conns'[r.conn.slot].port = Key(p)'
    <2>1. /\ r.conn.slot \in Conns /\ r.conn = ConnId(r.conn.slot)
          /\ conns[r.conn.slot].state = "Open" /\ conns[r.conn.slot].port = Key(p)
      BY DEF PortInv, Backed
    <2>2. conns'[r.conn.slot].client = conns[r.conn.slot].client /\ ports'[p].server = ports[p].server
      BY <2>1 DEF Kept
    <2>3. Child(p, r)' = Child(p, r)
      BY <1>3, <2>2, ZenonT(30) DEF Child
    <2>4. ConnId(r.conn.slot)' = ConnId(r.conn.slot)
      BY <2>1, ZenonT(30) DEF Kept, ConnId
    <2> QED BY <1>3, <2>1, <2>3, <2>4, ZenonT(30) DEF Kept
  <1> QED BY <1>1, <1>2, <1>3, <1>4, <1>5, <1>6, <1>7, ZenonT(30)

(* An operation that leaves the requests alone. *)
LEMMA QuietInv ==
  ASSUME PortInv, Kept, taken' = taken, children' \subseteq children,
         \A k \in children' : k \in delivered => k \in delivered',
         \A p \in Ports : /\ ports'[p].requests = ports[p].requests
                          /\ ports'[p].nextSeq \in {ports[p].nextSeq, ports[p].nextSeq + 1}
  PROVE  PortInv' /\ \A i \in Conns : Reported(i)
  <1>1. /\ Shape' /\ Served' /\ Attached' /\ Conns' = Conns
        /\ \A i \in Conns : Reported(i)
        /\ \A p \in Ports : Key(p)' = Key(p)
        /\ \A p \in Ports : \A r \in ports[p].requests :
             /\ Child(p, r)' = Child(p, r) /\ r.conn.slot \in Conns
             /\ r.conn = ConnId(r.conn.slot)'
             /\ conns'[r.conn.slot].state = "Open" /\ conns'[r.conn.slot].port = Key(p)'
    BY KeptInv
  <1>2. Ordered'
    <2> SUFFICES ASSUME NEW p \in Ports
                 PROVE  /\ ports'[p].live =>
                             /\ ports'[p].nextSeq \in Nat /\ taken[p] \in Nat /\ taken[p] < ports'[p].nextSeq
                             /\ \A r \in ports[p].requests : r.seq \in Nat /\ taken[p] < r.seq /\ r.seq < ports'[p].nextSeq
                             /\ \A q, r \in ports[p].requests : q.seq = r.seq => q = r
                        /\ ~ports'[p].live => ports[p].requests = {}
      BY DEF Ordered
    <2>1. ports'[p].live = ports[p].live
      BY DEF Kept
    <2> QED BY <2>1 DEF PortInv, Ordered
  <1>3. Backed'
    BY <1>1 DEF Backed
  <1>4. Carried'
    BY <1>1 DEF PortInv, Carried, Kept
  <1> QED BY <1>1, <1>2, <1>3, <1>4, ZenonT(30) DEF PortInv
-----------------------------------------------------------------------------
(* The actions. *)

(* The initial states: nothing is registered, connected or queued. *)
LEMMA InitInv == Init => PortInv
  <1> SUFFICES ASSUME Init PROVE PortInv
    OBVIOUS
  <1>1. /\ \A p \in Ports : ports[p] = EmptyPort(0) /\ taken[p] = 0
        /\ \A i \in Conns : conns[i] = EmptyConn(0)
        /\ children = {} /\ gone = {}
    BY ZenonT(30) DEF Init
  <1>2. Shape
    BY <1>1, EmptyShapes, ZenonT(30) DEF Init, Shape
  <1>3. Ordered /\ Served /\ Attached /\ Backed
    BY <1>1, EmptyShapes DEF Ordered, Served, Attached, Backed
  <1> QED BY <1>1, <1>2, <1>3 DEF PortInv, Carried

(* Operations that change no more than waits, bits, rights or an event count. *)
LEMMA UnmovedInv ==
  ASSUME PortInv, bound' = bound, ports' = ports, gone' = gone, taken' = taken,
         conns' = [i \in Conns |-> conns'[i]],
         \A i \in Conns : \/ conns'[i] = conns[i]
                          \/ \E n : conns'[i] = [conns[i] EXCEPT !.events = n],
         children' \subseteq children,
         \A k \in children' : k \in delivered => k \in delivered'
  PROVE  PortInv' /\ \A i \in Conns : Reported(i)
  <1>1. Shape
    BY DEF PortInv
  <1>2. Kept
    <2>1. ASSUME NEW i \in Conns
          PROVE  /\ DOMAIN conns'[i] = ConnFields /\ conns'[i].gen = conns[i].gen
                 /\ conns'[i].state = conns[i].state /\ conns'[i].port = conns[i].port
                 /\ conns'[i].client = conns[i].client
      <3>1. DOMAIN conns[i] = ConnFields
        BY <1>1 DEF Shape
      <3> QED BY <3>1 DEF ConnFields
    <2> QED BY <1>1, <2>1 DEF Kept, Shape
  <1> QED BY <1>2, QuietInv

(* Register: with no port live, nothing is queued and no connection is attached. *)
LEMMA RegisterInv ==
  ASSUME PortInv, bound' = bound, NEW s, Register(s)
  PROVE  PortInv' /\ \A i \in Conns : Reported(i)
  <1>1. PICK p \in Ports :
          /\ ports' = [ports EXCEPT ![p] = [EmptyPort(@.gen + 1) EXCEPT !.live = TRUE, !.server = s]]
          /\ taken' = [taken EXCEPT ![p] = 0]
    BY ZenonT(30) DEF Register
  <1>2. /\ s \notin gone /\ gone' = gone /\ conns' = conns /\ children' = children /\ delivered' = delivered
        /\ \A q \in Ports : ~ports[q].live
    BY DEF Register
  <1>3. Shape /\ Conns' = Conns
    BY DEF PortInv, Conns
  <1>4. /\ ports' = [q \in Ports |-> ports'[q]] /\ taken' = [q \in Ports |-> taken'[q]] /\ taken'[p] = 0
        /\ \A q \in Ports \ {p} : ports'[q] = ports[q] /\ taken'[q] = taken[q]
        /\ ports'[p] = [EmptyPort(ports[p].gen + 1) EXCEPT !.live = TRUE, !.server = s]
    BY <1>1, <1>3, ZenonT(30) DEF Shape
  <1>5. /\ DOMAIN ports'[p] = PortFields /\ ports'[p].requests = {} /\ ports'[p].nextSeq = 1
        /\ ports'[p].server = s /\ ports'[p].live
    BY <1>4, EmptyShapes DEF PortFields
  <1>6. Shape'
    BY <1>2, <1>3, <1>4, <1>5, ZenonT(30) DEF Shape
  <1>7. \A q \in Ports : ports[q].requests = {} /\ ports'[q].requests = {}
    BY <1>2, <1>4, <1>5, ZenonT(30) DEF PortInv, Ordered
  <1>8. Ordered' /\ Served' /\ Backed'
    <2>1. \A q \in Ports : ports'[q].live => q = p
      BY <1>2, <1>4
    <2>2. Ordered'
      <3> SUFFICES ASSUME NEW q \in Ports, ports'[q].live
                   PROVE  ports'[q].nextSeq \in Nat /\ taken'[q] \in Nat /\ taken'[q] < ports'[q].nextSeq
        BY <1>7 DEF Ordered
      <3>1. q = p
        BY <2>1
      <3>2. ports'[q].nextSeq = 1 /\ taken'[q] = 0
        BY <1>4, <1>5, <3>1, ZenonT(30)
      <3> QED BY <3>2
    <2>3. Served'
      BY <1>2, <1>5, <2>1, ZenonT(30) DEF Served
    <2> QED BY <1>7, <2>2, <2>3 DEF Backed
  <1>9. Attached' /\ Carried'
    <2>1. \A i \in Conns : conns[i].state \in {"Free", "ServerGone"}
      BY <1>2 DEF PortInv, Attached
    <2>2. \A k \in children : k.from \notin gone /\ k.to \notin gone /\ k \in delivered
      BY <1>7 DEF PortInv, Carried
    <2> QED BY <1>2, <1>3, <2>1, <2>2, ZenonT(30) DEF Attached, Carried
  <1>10. \A i \in Conns : Reported(i)
    BY <1>2 DEF Reported
  <1> QED BY <1>6, <1>8, <1>9, <1>10 DEF PortInv

(* Connect: a free slot has no request, and the new connection has a live port. *)
LEMMA ConnectInv ==
  ASSUME PortInv, bound' = bound, NEW c, NEW p \in Ports, Connect(c, p)
  PROVE  PortInv' /\ \A i \in Conns : Reported(i)
  <1>1. PICK i \in FreeConns :
          conns' = [conns EXCEPT ![i] = [EmptyConn(@.gen + 1) EXCEPT
                      !.state = "Open", !.port = Key(p), !.client = c]]
    BY ZenonT(30) DEF Connect
  <1>2. /\ ports' = ports /\ gone' = gone /\ taken' = taken /\ children' = children
        /\ delivered' = delivered /\ ports[p].live
    BY DEF Connect
  <1>3. Shape /\ Conns' = Conns /\ i \in Conns /\ conns[i].state = "Free"
    BY DEF PortInv, Conns, FreeConns
  <1>4. /\ conns' = [j \in Conns |-> conns'[j]] /\ \A j \in Conns \ {i} : conns'[j] = conns[j]
        /\ conns'[i] = [EmptyConn(conns[i].gen + 1) EXCEPT
                          !.state = "Open", !.port = Key(p), !.client = c]
    BY <1>1, <1>3 DEF Shape
  <1>5. DOMAIN conns'[i] = ConnFields /\ conns'[i].port = Key(p)
    BY <1>4, EmptyShapes DEF ConnFields
  <1>6. Shape'
    BY <1>2, <1>3, <1>4, <1>5, ZenonT(30) DEF Shape
  <1>7. Ordered' /\ Served'
    BY <1>2 DEF PortInv, Ordered, Served
  <1>8. \A q \in Ports : Key(q)' = Key(q)
    BY <1>2 DEF Key
  <1>9. \A q \in Ports : \A r \in ports[q].requests :
          r.conn.slot \in Conns \ {i} /\ conns'[r.conn.slot] = conns[r.conn.slot]
    BY <1>3, <1>4, ZenonT(30) DEF PortInv, Backed
  <1>10. Backed'
    BY <1>2, <1>3, <1>8, <1>9 DEF PortInv, Backed, ConnId
  <1>11. Attached'
    <2> SUFFICES ASSUME NEW j \in Conns, conns'[j].state \notin {"Free", "ServerGone"}
                 PROVE  \E q \in Ports : ports[q].live /\ conns'[j].port = Key(q)
      BY <1>2, <1>3, <1>8, ZenonT(30) DEF Attached
    <2>1. CASE j = i
      BY <1>2, <1>5, <2>1
    <2>2. CASE j # i
      BY <1>4, <2>2 DEF PortInv, Attached
    <2> QED BY <2>1, <2>2, ZenonT(30)
  <1>12. \A q \in Ports : \A r \in ports[q].requests : Child(q, r)' = Child(q, r)
    BY <1>2, <1>8, <1>9, ZenonT(30) DEF Child
  <1>13. Carried'
    BY <1>2, <1>12 DEF PortInv, Carried
  <1>14. \A j \in Conns : Reported(j)
    BY <1>3, <1>4, ZenonT(30) DEF Reported
  <1> QED BY <1>6, <1>7, <1>10, <1>11, <1>13, <1>14 DEF PortInv

(* Send: the request gets the next number, its child a sender and a server that run. *)
LEMMA SendInv ==
  ASSUME PortInv, bound' = bound, NEW c, NEW i \in Conns, NEW moves \in BOOLEAN, Send(c, i, moves)
  PROVE  PortInv' /\ \A j \in Conns : Reported(j)
  <1>1. PICK p : p = conns[i].port.slot
    OBVIOUS
  <1>2. PICK r : r = [seq |-> ports[p].nextSeq, conn |-> ConnId(i), moves |-> moves]
    BY ZenonT(30)
  <1>3. /\ ports' = [ports EXCEPT ![p].requests = @ \cup {r}, ![p].nextSeq = @ + 1,
                                  ![p].transfers = IF moves THEN @ + 1 ELSE @]
        /\ conns' = [conns EXCEPT ![i].outstanding = @ + 1,
                                  ![i].transfers = IF moves THEN @ + 1 ELSE @]
    BY <1>1, <1>2, ZenonT(30) DEF Send
  <1>4. /\ children' = IF moves THEN children \cup {Child(p, r)} ELSE children
        /\ conns[i].state = "Open" /\ conns[i].client = c /\ c \notin gone
        /\ gone' = gone /\ taken' = taken /\ delivered' = delivered
    BY <1>1, <1>2, ZenonT(30) DEF Send, ClientConn, Runs
  <1>5. p \in Ports /\ ports[p].live /\ conns[i].port = Key(p)
    <2>1. PICK q \in Ports : ports[q].live /\ conns[i].port = Key(q)
      BY <1>4 DEF PortInv, Attached
    <2> QED BY <1>1, <2>1 DEF Key
  <1>6. r.seq = ports[p].nextSeq /\ r.conn = ConnId(i) /\ r.moves = moves /\ r.conn.slot = i
    BY <1>2 DEF ConnId
  <1>7. Shape /\ Conns' = Conns
    BY DEF PortInv, Conns
  <1>8. /\ ports' = [q \in Ports |-> ports'[q]] /\ \A q \in Ports \ {p} : ports'[q] = ports[q]
        /\ ports'[p] = [ports[p] EXCEPT !.requests = @ \cup {r}, !.nextSeq = @ + 1,
                                        !.transfers = IF moves THEN @ + 1 ELSE @]
    BY <1>3, <1>5, <1>7, ZenonT(30) DEF Shape
  <1>9. /\ DOMAIN ports'[p] = PortFields /\ ports'[p].live = ports[p].live
        /\ ports'[p].gen = ports[p].gen /\ ports'[p].server = ports[p].server
        /\ ports'[p].requests = ports[p].requests \cup {r} /\ ports'[p].nextSeq = ports[p].nextSeq + 1
    <2>1. DOMAIN ports[p] = PortFields
      BY <1>5, <1>7 DEF Shape
    <2> QED BY <1>8, <2>1 DEF PortFields
  <1>10. /\ conns' = [j \in Conns |-> conns'[j]] /\ \A j \in Conns \ {i} : conns'[j] = conns[j]
        /\ conns'[i] = [conns[i] EXCEPT !.outstanding = @ + 1, !.transfers = IF moves THEN @ + 1 ELSE @]
    BY <1>3, <1>7, ZenonT(30) DEF Shape
  <1>11. /\ DOMAIN conns'[i] = ConnFields /\ conns'[i].gen = conns[i].gen
        /\ conns'[i].state = conns[i].state /\ conns'[i].port = conns[i].port
        /\ conns'[i].client = conns[i].client
    BY <1>7, <1>10 DEF Shape, ConnFields
  <1>12. Kept
    BY <1>4, <1>7, <1>8, <1>9, <1>10, <1>11, ZenonT(30) DEF Kept, Shape
  <1>13. /\ Shape' /\ Served' /\ Attached' /\ Conns' = Conns
         /\ \A j \in Conns : Reported(j)
         /\ \A q \in Ports : Key(q)' = Key(q)
         /\ \A q \in Ports : \A x \in ports[q].requests :
              /\ Child(q, x)' = Child(q, x) /\ x.conn.slot \in Conns
              /\ x.conn = ConnId(x.conn.slot)'
              /\ conns'[x.conn.slot].state = "Open" /\ conns'[x.conn.slot].port = Key(q)'
    BY <1>12, KeptInv, ZenonT(30)
  <1>14. Ordered'
    <2>1. /\ ports[p].nextSeq \in Nat /\ taken[p] \in Nat /\ taken[p] < ports[p].nextSeq
          /\ \A x \in ports[p].requests : x.seq \in Nat /\ taken[p] < x.seq /\ x.seq < ports[p].nextSeq
          /\ \A x, y \in ports[p].requests : x.seq = y.seq => x = y
      BY <1>5, ZenonT(30) DEF PortInv, Ordered
    <2>2. /\ ports'[p].nextSeq \in Nat /\ taken[p] \in Nat /\ taken[p] < ports'[p].nextSeq
          /\ \A x \in ports'[p].requests : x.seq \in Nat /\ taken[p] < x.seq /\ x.seq < ports'[p].nextSeq
      BY <1>6, <1>9, <2>1
    <2>3. \A x, y \in ports'[p].requests : x.seq = y.seq => x = y
      BY <1>6, <1>9, <2>1
    <2>4. ASSUME NEW q \in Ports
          PROVE  /\ ports'[q].live =>
                      /\ ports'[q].nextSeq \in Nat /\ taken[q] \in Nat /\ taken[q] < ports'[q].nextSeq
                      /\ \A x \in ports'[q].requests : x.seq \in Nat /\ taken[q] < x.seq /\ x.seq < ports'[q].nextSeq
                      /\ \A x, y \in ports'[q].requests : x.seq = y.seq => x = y
                 /\ ~ports'[q].live => ports'[q].requests = {}
      <3>1. CASE q = p
        BY <1>5, <1>9, <2>2, <2>3, <3>1, ZenonT(30)
      <3>2. CASE q # p
        BY <1>8, <3>2 DEF PortInv, Ordered
      <3> QED BY <3>1, <3>2
    <2> QED BY <1>4, <2>4 DEF Ordered
  <1>15. Backed'
    <2>1. /\ r.conn = ConnId(i)' /\ conns'[i].state = "Open" /\ conns'[i].port = Key(p)'
      BY <1>4, <1>5, <1>6, <1>11, <1>13, ZenonT(30) DEF ConnId
    <2> SUFFICES ASSUME NEW q \in Ports, NEW x \in ports'[q].requests
                 PROVE  /\ x.conn.slot \in Conns /\ x.conn = ConnId(x.conn.slot)'
                        /\ conns'[x.conn.slot].state = "Open" /\ conns'[x.conn.slot].port = Key(q)'
      BY <1>13, ZenonT(30) DEF Backed
    <2>2. CASE x \in ports[q].requests
      BY <1>13, <2>2, ZenonT(30)
    <2>3. CASE x \notin ports[q].requests
      <3>1. q = p /\ x = r
        BY <1>8, <1>9, <2>3, ZenonT(30)
      <3> QED BY <1>6, <2>1, <3>1
    <2> QED BY <2>2, <2>3, ZenonT(30)
  <1>16. Child(p, r).from = c /\ Child(p, r).to = ports[p].server /\ Child(p, r)' = Child(p, r)
    BY <1>4, <1>5, <1>6, <1>9, <1>11, <1>13, ZenonT(30) DEF Child
  <1>17. ports[p].server \notin gone
    BY <1>5 DEF PortInv, Served
  <1>18. \A q \in Ports : ports[q].requests \subseteq ports'[q].requests
    BY <1>8, <1>9, ZenonT(30)
  <1>19. Carried'
    <2> SUFFICES ASSUME NEW k \in children'
                 PROVE  /\ k.from \notin gone /\ k.to \notin gone
                        /\ k \in delivered \/ \E q \in Ports : \E x \in ports'[q].requests : x.moves /\ k = Child(q, x)'
      BY <1>4, ZenonT(30) DEF Carried
    <2>1. CASE k \in children
      BY <1>13, <1>18, <2>1 DEF PortInv, Carried
    <2>2. CASE k \notin children
      <3>1. moves /\ k = Child(p, r)
        BY <1>4, <2>2, ZenonT(30)
      <3>2. r \in ports'[p].requests /\ r.moves
        BY <1>6, <1>9, <3>1, ZenonT(30)
      <3> QED BY <1>4, <1>5, <1>16, <1>17, <3>1, <3>2, ZenonT(30)
    <2> QED BY <2>1, <2>2
  <1> QED BY <1>13, <1>14, <1>15, <1>19, ZenonT(30) DEF PortInv

(* RecvNotice: a closing connection has no queued request. *)
LEMMA RecvNoticeInv ==
  ASSUME PortInv, bound' = bound, NEW s, NEW p \in Ports, RecvNotice(s, p)
  PROVE  PortInv' /\ \A j \in Conns : Reported(j)
  <1>1. PICK i \in Notices(p) : conns' = [conns EXCEPT ![i] = EmptyConn(@.gen)]
    BY ZenonT(30) DEF RecvNotice
  <1>2. /\ ports' = ports /\ gone' = gone /\ taken' = taken /\ children' = children
        /\ delivered' = delivered
    BY DEF RecvNotice
  <1>3. Shape /\ Conns' = Conns /\ i \in Conns /\ conns[i].state = "ClosePending"
    BY DEF PortInv, Conns, Notices, BoundTo
  <1>4. /\ conns' = [j \in Conns |-> conns'[j]] /\ \A j \in Conns \ {i} : conns'[j] = conns[j]
        /\ conns'[i] = EmptyConn(conns[i].gen)
    BY <1>1, <1>3, ZenonT(30) DEF Shape
  <1>5. Shape'
    <2>1. \A j \in Conns : DOMAIN conns'[j] = ConnFields
      <3>1. DOMAIN conns'[i] = ConnFields
        BY <1>4, EmptyShapes, ZenonT(30)
      <3>2. \A j \in Conns \ {i} : DOMAIN conns'[j] = ConnFields
        BY <1>3, <1>4, ZenonT(30) DEF Shape
      <3> QED BY <3>1, <3>2, ZenonT(30)
    <2> QED BY <1>2, <1>3, <1>4, <2>1, ZenonT(30) DEF Shape
  <1>6. Ordered' /\ Served'
    BY <1>2 DEF PortInv, Ordered, Served
  <1>7. \A q \in Ports : Key(q)' = Key(q)
    BY <1>2 DEF Key
  <1>8. \A q \in Ports : \A r \in ports[q].requests :
          r.conn.slot \in Conns \ {i} /\ conns'[r.conn.slot] = conns[r.conn.slot]
    BY <1>3, <1>4, ZenonT(30) DEF PortInv, Backed
  <1>9. Backed'
    BY <1>2, <1>3, <1>7, <1>8 DEF PortInv, Backed, ConnId
  <1>10. Attached'
    BY <1>2, <1>3, <1>4, <1>7, EmptyShapes DEF PortInv, Attached
  <1>11. \A q \in Ports : \A r \in ports[q].requests : Child(q, r)' = Child(q, r)
    BY <1>2, <1>7, <1>8, ZenonT(30) DEF Child
  <1>12. Carried'
    BY <1>2, <1>11 DEF PortInv, Carried
  <1>13. \A j \in Conns : Reported(j)
    <2>1. conns'[i].state = "Free"
      BY <1>4, EmptyShapes, ZenonT(30)
    <2>2. Reported(i)
      BY <1>3, <2>1, ZenonT(30) DEF Reported
    <2>3. \A j \in Conns \ {i} : Reported(j)
      BY <1>4, ZenonT(30) DEF Reported
    <2> QED BY <2>2, <2>3, ZenonT(30)
  <1> QED BY <1>5, <1>6, <1>9, <1>10, <1>12, <1>13, ZenonT(30) DEF PortInv

(* RecvRequest: what is left is younger than what was taken, and the child of the
   request is the server's. *)
LEMMA RecvRequestInv ==
  ASSUME PortInv, bound' = bound, NEW s, NEW p \in Ports, RecvRequest(s, p)
  PROVE  PortInv' /\ \A j \in Conns : Reported(j)
  <1>1. PICK r \in ports[p].requests :
          /\ Oldest(p, r)
          /\ ports' = [ports EXCEPT ![p].requests = @ \ {r}, ![p].transfers = IF r.moves THEN @ - 1 ELSE @]
          /\ conns' = IF conns[r.conn.slot].gen = r.conn.gen
                        THEN [conns EXCEPT ![r.conn.slot].outstanding = @ - 1,
                                           ![r.conn.slot].transfers = IF r.moves THEN @ - 1 ELSE @]
                        ELSE conns
          /\ delivered' = IF r.moves THEN delivered \cup ({Child(p, r)} \cap children) ELSE delivered
          /\ taken' = [taken EXCEPT ![p] = r.seq]
    BY ZenonT(30) DEF RecvRequest
  <1>2. gone' = gone /\ children' = children /\ ports[p].live
    BY DEF RecvRequest, Serves
  <1>3. Shape /\ Conns' = Conns
    BY DEF PortInv, Conns
  <1>4. /\ ports' = [q \in Ports |-> ports'[q]] /\ \A q \in Ports \ {p} : ports'[q] = ports[q]
        /\ ports'[p] = [ports[p] EXCEPT !.requests = @ \ {r}, !.transfers = IF r.moves THEN @ - 1 ELSE @]
    BY <1>1, <1>3, ZenonT(30) DEF Shape
  <1>5. /\ DOMAIN ports'[p] = PortFields /\ ports'[p].live = ports[p].live
        /\ ports'[p].gen = ports[p].gen /\ ports'[p].server = ports[p].server
        /\ ports'[p].requests = ports[p].requests \ {r} /\ ports'[p].nextSeq = ports[p].nextSeq
    <2>1. DOMAIN ports[p] = PortFields
      BY <1>3 DEF Shape
    <2> QED BY <1>4, <2>1 DEF PortFields
  <1>6. PICK i : i = r.conn.slot
    BY ZenonT(30)
  <1>7. i \in Conns /\ DOMAIN conns[i] = ConnFields
    BY <1>3, <1>6 DEF PortInv, Backed, Shape
  <1>8. /\ conns' = [j \in Conns |-> conns'[j]] /\ \A j \in Conns \ {i} : conns'[j] = conns[j]
        /\ \/ conns'[i] = conns[i]
           \/ conns'[i] = [conns[i] EXCEPT !.outstanding = @ - 1, !.transfers = IF r.moves THEN @ - 1 ELSE @]
    BY <1>1, <1>3, <1>6, <1>7, ZenonT(30) DEF Shape
  <1>9. /\ DOMAIN conns'[i] = ConnFields /\ conns'[i].gen = conns[i].gen
        /\ conns'[i].state = conns[i].state /\ conns'[i].port = conns[i].port
        /\ conns'[i].client = conns[i].client
    <2>1. CASE conns'[i] = conns[i]
      BY <1>7, <2>1
    <2>2. CASE conns'[i] # conns[i]
      <3>1. conns'[i] = [conns[i] EXCEPT !.outstanding = @ - 1, !.transfers = IF r.moves THEN @ - 1 ELSE @]
        BY <1>8, <2>2
      <3> QED BY <1>7, <3>1 DEF ConnFields
    <2> QED BY <2>1, <2>2, ZenonT(30)
  <1>10. /\ taken' = [q \in Ports |-> taken'[q]] /\ taken'[p] = r.seq
         /\ \A q \in Ports \ {p} : taken'[q] = taken[q]
    BY <1>1, <1>3, ZenonT(30) DEF Shape
  <1>11. Kept
    <2>1. \A q \in Ports : /\ DOMAIN ports'[q] = PortFields /\ ports'[q].live = ports[q].live
                           /\ ports'[q].gen = ports[q].gen /\ ports'[q].server = ports[q].server
      BY <1>3, <1>4, <1>5, ZenonT(30) DEF Shape
    <2>2. \A j \in Conns : DOMAIN conns[j] = ConnFields /\ (j # i => conns'[j] = conns[j])
      BY <1>3, <1>8 DEF Shape
    <2>3. \A j \in Conns : /\ DOMAIN conns'[j] = ConnFields /\ conns'[j].gen = conns[j].gen
                           /\ conns'[j].state = conns[j].state /\ conns'[j].port = conns[j].port
                           /\ conns'[j].client = conns[j].client
      BY <1>9, <2>2, ZenonT(30)
    <2> QED BY <1>2, <1>4, <1>8, <1>10, <2>1, <2>3, ZenonT(30) DEF Kept
  <1>12. /\ Shape' /\ Served' /\ Attached' /\ Conns' = Conns
         /\ \A j \in Conns : Reported(j)
         /\ \A q \in Ports : Key(q)' = Key(q)
         /\ \A q \in Ports : \A x \in ports[q].requests :
              /\ Child(q, x)' = Child(q, x) /\ x.conn.slot \in Conns
              /\ x.conn = ConnId(x.conn.slot)'
              /\ conns'[x.conn.slot].state = "Open" /\ conns'[x.conn.slot].port = Key(q)'
    BY <1>11, KeptInv, ZenonT(30)
  <1>13. Ordered'
    <2>1. /\ ports[p].nextSeq \in Nat /\ taken[p] \in Nat
          /\ \A x \in ports[p].requests : x.seq \in Nat /\ taken[p] < x.seq /\ x.seq < ports[p].nextSeq
          /\ \A x, y \in ports[p].requests : x.seq = y.seq => x = y
      BY <1>2, ZenonT(30) DEF PortInv, Ordered
    <2>2. \A x \in ports[p].requests \ {r} : r.seq < x.seq
      <3>1. r \in ports[p].requests /\ \A x \in ports[p].requests : r.seq <= x.seq
        BY <1>1, ZenonT(30) DEF Oldest
      <3> QED BY <2>1, <3>1, OlderNumber, ZenonT(30)
    <2>3. ASSUME NEW q \in Ports
          PROVE  /\ ports'[q].live =>
                      /\ ports'[q].nextSeq \in Nat /\ taken'[q] \in Nat /\ taken'[q] < ports'[q].nextSeq
                      /\ \A x \in ports'[q].requests : x.seq \in Nat /\ taken'[q] < x.seq /\ x.seq < ports'[q].nextSeq
                      /\ \A x, y \in ports'[q].requests : x.seq = y.seq => x = y
                 /\ ~ports'[q].live => ports'[q].requests = {}
      <3>1. CASE q = p
        BY <1>2, <1>5, <1>10, <2>1, <2>2, <3>1, ZenonT(30)
      <3>2. CASE q # p
        BY <1>4, <1>10, <3>2 DEF PortInv, Ordered
      <3> QED BY <3>1, <3>2
    <2> QED BY <2>3, ZenonT(30) DEF Ordered
  <1>14. \A q \in Ports : ports'[q].requests \subseteq ports[q].requests
    BY <1>4, <1>5, ZenonT(30)
  <1>15. Backed'
    BY <1>12, <1>14, ZenonT(30) DEF Backed
  <1>16. Carried'
    <2> SUFFICES ASSUME NEW k \in children, k \notin delivered'
                 PROVE  \E q \in Ports : \E x \in ports'[q].requests : x.moves /\ k = Child(q, x)'
      BY <1>2, ZenonT(30) DEF PortInv, Carried
    <2>1. k \notin delivered
      BY <1>1, ZenonT(30)
    <2>2. PICK q \in Ports : \E x \in ports[q].requests : x.moves /\ k = Child(q, x)
      BY <2>1, ZenonT(30) DEF PortInv, Carried
    <2>3. PICK x \in ports[q].requests : x.moves /\ k = Child(q, x)
      BY <2>2, ZenonT(30)
    <2>4. q = p => x # r
      BY <1>1, <2>3
    <2>5. x \in ports'[q].requests
      BY <1>4, <1>5, <2>4, ZenonT(30)
    <2> QED BY <1>12, <2>3, <2>5, ZenonT(30)
  <1> QED BY <1>12, <1>13, <1>15, <1>16 DEF PortInv

(* Disconnect: the requests of the connection go with their children, and its
   client can read the end. *)
LEMMA DisconnectInv ==
  ASSUME PortInv, bound' = bound, NEW s, NEW p \in Ports, NEW i \in Conns, Disconnect(s, p, i)
  PROVE  PortInv' /\ \A j \in Conns : Reported(j)
  <1>1. /\ ports' = [ports EXCEPT ![p] = [ClosedPort(p, {}, {i}) EXCEPT !.nextSeq = ports[p].nextSeq + 1]]
        /\ conns' = [conns EXCEPT ![i].state = "ServerClosed", ![i].outstanding = 0,
                                  ![i].transfers = 0, ![i].closeSeq = ports[p].nextSeq]
    BY DEF Disconnect
  <1>2. /\ gone' = gone /\ taken' = taken /\ delivered' = delivered /\ ports[p].live
        /\ children' = children \ Released({}, {i})
        /\ conns[i].state = "Open" /\ conns[i].port = Key(p)
    BY DEF Disconnect, Serves, BoundTo
  <1>3. Shape /\ Conns' = Conns /\ DOMAIN ports[p] = PortFields /\ DOMAIN conns[i] = ConnFields
    BY ZenonT(30) DEF PortInv, Conns, Shape
  <1>4. /\ ports' = [q \in Ports |-> ports'[q]] /\ \A q \in Ports \ {p} : ports'[q] = ports[q]
        /\ ports'[p] = [ClosedPort(p, {}, {i}) EXCEPT !.nextSeq = ports[p].nextSeq + 1]
    BY <1>1, <1>3, ZenonT(30) DEF Shape
  <1>5. /\ DOMAIN ports'[p] = PortFields /\ ports'[p].live = ports[p].live
        /\ ports'[p].gen = ports[p].gen /\ ports'[p].server = ports[p].server
        /\ ports'[p].requests = ports[p].requests \ Purged(p, {i})
        /\ ports'[p].nextSeq = ports[p].nextSeq + 1
    <2>1. ClosedPort(p, {}, {i}) =
            [ports[p] EXCEPT !.requests = @ \ Purged(p, {i}), !.transfers = @ - Moving(Purged(p, {i})),
                             !.nextSeq = @ + Cardinality({i} \cap BoundTo(p))]
      BY DEF ClosedPort
    <2> QED BY <1>3, <1>4, <2>1, ZenonT(30) DEF PortFields
  <1>6. /\ conns' = [j \in Conns |-> conns'[j]] /\ \A j \in Conns \ {i} : conns'[j] = conns[j]
        /\ conns'[i] = [conns[i] EXCEPT !.state = "ServerClosed", !.outstanding = 0,
                                        !.transfers = 0, !.closeSeq = ports[p].nextSeq]
    BY <1>1, <1>3 DEF Shape
  <1>7. /\ DOMAIN conns'[i] = ConnFields /\ conns'[i].gen = conns[i].gen
        /\ conns'[i].state = "ServerClosed" /\ conns'[i].port = conns[i].port
        /\ conns'[i].client = conns[i].client
    BY <1>3, <1>6 DEF ConnFields
  <1>8. Shape'
    <2>1. \A q \in Ports : DOMAIN ports'[q] = PortFields
      BY <1>3, <1>4, <1>5 DEF Shape
    <2>2. \A j \in Conns : DOMAIN conns'[j] = ConnFields
      BY <1>3, <1>6, <1>7, ZenonT(30) DEF Shape
    <2> QED BY <1>2, <1>3, <1>4, <1>6, <2>1, <2>2 DEF Shape
  <1>9. \A q \in Ports : /\ ports'[q].live = ports[q].live /\ ports'[q].server = ports[q].server
                         /\ Key(q)' = Key(q) /\ ports'[q].requests \subseteq ports[q].requests
                         /\ ports'[q].nextSeq \in {ports[q].nextSeq, ports[q].nextSeq + 1}
    BY <1>4, <1>5, ZenonT(30) DEF Key
  <1>10. Ordered'
    <2> SUFFICES ASSUME NEW q \in Ports
                 PROVE  /\ ports'[q].live =>
                             /\ ports'[q].nextSeq \in Nat /\ taken[q] \in Nat /\ taken[q] < ports'[q].nextSeq
                             /\ \A x \in ports'[q].requests : x.seq \in Nat /\ taken[q] < x.seq /\ x.seq < ports'[q].nextSeq
                             /\ \A x, y \in ports'[q].requests : x.seq = y.seq => x = y
                        /\ ~ports'[q].live => ports'[q].requests = {}
      BY <1>2, ZenonT(30) DEF Ordered
    <2> QED BY <1>9 DEF PortInv, Ordered
  <1>11. Served'
    BY <1>2, <1>9 DEF PortInv, Served
  <1>12. ASSUME NEW q \in Ports, NEW x \in ports[q].requests
         PROVE  x.conn.slot = i => q = p /\ x \in Purged(p, {i})
    <2> SUFFICES ASSUME x.conn.slot = i PROVE q = p /\ x \in Purged(p, {i})
      BY ZenonT(30)
    <2>1. x.conn = ConnId(i) /\ conns[i].port = Key(q)
      BY DEF PortInv, Backed
    <2> QED BY <1>2, <2>1, KeyInjective, ZenonT(30) DEF Purged
  <1>13. \A q \in Ports : \A x \in ports'[q].requests :
           /\ x.conn.slot \in Conns \ {i} /\ x \in ports[q].requests
           /\ conns'[x.conn.slot] = conns[x.conn.slot] /\ Child(q, x)' = Child(q, x)
    <2> SUFFICES ASSUME NEW q \in Ports, NEW x \in ports'[q].requests
                 PROVE  /\ x.conn.slot \in Conns \ {i} /\ x \in ports[q].requests
                        /\ conns'[x.conn.slot] = conns[x.conn.slot] /\ Child(q, x)' = Child(q, x)
      BY ZenonT(30)
    <2>1. x \in ports[q].requests
      BY <1>9
    <2>2. x.conn.slot \in Conns \ {i}
      BY <1>5, <1>12, <2>1, ZenonT(30) DEF PortInv, Backed
    <2> QED BY <1>6, <1>9, <2>1, <2>2, ZenonT(30) DEF Child
  <1>14. Backed'
    <2> SUFFICES ASSUME NEW q \in Ports, NEW x \in ports'[q].requests
                 PROVE  /\ x.conn.slot \in Conns /\ x.conn = ConnId(x.conn.slot)'
                        /\ conns'[x.conn.slot].state = "Open" /\ conns'[x.conn.slot].port = Key(q)'
      BY <1>3, ZenonT(30) DEF Backed
    <2>1. /\ x.conn.slot \in Conns /\ x \in ports[q].requests
          /\ conns'[x.conn.slot] = conns[x.conn.slot]
      BY <1>13, ZenonT(30)
    <2>2. /\ x.conn = ConnId(x.conn.slot)
          /\ conns[x.conn.slot].state = "Open" /\ conns[x.conn.slot].port = Key(q)
      BY <2>1, ZenonT(30) DEF PortInv, Backed
    <2>3. Key(q)' = Key(q)
      BY <1>9, ZenonT(30)
    <2> QED BY <2>1, <2>2, <2>3, ZenonT(30) DEF ConnId
  <1>15. Attached'
    <2> SUFFICES ASSUME NEW j \in Conns, conns'[j].state \notin {"Free", "ServerGone"}
                 PROVE  \E q \in Ports : ports[q].live /\ conns'[j].port = Key(q)
      BY <1>3, <1>9, ZenonT(30) DEF Attached
    <2>1. CASE j = i
      BY <1>2, <1>7, <2>1, ZenonT(30)
    <2>2. CASE j # i
      BY <1>6, <2>2 DEF PortInv, Attached
    <2> QED BY <2>1, <2>2
  <1>16. Carried'
    <2> SUFFICES ASSUME NEW k \in children', k \notin delivered
                 PROVE  \E q \in Ports : \E x \in ports'[q].requests : x.moves /\ k = Child(q, x)'
      BY <1>2, ZenonT(30) DEF PortInv, Carried
    <2>1. PICK q \in Ports : \E x \in ports[q].requests : x.moves /\ k = Child(q, x)
      BY <1>2, ZenonT(30) DEF PortInv, Carried
    <2>2. PICK x \in ports[q].requests : x.moves /\ k = Child(q, x)
      BY <2>1
    <2>3. x \notin Purged(q, {i})
      <3>1. k \notin Released({}, {i})
        BY <1>2
      <3>2. ASSUME x \in Purged(q, {i})
            PROVE  k \in Released({}, {i})
        <4>1. PICK M : M = {y \in ports[q].requests : y.moves /\ (q \in {} \/ y \in Purged(q, {i}))}
          BY ZenonT(30)
        <4>2. k \in {Child(q, y) : y \in M}
          BY <2>2, <3>2, <4>1, ZenonT(30)
        <4> QED BY <4>1, <4>2, ZenonT(30) DEF Released
      <3> QED BY <3>1, <3>2, ZenonT(30)
    <2>4. x \in ports'[q].requests
      BY <1>4, <1>5, <2>3, ZenonT(30)
    <2> QED BY <1>13, <2>2, <2>4, ZenonT(30)
  <1>17. \A j \in Conns : Reported(j)
    BY <1>2, <1>6, <1>7, ZenonT(30) DEF Reported
  <1> QED BY <1>8, <1>10, <1>11, <1>14, <1>15, <1>16, <1>17, ZenonT(30) DEF PortInv

(* Exit: ports, connections and children of the process go with it. *)
LEMMA ExitInv ==
  ASSUME PortInv, bound' = bound, NEW h, Exit(h)
  PROVE  PortInv' /\ \A j \in Conns : Reported(j)
  <1>1. PICK T : T = {p \in Ports : ports[p].live /\ ports[p].server = h}
    BY ZenonT(30)
  <1>2. PICK mine : mine = {i \in Conns : conns[i].client = h /\ conns[i].state \notin {"Free", "ClosePending"}}
    BY ZenonT(30)
  <1>3. PICK S : S = {i \in mine : conns[i].state = "Open"} \ Orphaned(T)
    BY ZenonT(30)
  <1>4. PICK F : F = mine \ S
    BY ZenonT(30)
  <1>5. /\ Closing(T, S, F) /\ children' = {k \in children \ Released(T, S) : h \notin {k.from, k.to}}
        /\ gone' = gone \cup {h} /\ delivered' = delivered \cap children' /\ taken' = taken
    BY <1>1, <1>2, <1>3, <1>4, ZenonT(30) DEF Exit
  <1>6. Closable(T, S, F)
    BY <1>1, <1>2, <1>3, <1>4 DEF Closable
  <1>7. /\ Shape' /\ Ordered' /\ Attached' /\ Backed'
        /\ \A p \in Ports : ports'[p].live =>
             p \notin T /\ ports[p].live /\ ports'[p].server = ports[p].server
        /\ \A p \in Ports : \A r \in ports[p].requests :
             r.moves /\ Child(p, r) \notin Released(T, S) =>
               r \in ports'[p].requests /\ Child(p, r)' = Child(p, r)
        /\ \A i \in Conns : (i \in F => conns[i].client \in gone' \/ conns[i].state # "Open") => Reported(i)
    BY <1>5, <1>6, ClosingInv, ZenonT(30)
  <1>8. \A i \in F : conns[i].client \in gone'
    BY <1>2, <1>4, <1>5, ZenonT(30)
  <1>9. Served'
    BY <1>1, <1>5, <1>7, ZenonT(30) DEF PortInv, Served
  <1>10. Carried'
    <2> SUFFICES ASSUME NEW k \in children'
                 PROVE  /\ k.from \notin gone' /\ k.to \notin gone'
                        /\ k \in delivered' \/ \E p \in Ports : \E r \in ports'[p].requests : r.moves /\ k = Child(p, r)'
      BY ZenonT(30) DEF Carried
    <2>1. k \in children /\ k \notin Released(T, S) /\ k.from # h /\ k.to # h
      BY <1>5, ZenonT(30)
    <2>2. k.from \notin gone' /\ k.to \notin gone'
      BY <1>5, <2>1 DEF PortInv, Carried
    <2>3. CASE k \in delivered
      BY <1>5, <2>2, <2>3, ZenonT(30)
    <2>4. CASE k \notin delivered
      <3>1. PICK p \in Ports : \E r \in ports[p].requests : r.moves /\ k = Child(p, r)
        BY <2>1, <2>4, ZenonT(30) DEF PortInv, Carried
      <3>2. PICK r \in ports[p].requests : r.moves /\ k = Child(p, r)
        BY <3>1
      <3> QED BY <1>7, <2>1, <2>2, <3>2, ZenonT(30)
    <2> QED BY <2>3, <2>4, ZenonT(30)
  <1> QED BY <1>7, <1>8, <1>9, <1>10 DEF PortInv

(* Post and BindWake change a number or a flag of their port. *)
LEMMA PortOnlyInv ==
  ASSUME PortInv, bound' = bound, NEW s, NEW p \in Ports,
         BindWake(s, p) \/ \E i \in Conns : Post(s, p, i)
  PROVE  PortInv' /\ \A j \in Conns : Reported(j)
  <1>1. Shape /\ DOMAIN ports[p] = PortFields
    BY DEF PortInv, Shape
  <1>2. /\ gone' = gone /\ taken' = taken /\ children' = children /\ delivered' = delivered
    BY ZenonT(30) DEF BindWake, Post
  <1>3. CASE BindWake(s, p)
    <2>1. conns' = conns /\ ports' = [ports EXCEPT ![p].wake = TRUE]
      BY <1>3 DEF BindWake
    <2>2. /\ ports' = [q \in Ports |-> ports'[q]] /\ \A q \in Ports \ {p} : ports'[q] = ports[q]
          /\ ports'[p] = [ports[p] EXCEPT !.wake = TRUE]
      BY <1>1, <2>1, ZenonT(30) DEF Shape
    <2>3. /\ DOMAIN ports'[p] = PortFields /\ ports'[p].live = ports[p].live
          /\ ports'[p].gen = ports[p].gen /\ ports'[p].server = ports[p].server
          /\ ports'[p].requests = ports[p].requests /\ ports'[p].nextSeq = ports[p].nextSeq
      BY <1>1, <2>2 DEF PortFields
    <2>4. Kept
      BY <1>1, <1>2, <2>1, <2>2, <2>3, ZenonT(30) DEF Kept, Shape
    <2> QED BY <1>2, <2>2, <2>3, <2>4, QuietInv, ZenonT(30)
  <1>4. ASSUME NEW i \in Conns, Post(s, p, i)
        PROVE  PortInv' /\ \A j \in Conns : Reported(j)
    <2>1. /\ ports' = [ports EXCEPT ![p].nextSeq = @ + 1] /\ conns' = [conns EXCEPT ![i].events = @ + 1]
      BY <1>4 DEF Post
    <2>2. /\ ports' = [q \in Ports |-> ports'[q]] /\ \A q \in Ports \ {p} : ports'[q] = ports[q]
          /\ ports'[p] = [ports[p] EXCEPT !.nextSeq = @ + 1]
      BY <1>1, <2>1 DEF Shape
    <2>3. /\ DOMAIN ports'[p] = PortFields /\ ports'[p].live = ports[p].live
          /\ ports'[p].gen = ports[p].gen /\ ports'[p].server = ports[p].server
          /\ ports'[p].requests = ports[p].requests /\ ports'[p].nextSeq = ports[p].nextSeq + 1
      BY <1>1, <2>2 DEF PortFields
    <2>4. /\ conns' = [j \in Conns |-> conns'[j]] /\ \A j \in Conns \ {i} : conns'[j] = conns[j]
          /\ conns'[i] = [conns[i] EXCEPT !.events = @ + 1] /\ DOMAIN conns[i] = ConnFields
      BY <1>1, <2>1 DEF Shape
    <2>5. /\ DOMAIN conns'[i] = ConnFields /\ conns'[i].gen = conns[i].gen
          /\ conns'[i].state = conns[i].state /\ conns'[i].port = conns[i].port
          /\ conns'[i].client = conns[i].client
      BY <2>4 DEF ConnFields
    <2>6. Kept
      BY <1>1, <1>2, <2>2, <2>3, <2>4, <2>5, ZenonT(30) DEF Kept, Shape
    <2> QED BY <1>2, <2>2, <2>3, <2>6, QuietInv, ZenonT(30)
  <1> QED BY <1>3, <1>4, ZenonT(30)

(* Every step keeps the invariant and reports the end of every open connection. *)
LEMMA StepInv ==
  ASSUME PortInv, [Next]_<<vars, bound>>
  PROVE  PortInv' /\ \A i \in Conns : Reported(i)
  <1>0. Shape /\ conns = [i \in Conns |-> conns[i]]
    BY DEF PortInv, Shape
  <1>1. CASE UNCHANGED <<vars, bound>>
    BY <1>0, <1>1, UnmovedInv, ZenonT(30) DEF vars
  <1>2. ASSUME Step, bound' = bound
        PROVE  PortInv' /\ \A i \in Conns : Reported(i)
    <2>1. ASSUME NEW s \in Servers, Register(s)
          PROVE  PortInv' /\ \A i \in Conns : Reported(i)
      BY <1>2, <2>1, RegisterInv
    <2>2. ASSUME NEW s \in Servers, WaitReady(s) \/ WaitBlocks(s)
          PROVE  PortInv' /\ \A i \in Conns : Reported(i)
      BY <1>0, <1>2, <2>2, UnmovedInv, ZenonT(30) DEF WaitReady, WaitBlocks
    <2>3. ASSUME NEW c \in Clients, NEW p \in Ports, Connect(c, p)
          PROVE  PortInv' /\ \A i \in Conns : Reported(i)
      BY <1>2, <2>3, ConnectInv
    <2>4. ASSUME NEW c \in Clients, NEW i \in Conns, Close(c, i)
          PROVE  PortInv' /\ \A j \in Conns : Reported(j)
      <3>1. Closable({}, {i}, {})
        BY <2>4 DEF Close, Closable, Orphaned
      <3> QED BY <1>2, <2>4, <3>1, EndInv, ZenonT(30) DEF Close
    <2>5. ASSUME NEW c \in Clients, NEW i \in Conns, TakeEnd(c, i)
          PROVE  PortInv' /\ \A j \in Conns : Reported(j)
      <3>1. Closable({}, {}, {i})
        BY <2>5 DEF TakeEnd, Closable, Orphaned
      <3> QED BY <1>2, <2>5, <3>1, EndInv, ZenonT(30) DEF TakeEnd
    <2>6. ASSUME NEW c \in Clients, NEW i \in Conns, TakeEvent(c, i)
          PROVE  PortInv' /\ \A j \in Conns : Reported(j)
      <3>1. conns' = [conns EXCEPT ![i].events = @ - 1]
        BY <2>6 DEF TakeEvent
      <3>2. /\ conns' = [j \in Conns |-> conns'[j]]
            /\ \A j \in Conns : \/ conns'[j] = conns[j]
                                \/ \E n : conns'[j] = [conns[j] EXCEPT !.events = n]
        BY <1>0, <3>1, ZenonT(30)
      <3> QED BY <1>2, <2>6, <3>2, UnmovedInv, ZenonT(30) DEF TakeEvent
    <2>7. ASSUME NEW c \in Clients, NEW i \in Conns,
                 EventBlocks(c, i) \/ \E moves \in BOOLEAN : SendBlocks(c, i, moves)
          PROVE  PortInv' /\ \A j \in Conns : Reported(j)
      <3>1. /\ ports' = ports /\ conns' = conns /\ gone' = gone /\ taken' = taken
            /\ children' = children /\ delivered' = delivered
        BY <2>7, ZenonT(30) DEF EventBlocks, SendBlocks
      <3> QED BY <1>0, <1>2, <3>1, UnmovedInv
    <2>8. ASSUME NEW c \in Clients, NEW i \in Conns, NEW moves \in BOOLEAN, Send(c, i, moves)
          PROVE  PortInv' /\ \A j \in Conns : Reported(j)
      BY <1>2, <2>8, SendInv, ZenonT(30)
    <2>9. ASSUME NEW s \in Servers, NEW p \in Ports, RecvNotice(s, p)
          PROVE  PortInv' /\ \A i \in Conns : Reported(i)
      BY <1>2, <2>9, RecvNoticeInv
    <2>10. ASSUME NEW s \in Servers, NEW p \in Ports, RecvRequest(s, p)
           PROVE  PortInv' /\ \A i \in Conns : Reported(i)
      BY <1>2, <2>10, RecvRequestInv
    <2>11. ASSUME NEW s \in Servers, NEW p \in Ports, RecvEmpty(s, p)
           PROVE  PortInv' /\ \A i \in Conns : Reported(i)
      <3>1. /\ ports' = ports /\ conns' = conns /\ gone' = gone /\ taken' = taken
            /\ children' = children /\ delivered' = delivered
        BY <2>11 DEF RecvEmpty
      <3> QED BY <1>0, <1>2, <3>1, UnmovedInv, ZenonT(30)
    <2>12. ASSUME NEW s \in Servers, NEW p \in Ports, BindWake(s, p) \/ \E i \in Conns : Post(s, p, i)
           PROVE  PortInv' /\ \A i \in Conns : Reported(i)
      BY <1>2, <2>12, PortOnlyInv, ZenonT(30)
    <2>13. ASSUME NEW s \in Servers, NEW p \in Ports, NEW i \in Conns, Disconnect(s, p, i)
           PROVE  PortInv' /\ \A j \in Conns : Reported(j)
      BY <1>2, <2>13, DisconnectInv, ZenonT(30)
    <2>14. ASSUME NEW h \in Holders, Exit(h)
           PROVE  PortInv' /\ \A i \in Conns : Reported(i)
      BY <1>2, <2>14, ExitInv
    <2>15. ASSUME NEW h \in Holders, TimesOut(h)
           PROVE  PortInv' /\ \A i \in Conns : Reported(i)
      BY <1>0, <1>2, <2>15, UnmovedInv DEF TimesOut
    <2>16. ASSUME NEW a \in authority, Revoke(a)
           PROVE  PortInv' /\ \A i \in Conns : Reported(i)
      <3>1. /\ ports' = ports /\ conns' = conns /\ gone' = gone /\ taken' = taken
            /\ children' \subseteq children /\ delivered' = delivered \cap children'
        BY <2>16 DEF Revoke
      <3> QED BY <1>0, <1>2, <3>1, UnmovedInv, ZenonT(30)
    <2>17. CASE \E c \in Clients, i \in Conns :
                  \/ Close(c, i) \/ TakeEvent(c, i) \/ TakeEnd(c, i) \/ EventBlocks(c, i)
                  \/ \E moves \in BOOLEAN : Send(c, i, moves) \/ SendBlocks(c, i, moves)
      BY <2>4, <2>5, <2>6, <2>7, <2>8, <2>17, ZenonT(30)
    <2>18. CASE \E s \in Servers, p \in Ports :
                  \/ RecvNotice(s, p) \/ RecvRequest(s, p) \/ RecvEmpty(s, p) \/ BindWake(s, p)
                  \/ \E i \in Conns : Post(s, p, i) \/ Disconnect(s, p, i)
      BY <2>9, <2>10, <2>11, <2>12, <2>13, <2>18, ZenonT(30)
    <2> QED BY <1>2, <2>1, <2>2, <2>3, <2>14, <2>15, <2>16, <2>17, <2>18, ZenonT(30) DEF Step
  <1> QED BY <1>1, <1>2, ZenonT(30) DEF Next

-----------------------------------------------------------------------------
(* The theorems. *)

(* The invariant holds in every reachable state. *)
THEOREM PortInvariance == Spec => []PortInv
  <1>1. PortInv /\ [Next]_<<vars, bound>> => PortInv'
    BY StepInv
  <1> QED BY <1>1, InitInv, PTL DEF Spec

(* Whatever the number of ports, clients and connections, requests are delivered
   in the order in which they were sent, each at most once (recv). *)
THEOREM DeliveredInOrderCorrect == Spec => []DeliveredInOrder
  <1>1. PortInv => DeliveredInOrder
    <2> SUFFICES ASSUME PortInv, NEW p \in Ports, NEW r \in ports[p].requests
                 PROVE  r.seq > taken[p]
      BY DEF DeliveredInOrder
    <2>1. ports[p].live
      BY ZenonT(30) DEF PortInv, Ordered
    <2> QED BY <2>1 DEF PortInv, Ordered
  <1> QED BY <1>1, PortInvariance, PTL

(* A capability that SEND installed is live only while its request is queued or
   once RECV gave it to the server, and never outlives either process: every way
   a request is dropped releases its child. *)
THEOREM ChildrenAccountedCorrect == Spec => []ChildrenAccounted
  <1>1. PortInv => ChildrenAccounted
    <2> SUFFICES ASSUME PortInv, NEW k \in children
                 PROVE  /\ k.from \notin gone /\ k.to \notin gone
                        /\ \/ k \in delivered
                           \/ \E p \in Ports : Key(p) = k.port /\ \E r \in ports[p].requests : r.seq = k.seq /\ r.moves
      BY ZenonT(30) DEF ChildrenAccounted
    <2>1. ASSUME NEW p \in Ports, NEW r, k = Child(p, r)
          PROVE  Key(p) = k.port /\ r.seq = k.seq
      BY <2>1 DEF Child
    <2> QED BY <2>1, ZenonT(30) DEF PortInv, Carried
  <1> QED BY <1>1, PortInvariance, PTL

(* An open connection ends in a state that tells its client or its server, unless
   the client exits, and a slot in use keeps its identity. *)
THEOREM EndsAreReportedCorrect == Spec => EndsAreReported
  <1>1. PortInv /\ [Next]_<<vars, bound>> =>
          [\A i \in Conns :
             /\ conns[i].state = "Open" /\ conns'[i].state = "Free" => conns[i].client \in gone'
             /\ conns[i].state # "Free" /\ conns'[i].state # "Free" =>
                  /\ conns'[i].gen = conns[i].gen /\ conns'[i].client = conns[i].client
                  /\ conns[i].state # conns'[i].state =>
                       conns[i].state = "Open" \/ conns'[i].state = "ServerGone"]_vars
    BY StepInv DEF Reported
  <1> QED BY <1>1, PortInvariance, PTL DEF Spec, EndsAreReported
=============================================================================
