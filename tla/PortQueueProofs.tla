-------------------------- MODULE PortQueueProofs --------------------------
(***************************************************************************)
(* Queues, waiters and signals of the port engine: an invariant on top of   *)
(* PortInv.  What is counted is what is queued, who is blocked waits for    *)
(* something that has not happened, and work that arrives sets a bit.  Here *)
(* are its definition, the actions that move no request and those that send *)
(* and receive one; the actions that end connections, and the theorems, are *)
(* in PortWakeProofs.                                                       *)
(***************************************************************************)
EXTENDS PortInvariant, FiniteSetTheorems, TLAPS

(* The provers have thirty seconds for a leaf. *)
USE SMTT(30), ZenonT(30)

(* The queued requests of a connection. *)
Queued(i) == UNION {{r \in ports[p].requests : r.conn = ConnId(i)} : p \in Ports}

(* The counters of a port are those of its queue, within their limits. *)
PortCounted(p) ==
  /\ IsFiniteSet(ports[p].requests) /\ ports[p].transfers = Moving(ports[p].requests)
  /\ ports[p].transfers <= MaxTransfers /\ Cardinality(ports[p].requests) <= RequestDepth

(* The counters of a slot of the pool are those of its requests; the slot need not
   be in use. *)
ConnCounted(i) ==
  /\ conns[i].outstanding = Cardinality(Queued(i)) /\ conns[i].outstanding <= MaxOutstanding
  /\ conns[i].transfers = Moving(Queued(i)) /\ conns[i].transfers <= MaxConnTransfers
  /\ conns[i].events \in Nat /\ conns[i].events <= EventDepth

Counted == (\A p \in Ports : PortCounted(p)) /\ (\A i \in Conns : ConnCounted(i))

(* What a blocked holder waits for has not happened, and it is parked on the key
   that is woken when it does. *)
RecvParked(h, p) == ports[p].live /\ ports[p].server = h /\ blocked[h].on = ServerKey(p) /\ ~HasWork(p)

EventParked(h, i) ==
  /\ conns[i].state = "Open" /\ blocked[h].conn = ConnId(i)
  /\ blocked[h].on = ConnKey(i) /\ conns[i].events = 0

SendParked(h, i, p) ==
  /\ conns[i].state = "Open" /\ blocked[h].conn = ConnId(i) /\ conns[i].port = Key(p) /\ ports[p].live
  /\ blocked[h].on = SpaceKey(p) /\ SendFull(i, p, blocked[h].moves)

Parked(h) ==
  /\ blocked[h].op = "recv" => \E p \in Ports : RecvParked(h, p)
  /\ blocked[h].op = "event" => \E i \in Conns : EventParked(h, i)
  /\ blocked[h].op = "send" => \E i \in Conns, p \in Ports : SendParked(h, i, p)
  /\ blocked[h].op = "work" => h \in Servers /\ ready[h] = {}

(* At most one port is live.  Work that arrived since the server of a bound port
   found none has set a bit of the work set. *)
Signalled ==
  /\ \A p, q \in Ports : ports[p].live /\ ports[q].live => p = q
  /\ \A p \in Ports : ports[p].live =>
       /\ ports[p].server \in Servers
       /\ ports[p].wake /\ HasWork(p) /\ drained[ports[p].server] => ready[ports[p].server] # {}

WaitShape ==
  /\ blocked = [h \in Holders |-> blocked[h]] /\ ready = [s \in Servers |-> ready[s]]
  /\ drained = [s \in Servers |-> drained[s]]

QueueInv == WaitShape /\ Counted /\ (\A h \in Holders : Parked(h)) /\ Signalled

(* Arithmetic of the counters: none, one more, one less, at a limit. *)
LEMMA CounterNone == \A n, lim : n = 0 /\ lim \in Nat => n \in Nat /\ n <= lim
  OBVIOUS

(* A counter below its limit stays within it when it grows by one. *)
LEMMA CounterUp ==
  \A n, m, lim : n \in Nat /\ lim \in Nat /\ ~(n >= lim) /\ m = n + 1 => m \in Nat /\ m <= lim /\ m >= n
  OBVIOUS

(* A counter that shrinks by one stays within its limit. *)
LEMMA CounterDown ==
  \A n, m, lim : n \in Nat /\ lim \in Nat /\ n <= lim /\ m = n - 1 => m <= lim /\ (n # 0 => m \in Nat)
  OBVIOUS

(* A counter at its limit is there still when it does not shrink. *)
LEMMA CounterAt ==
  \A n, m, lim : n \in Nat /\ m \in Nat /\ lim \in Nat /\ n >= lim /\ m >= n => m >= lim
  OBVIOUS

(* A counter does not shrink when it stays or grows by one. *)
LEMMA CounterStays ==
  \A n, m, b : n \in Nat /\ m = (IF b THEN n + 1 ELSE n) => m \in Nat /\ m >= n
  OBVIOUS

(* The same, when it stays. *)
LEMMA CounterSame == \A n : n \in Nat => n >= n
  OBVIOUS

(* A key names one port. *)
LEMMA SameKey == \A p, q : Key(p) = Key(q) => p = q
  BY DEF Key

(* Counting a queue to which a request is added. *)
LEMMA CountAdd ==
  ASSUME NEW R, IsFiniteSet(R), NEW r, r \notin R
  PROVE  /\ IsFiniteSet(R \cup {r}) /\ Cardinality(R) \in Nat /\ Moving(R) \in Nat
         /\ Cardinality(R \cup {r}) = Cardinality(R) + 1
         /\ r.moves => Moving(R \cup {r}) = Moving(R) + 1
         /\ ~r.moves => Moving(R \cup {r}) = Moving(R)
  <1>1. PICK M : M = {x \in R : x.moves}
    BY ZenonT(30)
  <1>2. IsFiniteSet(M) /\ Cardinality(M) \in Nat /\ Cardinality(R) \in Nat
    BY <1>1, FS_Subset, FS_CardinalityType
  <1>3. r.moves => {x \in R \cup {r} : x.moves} = M \cup {r} /\ r \notin M
    BY <1>1
  <1>4. ~r.moves => {x \in R \cup {r} : x.moves} = M
    BY <1>1
  <1>5. Cardinality(M \cup {r}) = IF r \in M THEN Cardinality(M) ELSE Cardinality(M) + 1
    BY <1>2, FS_AddElement, ZenonT(30)
  <1>6. Moving(R) = Cardinality(M)
    BY <1>1 DEF Moving
  <1>7. r.moves => Moving(R \cup {r}) = Moving(R) + 1
    BY <1>3, <1>5, <1>6 DEF Moving
  <1>8. ~r.moves => Moving(R \cup {r}) = Moving(R)
    BY <1>4, <1>6, ZenonT(30) DEF Moving
  <1> QED BY <1>2, <1>6, <1>7, <1>8, FS_AddElement

(* Counting a queue from which requests are dropped. *)
LEMMA CountDrop ==
  ASSUME NEW R, IsFiniteSet(R), NEW X \in SUBSET R
  PROVE  /\ IsFiniteSet(R \ X) /\ Cardinality(R \ X) \in Nat /\ Cardinality(R) \in Nat
         /\ Cardinality(R \ X) <= Cardinality(R)
         /\ Moving(R) \in Nat /\ Moving(X) \in Nat /\ Moving(R \ X) = Moving(R) - Moving(X)
  <1>1. PICK M : M = {x \in R : x.moves}
    BY ZenonT(30)
  <1>2. PICK Y : Y = {x \in X : x.moves}
    BY ZenonT(30)
  <1>3. /\ IsFiniteSet(M) /\ Cardinality(M) \in Nat /\ Cardinality(R) \in Nat
        /\ IsFiniteSet(Y) /\ Cardinality(Y) \in Nat
        /\ IsFiniteSet(R \ X) /\ Cardinality(R \ X) \in Nat /\ Cardinality(R \ X) <= Cardinality(R)
    <2>1. M \in SUBSET R /\ Y \in SUBSET R /\ R \ X \in SUBSET R
      BY <1>1, <1>2
    <2> QED BY <2>1, FS_Subset, FS_CardinalityType
  <1>4. {x \in R \ X : x.moves} = M \ Y /\ M \cap Y = Y
    BY <1>1, <1>2
  <1>5. Cardinality(M \ Y) = Cardinality(M) - Cardinality(M \cap Y)
    BY <1>3, FS_Difference, ZenonT(30)
  <1>6. Moving(R) = Cardinality(M) /\ Moving(X) = Cardinality(Y) /\ Moving(R \ X) = Cardinality(M \ Y)
    BY <1>1, <1>2, <1>4 DEF Moving
  <1> QED BY <1>3, <1>4, <1>5, <1>6, ZenonT(30)

(* Taking one request from a queue. *)
LEMMA CountTake ==
  ASSUME NEW R, IsFiniteSet(R), NEW r \in R
  PROVE  /\ IsFiniteSet(R \ {r}) /\ Cardinality(R) \in Nat /\ Moving(R) \in Nat
         /\ Cardinality(R \ {r}) = Cardinality(R) - 1
         /\ r.moves => Moving(R \ {r}) = Moving(R) - 1
         /\ ~r.moves => Moving(R \ {r}) = Moving(R)
  <1>1. IsFiniteSet(R \ {r}) /\ r \notin R \ {r} /\ (R \ {r}) \cup {r} = R
    BY FS_RemoveElement
  <1>2. /\ Cardinality(R \ {r}) \in Nat /\ Moving(R \ {r}) \in Nat
        /\ Cardinality(R) = Cardinality(R \ {r}) + 1
        /\ r.moves => Moving(R) = Moving(R \ {r}) + 1
        /\ ~r.moves => Moving(R) = Moving(R \ {r})
    <2>1. PICK Q : Q = R \ {r}
      BY ZenonT(30)
    <2>2. IsFiniteSet(Q) /\ r \notin Q /\ Q \cup {r} = R
      BY <1>1, <2>1
    <2>3. /\ IsFiniteSet(Q \cup {r}) /\ Cardinality(Q) \in Nat /\ Moving(Q) \in Nat
          /\ Cardinality(Q \cup {r}) = Cardinality(Q) + 1
          /\ r.moves => Moving(Q \cup {r}) = Moving(Q) + 1
          /\ ~r.moves => Moving(Q \cup {r}) = Moving(Q)
      BY <2>2, CountAdd
    <2> QED BY <2>1, <2>2, <2>3
  <1> QED BY <1>1, <1>2

(* An empty queue. *)
LEMMA CountNone == IsFiniteSet({}) /\ Cardinality({}) = 0 /\ Moving({}) = 0
  <1>1. {r \in {} : r.moves} = {}
    OBVIOUS
  <1> QED BY <1>1, FS_EmptySet DEF Moving

(* The limits are numbers. *)
LEMMA Limits ==
  ASSUME Shape
  PROVE  /\ MaxTransfers \in Nat \ {0} /\ RequestDepth \in Nat \ {0} /\ MaxOutstanding \in Nat \ {0}
         /\ MaxConnTransfers \in Nat \ {0} /\ EventDepth \in Nat \ {0}
  BY PortConstants DEF Shape, MaxOutstanding

(* The requests of a connection are those that name its slot, all in the queue of
   its port. *)
QueuedFacts(i) ==
  /\ Queued(i) = UNION {{r \in ports[p].requests : r.conn.slot = i} : p \in Ports}
  /\ conns[i].state # "Open" => Queued(i) = {}
  /\ \A p \in Ports : conns[i].port = Key(p) =>
       Queued(i) = {r \in ports[p].requests : r.conn.slot = i}

AllQueued == \A i \in Conns : QueuedFacts(i)

(* A request names the slot of an open connection of its port. *)
LEMMA QueuedOf == PortInv => AllQueued
  <1> SUFFICES ASSUME PortInv, NEW i \in Conns PROVE QueuedFacts(i)
    BY DEF AllQueued
  <1>1. \A p \in Ports : \A r \in ports[p].requests : r.conn = ConnId(i) <=> r.conn.slot = i
    BY DEF PortInv, Backed, ConnId
  <1>2. Queued(i) = UNION {{r \in ports[p].requests : r.conn.slot = i} : p \in Ports}
    BY <1>1 DEF Queued
  <1>3. \A p \in Ports : \A r \in ports[p].requests :
          r.conn.slot = i => conns[i].state = "Open" /\ conns[i].port = Key(p)
    BY DEF PortInv, Backed
  <1>4. conns[i].state # "Open" => Queued(i) = {}
    BY <1>2, <1>3
  <1>5. ASSUME NEW p \in Ports, conns[i].port = Key(p)
        PROVE  Queued(i) = {r \in ports[p].requests : r.conn.slot = i}
    <2>1. \A q \in Ports : \A r \in ports[q].requests : r.conn.slot = i => q = p
      BY <1>3, <1>5, SameKey
    <2> QED BY <1>2, <2>1
  <1> QED BY <1>2, <1>4, <1>5 DEF QueuedFacts

(* The requests of a connection are finitely many. *)
LEMMA QueuedFinite ==
  ASSUME PortInv, \A p \in Ports : IsFiniteSet(ports[p].requests), NEW i \in Conns
  PROVE  IsFiniteSet(Queued(i))
  <1>1. CASE conns[i].state # "Open"
    BY <1>1, QueuedOf, FS_EmptySet DEF AllQueued, QueuedFacts
  <1>2. CASE conns[i].state = "Open"
    <2>1. PICK p \in Ports : conns[i].port = Key(p)
      BY <1>2 DEF PortInv, Attached
    <2>2. Queued(i) \in SUBSET ports[p].requests
      BY <2>1, QueuedOf DEF AllQueued, QueuedFacts
    <2> QED BY <2>2, FS_Subset
  <1> QED BY <1>1, <1>2

(* A connection of which neither counters nor requests change stays counted. *)
LEMMA ConnCountedKept ==
  ASSUME PortInv, PortInv', bound' = bound, NEW i \in Conns, ConnCounted(i),
         conns'[i].outstanding = conns[i].outstanding, conns'[i].transfers = conns[i].transfers,
         conns'[i].events \in Nat, conns'[i].events <= EventDepth,
         \A p \in Ports : {r \in ports'[p].requests : r.conn.slot = i} = {r \in ports[p].requests : r.conn.slot = i}
  PROVE  ConnCounted(i)'
  <1>1. i \in Conns' /\ MaxOutstanding' = MaxOutstanding
    BY DEF Conns, MaxOutstanding
  <1>2. Queued(i) = UNION {{r \in ports[p].requests : r.conn.slot = i} : p \in Ports}
    BY QueuedOf DEF AllQueued, QueuedFacts
  <1>3. Queued(i)' = UNION {{r \in ports'[p].requests : r.conn.slot = i} : p \in Ports}
    <2>1. AllQueued'
      BY QueuedOf, PTL
    <2> QED BY <1>1, <2>1 DEF AllQueued, QueuedFacts
  <1>4. Queued(i)' = Queued(i)
    BY <1>2, <1>3
  <1> QED BY <1>1, <1>4 DEF ConnCounted

(* A connection without requests whose counters are zero is counted. *)
LEMMA ConnCountedNone ==
  ASSUME PortInv, PortInv', bound' = bound, NEW i \in Conns,
         conns'[i].outstanding = 0, conns'[i].transfers = 0,
         conns'[i].events \in Nat, conns'[i].events <= EventDepth,
         \A p \in Ports : \A r \in ports'[p].requests : r.conn.slot # i
  PROVE  ConnCounted(i)'
  <1>1. i \in Conns' /\ MaxOutstanding' = MaxOutstanding /\ Shape
    BY DEF Conns, MaxOutstanding, PortInv
  <1>2. Queued(i)' = UNION {{r \in ports'[p].requests : r.conn.slot = i} : p \in Ports}
    <2>1. AllQueued'
      BY QueuedOf, PTL
    <2> QED BY <1>1, <2>1 DEF AllQueued, QueuedFacts
  <1>3. Queued(i)' = {}
    BY <1>2
  <1>4. MaxConnTransfers \in Nat /\ MaxOutstanding' \in Nat
    BY <1>1, Limits
  <1>5. Cardinality(Queued(i)') = 0 /\ Moving(Queued(i)') = 0
    BY <1>3, CountNone
  <1> QED BY <1>1, <1>4, <1>5 DEF ConnCounted

(* A port whose queue and counters stay is still counted. *)
LEMMA PortCountedKept ==
  ASSUME NEW p, PortCounted(p), ports'[p].requests = ports[p].requests, ports'[p].transfers = ports[p].transfers
  PROVE  PortCounted(p)'
  BY DEF PortCounted, Moving

(* The notices of a port. *)
LEMMA NoticesOf == \A p, i : i \in Notices(p) <=> i \in Conns /\ conns[i].state = "ClosePending" /\ conns[i].port = Key(p)
  BY DEF Notices, BoundTo

(* What a step may do to a port, a connection and a queue that a holder waits on,
   when it does not wake the key. *)
ServerKept(keys) ==
  \A p \in Ports : ports[p].live /\ ServerKey(p) \notin keys =>
    /\ ports'[p].live /\ ports'[p].gen = ports[p].gen /\ ports'[p].server = ports[p].server
    /\ HasWork(p)' => HasWork(p)

ConnKept(keys) ==
  \A i \in Conns : conns[i].state = "Open" /\ conns[i].events = 0 /\ ConnKey(i) \notin keys =>
    conns'[i].state = "Open" /\ conns'[i].gen = conns[i].gen /\ conns'[i].events = 0

SpaceKept(keys) ==
  \A i \in Conns, p \in Ports :
    conns[i].state = "Open" /\ conns[i].port = Key(p) /\ ports[p].live /\ SpaceKey(p) \notin keys =>
      /\ conns'[i].state = "Open" /\ conns'[i].gen = conns[i].gen /\ conns'[i].port = conns[i].port
      /\ ports'[p].live /\ ports'[p].gen = ports[p].gen
      /\ \A moves : SendFull(i, p, moves) => SendFull(i, p, moves)'

Woken(keys) ==
  \A h \in Holders :
    \/ blocked'[h] = Running
    \/ /\ blocked'[h] = blocked[h] /\ blocked[h].on \notin keys
       /\ blocked[h].op = "work" => ready'[h] = {}

(* A holder that is not woken goes on waiting for what has not happened. *)
LEMMA WaitsKept ==
  ASSUME bound' = bound, NEW keys, ServerKept(keys), ConnKept(keys), SpaceKept(keys),
         NEW h \in Holders, Parked(h), blocked'[h] = blocked[h], blocked[h].on \notin keys,
         blocked[h].op = "work" => ready'[h] = {}
  PROVE  Parked(h)'
  <1>0. Conns' = Conns /\ Servers' = Servers
    BY DEF Conns, Servers
  <1>1. ASSUME blocked[h].op = "recv" PROVE \E p \in Ports : RecvParked(h, p)'
    <2>1. PICK p \in Ports : RecvParked(h, p)
      BY <1>1 DEF Parked
    <2>2. ServerKey(p) \notin keys /\ ports[p].live
      BY <2>1 DEF RecvParked
    <2>3. /\ ports'[p].live /\ ports'[p].gen = ports[p].gen /\ ports'[p].server = ports[p].server
          /\ HasWork(p)' => HasWork(p)
      BY <2>2 DEF ServerKept
    <2>4. ServerKey(p)' = ServerKey(p)
      BY <2>3 DEF ServerKey, Key
    <2>5. RecvParked(h, p)'
      BY <2>1, <2>3, <2>4 DEF RecvParked
    <2> QED BY <2>5
  <1>2. ASSUME blocked[h].op = "event" PROVE \E i \in Conns : EventParked(h, i)'
    <2>1. PICK i \in Conns : EventParked(h, i)
      BY <1>2 DEF Parked
    <2>2. ConnKey(i) \notin keys /\ conns[i].state = "Open" /\ conns[i].events = 0
      BY <2>1 DEF EventParked
    <2>3. conns'[i].state = "Open" /\ conns'[i].gen = conns[i].gen /\ conns'[i].events = 0
      BY <2>2 DEF ConnKept
    <2>4. ConnKey(i)' = ConnKey(i) /\ ConnId(i)' = ConnId(i)
      BY <2>3 DEF ConnKey, ConnId
    <2>5. EventParked(h, i)'
      BY <2>1, <2>3, <2>4 DEF EventParked
    <2> QED BY <2>5
  <1>3. ASSUME blocked[h].op = "send" PROVE \E i \in Conns, p \in Ports : SendParked(h, i, p)'
    <2>1. PICK i \in Conns, p \in Ports : SendParked(h, i, p)
      BY <1>3 DEF Parked
    <2>2. SpaceKey(p) \notin keys /\ conns[i].state = "Open" /\ conns[i].port = Key(p) /\ ports[p].live
      BY <2>1 DEF SendParked
    <2>3. /\ conns'[i].state = "Open" /\ conns'[i].gen = conns[i].gen /\ conns'[i].port = conns[i].port
          /\ ports'[p].live /\ ports'[p].gen = ports[p].gen
          /\ \A moves : SendFull(i, p, moves) => SendFull(i, p, moves)'
      BY <2>2 DEF SpaceKept
    <2>4. SpaceKey(p)' = SpaceKey(p) /\ ConnId(i)' = ConnId(i) /\ Key(p)' = Key(p)
      BY <2>3 DEF SpaceKey, ConnId, Key
    <2>5. PICK moves : moves = blocked[h].moves
      BY ZenonT(30)
    <2>6. SendFull(i, p, moves)' /\ blocked'[h].moves = moves
      BY <2>1, <2>3, <2>5 DEF SendParked
    <2>7. SendFull(i, p, blocked[h].moves)'
      BY <2>6, ZenonT(30) DEF SendFull
    <2>8. SendParked(h, i, p)'
      BY <2>1, <2>3, <2>4, <2>7, ZenonT(30) DEF SendParked
    <2> QED BY <2>8
  <1>4. blocked[h].op = "work" => h \in Servers' /\ ready'[h] = {}
    BY <1>0 DEF Parked
  <1> QED BY <1>0, <1>1, <1>2, <1>3, <1>4, ZenonT(30) DEF Parked

(* A holder that runs waits for nothing. *)
LEMMA RunningParked ==
  ASSUME NEW h, blocked'[h] = Running
  PROVE  Parked(h)'
  BY DEF Parked, Running

(* The holders after a step that wakes some keys. *)
LEMMA WokenParked ==
  ASSUME bound' = bound, \A h \in Holders : Parked(h), NEW keys,
         ServerKept(keys), ConnKept(keys), SpaceKept(keys), Woken(keys)
  PROVE  (\A h \in Holders : Parked(h))'
  <1>1. Holders' = Holders
    BY DEF Holders, Servers, Clients
  <1>2. ASSUME NEW h \in Holders PROVE Parked(h)'
    <2>1. CASE blocked'[h] = Running
      BY <2>1, RunningParked
    <2>2. CASE blocked'[h] # Running
      BY <2>2, WaitsKept DEF Woken
    <2> QED BY <2>1, <2>2
  <1> QED BY <1>1, <1>2

(* apply wakes the keys and sets the bits it is given; a server it leaves in WAIT
   got no bit. *)
LEMMA ApplyWakes ==
  ASSUME WaitShape, \A h \in Holders : Parked(h), bound' = bound, drained' = drained,
         NEW keys, NEW signals, Apply(keys, signals)
  PROVE  /\ WaitShape' /\ Woken(keys)
         /\ \A s \in Servers : /\ ready[s] \subseteq ready'[s]
                               /\ \A bit \in {"request", "notice"} : <<s, bit>> \in signals => ready'[s] # {}
  <1>0. Holders' = Holders /\ Servers' = Servers
    BY DEF Holders, Servers, Clients
  <1>1. /\ ready' = [s \in Servers |-> ready[s] \cup {bit \in {"request", "notice"} : <<s, bit>> \in signals}]
        /\ blocked' = [h \in Holders |->
             IF \/ blocked[h].on \in keys
                \/ blocked[h].op = "work" /\ \E g \in signals : g[1] = h /\ g[2] \notin ready[h]
               THEN Running ELSE blocked[h]]
    BY DEF Apply
  <1>2. WaitShape'
    BY <1>0, <1>1 DEF WaitShape
  <1>3. ASSUME NEW h \in Holders, blocked'[h] # Running
        PROVE  /\ blocked'[h] = blocked[h] /\ blocked[h].on \notin keys
               /\ blocked[h].op = "work" => ready'[h] = {}
    <2>1. /\ blocked'[h] = blocked[h] /\ blocked[h].on \notin keys
          /\ ~(blocked[h].op = "work" /\ \E g \in signals : g[1] = h /\ g[2] \notin ready[h])
      BY <1>1, <1>3
    <2>2. ASSUME blocked[h].op = "work" PROVE ready'[h] = {}
      <3>1. h \in Servers /\ ready[h] = {}
        BY <2>2 DEF Parked
      <3>2. \A bit : <<h, bit>> \notin signals
        BY <2>1, <2>2, <3>1
      <3> QED BY <1>1, <3>1, <3>2, ZenonT(30)
    <2> QED BY <2>1, <2>2
  <1>4. Woken(keys)
    BY <1>3 DEF Woken
  <1> QED BY <1>1, <1>2, <1>4, ZenonT(30)

(* Every piece of work that a step brings to a bound port sets a bit. *)
LEMMA SignalledKept ==
  ASSUME Signalled, bound' = bound,
         \A p \in Ports : ports'[p].live =>
           /\ ports[p].live /\ ports'[p].server = ports[p].server
           /\ ports'[p].wake /\ HasWork(p)' =>
                (ports[p].wake /\ HasWork(p)) \/ ready'[ports[p].server] # {}
           /\ drained'[ports[p].server] => drained[ports[p].server]
           /\ ready[ports[p].server] \subseteq ready'[ports[p].server]
  PROVE  Signalled'
  <1>1. Servers' = Servers
    BY DEF Servers
  <1>2. \A p, q \in Ports : ports'[p].live /\ ports'[q].live => p = q
    BY DEF Signalled
  <1>3. ASSUME NEW p \in Ports, ports'[p].live
        PROVE  /\ ports'[p].server \in Servers
               /\ ports'[p].wake /\ HasWork(p)' /\ drained'[ports'[p].server] => ready'[ports'[p].server] # {}
    BY <1>3 DEF Signalled
  <1> QED BY <1>1, <1>2, <1>3, ZenonT(30) DEF Signalled

-----------------------------------------------------------------------------
(* The actions and the second invariant. *)

(* The counters of empty records. *)
LEMMA EmptyCounts ==
  /\ \A g : EmptyPort(g).transfers = 0 /\ ~EmptyPort(g).wake
  /\ \A g : EmptyConn(g).outstanding = 0 /\ EmptyConn(g).transfers = 0 /\ EmptyConn(g).events = 0
            /\ EmptyConn(g).port = NoPort
  BY DEF EmptyPort, EmptyConn

(* A full queue whose counters stay is full. *)
LEMMA FullKept ==
  ASSUME bound' = bound, NEW i, NEW p,
         conns'[i].outstanding = conns[i].outstanding, conns'[i].transfers = conns[i].transfers,
         ports'[p].requests = ports[p].requests, ports'[p].transfers = ports[p].transfers
  PROVE  \A moves : SendFull(i, p, moves) => SendFull(i, p, moves)'
  BY DEF SendFull, MaxOutstanding

(* Nobody is woken, and nobody who waits on a work set is given a bit. *)
LEMMA NoneWoken ==
  ASSUME WaitShape, \A h \in Holders : Parked(h), bound' = bound,
         blocked' = blocked, ready' = ready, drained' = drained
  PROVE  WaitShape' /\ Woken({})
  BY ZenonT(30) DEF WaitShape, Woken, Parked, Holders, Servers, Clients

(* Steps that leave ports and connections alone. *)
LEMMA StillInv ==
  ASSUME PortInv, QueueInv, bound' = bound, ports' = ports, conns' = conns, WaitShape',
         \A h \in Holders :
           \/ Parked(h)' \/ blocked'[h] = Running
           \/ blocked'[h] = blocked[h] /\ (blocked[h].op = "work" => ready'[h] = {}),
         \A p \in Ports : LET s == ports[p].server IN
           ports[p].live /\ ports[p].wake /\ HasWork(p) /\ drained'[s] => ready'[s] # {}
  PROVE  QueueInv'
  <1>0. Conns' = Conns /\ Servers' = Servers /\ Holders' = Holders /\ MaxOutstanding' = MaxOutstanding
    BY DEF Conns, Servers, Holders, Clients, MaxOutstanding
  <1>1. /\ \A p : Key(p)' = Key(p) /\ HasWork(p)' = HasWork(p)
        /\ \A i : Queued(i)' = Queued(i)
    <2>1. \A p : Key(p)' = Key(p)
      BY DEF Key
    <2>2. \A p : Notices(p)' = Notices(p)
      BY <1>0, <2>1, ZenonT(30) DEF Notices, BoundTo
    <2>3. \A p : HasWork(p)' = HasWork(p)
      BY <2>2 DEF HasWork
    <2>4. \A i : Queued(i)' = Queued(i)
      BY DEF Queued, ConnId
    <2> QED BY <2>1, <2>3, <2>4, ZenonT(30)
  <1>2. Counted'
    BY <1>0, <1>1, ZenonT(30) DEF QueueInv, Counted, PortCounted, ConnCounted, Moving
  <1>3. Signalled'
    BY <1>0, <1>1, ZenonT(30) DEF QueueInv, Signalled
  <1>4. ServerKept({}) /\ ConnKept({}) /\ SpaceKept({})
    <2>1. \A i \in Conns, p \in Ports : \A moves : SendFull(i, p, moves) => SendFull(i, p, moves)'
      BY <1>0, ZenonT(30) DEF SendFull
    <2> QED BY <1>1, <2>1, ZenonT(30) DEF ServerKept, ConnKept, SpaceKept
  <1>5. ASSUME NEW h \in Holders PROVE Parked(h)'
    <2>1. CASE blocked'[h] = Running
      BY <2>1, RunningParked
    <2>2. CASE blocked'[h] = blocked[h] /\ (blocked[h].op = "work" => ready'[h] = {})
      <3>1. Parked(h)
        BY DEF QueueInv
      <3> QED BY <1>4, <2>2, <3>1, WaitsKept, ZenonT(30)
    <2> QED BY <2>1, <2>2
  <1> QED BY <1>0, <1>2, <1>3, <1>5, ZenonT(30) DEF QueueInv

(* WAIT takes the bits of the server that runs, or blocks it while there are none. *)
LEMMA WaitInv ==
  ASSUME PortInv, QueueInv, bound' = bound, NEW s \in Servers, WaitReady(s) \/ WaitBlocks(s)
  PROVE  QueueInv'
  <1>0. WaitShape /\ Servers' = Servers /\ Holders' = Holders /\ s \in Holders
    BY DEF QueueInv, Servers, Holders, Clients
  <1>1. ports' = ports /\ conns' = conns
    BY ZenonT(30) DEF WaitReady, WaitBlocks
  <1>2. CASE WaitReady(s)
    <2>1. /\ blocked' = blocked /\ blocked[s].op = "none" /\ ready' = [ready EXCEPT ![s] = {}]
          /\ drained' = [drained EXCEPT ![s] = FALSE]
      BY <1>2 DEF WaitReady, Runs
    <2>2. WaitShape'
      BY <1>0, <2>1, ZenonT(30) DEF WaitShape
    <2>3. \A t \in Servers : ready'[t] = (IF t = s THEN {} ELSE ready[t])
                             /\ drained'[t] = (IF t = s THEN FALSE ELSE drained[t])
      BY <1>0, <2>1, ZenonT(30) DEF WaitShape
    <2>4. \A h \in Holders : blocked[h].op = "work" => ready'[h] = {}
      BY <2>3, ZenonT(30) DEF QueueInv, Parked
    <2>5. ASSUME NEW p \in Ports, ports[p].live, ports[p].wake, HasWork(p), drained'[ports[p].server]
          PROVE  ready'[ports[p].server] # {}
      <3>1. ports[p].server \in Servers /\ (drained[ports[p].server] => ready[ports[p].server] # {})
        BY <2>5 DEF QueueInv, Signalled
      <3> QED BY <2>3, <2>5, <3>1, ZenonT(30)
    <2> QED BY <1>1, <2>1, <2>2, <2>4, <2>5, StillInv, ZenonT(30)
  <1>3. CASE WaitBlocks(s)
    <2>1. /\ ready' = ready /\ drained' = drained /\ ready[s] = {}
          /\ blocked' = [blocked EXCEPT ![s] =
               [op |-> "work", on |-> <<"work", NoPort>>, conn |-> NoPort, moves |-> FALSE]]
      BY <1>3 DEF WaitBlocks
    <2>2. WaitShape'
      BY <1>0, <2>1, ZenonT(30) DEF WaitShape
    <2>3. blocked'[s].op = "work" /\ \A h \in Holders \ {s} : blocked'[h] = blocked[h]
      BY <1>0, <2>1, ZenonT(30) DEF WaitShape
    <2>4. Parked(s)'
      BY <1>0, <2>1, <2>3, ZenonT(30) DEF Parked
    <2>5. \A h \in Holders : blocked[h].op = "work" => ready'[h] = {}
      BY <2>1, ZenonT(30) DEF QueueInv, Parked
    <2>6. \A p \in Ports : ports[p].live /\ ports[p].wake /\ HasWork(p) /\ drained'[ports[p].server]
                             => ready'[ports[p].server] # {}
      BY <2>1, ZenonT(30) DEF QueueInv, Signalled
    <2> QED BY <1>1, <2>2, <2>3, <2>4, <2>5, <2>6, StillInv, ZenonT(30)
  <1> QED BY <1>2, <1>3

(* A client blocks in a call that has no room or no event. *)
LEMMA ClientBlocksInv ==
  ASSUME PortInv, QueueInv, bound' = bound, NEW c \in Clients, NEW i \in Conns,
         EventBlocks(c, i) \/ \E moves \in BOOLEAN : SendBlocks(c, i, moves)
  PROVE  QueueInv'
  <1>0. WaitShape /\ Holders' = Holders /\ Servers' = Servers /\ Conns' = Conns /\ c \in Holders
    BY DEF QueueInv, Servers, Holders, Clients, Conns
  <1>1. ports' = ports /\ conns' = conns /\ ready' = ready /\ drained' = drained /\ conns[i].state = "Open"
    BY ZenonT(30) DEF EventBlocks, SendBlocks
  <1>2. PICK op, key, moves :
          /\ blocked' = [blocked EXCEPT ![c] = [op |-> op, on |-> key, conn |-> ConnId(i), moves |-> moves]]
          /\ \/ op = "event" /\ key = ConnKey(i) /\ conns[i].events = 0
             \/ op = "send" /\ key = SpaceKey(conns[i].port.slot) /\ SendFull(i, conns[i].port.slot, moves)
    BY DEF EventBlocks, SendBlocks, AttemptOrBlock
  <1>3. /\ WaitShape' /\ \A h \in Holders \ {c} : blocked'[h] = blocked[h]
        /\ blocked'[c] = [op |-> op, on |-> key, conn |-> ConnId(i), moves |-> moves]
    BY <1>0, <1>1, <1>2, ZenonT(30) DEF WaitShape
  <1>4. PICK p \in Ports : ports[p].live /\ conns[i].port = Key(p) /\ p = conns[i].port.slot
    <2>1. PICK p \in Ports : ports[p].live /\ conns[i].port = Key(p)
      BY <1>1, ZenonT(30) DEF PortInv, Attached
    <2> QED BY <2>1 DEF Key
  <1>5. Parked(c)'
    <2>1. blocked'[c].op = op /\ blocked'[c].on = key /\ blocked'[c].conn = ConnId(i) /\ blocked'[c].moves = moves
      BY <1>3
    <2>2. ConnId(i)' = ConnId(i) /\ ConnKey(i)' = ConnKey(i) /\ Key(p)' = Key(p) /\ SpaceKey(p)' = SpaceKey(p)
      BY <1>1, ZenonT(30) DEF ConnId, ConnKey, Key, SpaceKey
    <2>3. SendFull(i, p, moves) => SendFull(i, p, blocked[c].moves)'
      BY <1>1, <2>1, ZenonT(30) DEF SendFull, MaxOutstanding
    <2>4. CASE op = "event" /\ key = ConnKey(i) /\ conns[i].events = 0
      <3>1. EventParked(c, i)'
        BY <1>1, <2>1, <2>2, <2>4, ZenonT(30) DEF EventParked
      <3>2. blocked'[c].op # "send" /\ blocked'[c].op # "recv" /\ blocked'[c].op # "work"
        BY <2>1, <2>4
      <3> QED BY <1>0, <3>1, <3>2, ZenonT(30) DEF Parked
    <2>5. CASE op = "send" /\ key = SpaceKey(p) /\ SendFull(i, p, moves)
      <3>1. SendParked(c, i, p)'
        BY <1>1, <1>4, <2>1, <2>2, <2>3, <2>5, ZenonT(30) DEF SendParked
      <3>2. blocked'[c].op # "event" /\ blocked'[c].op # "recv" /\ blocked'[c].op # "work"
        BY <2>1, <2>5
      <3> QED BY <1>0, <3>1, <3>2, ZenonT(30) DEF Parked
    <2> QED BY <1>2, <1>4, <2>4, <2>5, ZenonT(30)
  <1>6. \A h \in Holders : blocked[h].op = "work" => ready'[h] = {}
    BY <1>1, ZenonT(30) DEF QueueInv, Parked
  <1>7. \A q \in Ports : ports[q].live /\ ports[q].wake /\ HasWork(q) /\ drained'[ports[q].server]
                             => ready'[ports[q].server] # {}
    BY <1>1, ZenonT(30) DEF QueueInv, Signalled
  <1> QED BY <1>1, <1>3, <1>5, <1>6, <1>7, StillInv, ZenonT(30)

(* RECV on an empty port, which may block its server. *)
LEMMA RecvEmptyInv ==
  ASSUME PortInv, QueueInv, bound' = bound, NEW s \in Servers, NEW p \in Ports, RecvEmpty(s, p)
  PROVE  QueueInv'
  <1>0. WaitShape /\ Holders' = Holders /\ Servers' = Servers /\ s \in Holders
    BY DEF QueueInv, Servers, Holders, Clients
  <1>1. /\ ports' = ports /\ conns' = conns /\ ready' = ready /\ drained' = [drained EXCEPT ![s] = TRUE]
        /\ ports[p].live /\ ports[p].server = s /\ ~HasWork(p)
    BY DEF RecvEmpty, Serves
  <1>2. \A q \in Ports : ports[q].live => q = p
    BY <1>1 DEF QueueInv, Signalled
  <1>3. \A h \in Holders : blocked[h].op = "work" => ready'[h] = {}
    BY <1>1, ZenonT(30) DEF QueueInv, Parked
  <1>4. CASE blocked' = blocked
    <2>1. WaitShape'
      BY <1>0, <1>1, <1>4, ZenonT(30) DEF WaitShape
    <2> QED BY <1>1, <1>2, <1>3, <1>4, <2>1, StillInv, ZenonT(30)
  <1>5. CASE AttemptOrBlock(s, "recv", ServerKey(p), NoPort, FALSE)
    <2>1. blocked' = [blocked EXCEPT ![s] = [op |-> "recv", on |-> ServerKey(p), conn |-> NoPort, moves |-> FALSE]]
      BY <1>5 DEF AttemptOrBlock
    <2>2. /\ WaitShape' /\ blocked'[s].op = "recv" /\ blocked'[s].on = ServerKey(p)
          /\ \A h \in Holders \ {s} : blocked'[h] = blocked[h]
      BY <1>0, <1>1, <2>1, ZenonT(30) DEF WaitShape
    <2>3. ~HasWork(p)' /\ ServerKey(p)' = ServerKey(p)
      BY <1>1, ZenonT(30) DEF HasWork, Notices, BoundTo, Key, Conns, ServerKey
    <2>4. RecvParked(s, p)'
      BY <1>1, <2>2, <2>3, ZenonT(30) DEF RecvParked
    <2>5. Parked(s)'
      BY <2>2, <2>4 DEF Parked
    <2> QED BY <1>1, <1>2, <1>3, <2>2, <2>5, StillInv, ZenonT(30)
  <1> QED BY <1>4, <1>5, ZenonT(30) DEF RecvEmpty

(* A deadline, a revocation, or no step at all. *)
LEMMA OtherInv ==
  ASSUME PortInv, QueueInv, bound' = bound, ports' = ports, conns' = conns, ready' = ready, drained' = drained,
         blocked' = blocked \/ \E h \in Holders : TimesOut(h)
  PROVE  QueueInv'
  <1>0. WaitShape /\ Holders' = Holders /\ Servers' = Servers
    BY DEF QueueInv, Servers, Holders, Clients
  <1>1. WaitShape' /\ \A h \in Holders : blocked'[h] \in {Running, blocked[h]}
    <2>1. CASE blocked' = blocked
      BY <1>0, <2>1, ZenonT(30) DEF WaitShape
    <2>2. CASE \E h \in Holders : TimesOut(h)
      BY <1>0, <2>2 DEF WaitShape, TimesOut
    <2> QED BY <2>1, <2>2
  <1>2. \A h \in Holders : blocked[h].op = "work" => ready'[h] = {}
    BY ZenonT(30) DEF QueueInv, Parked
  <1>3. \A p \in Ports : ports[p].live /\ ports[p].wake /\ HasWork(p) /\ drained'[ports[p].server]
                           => ready'[ports[p].server] # {}
    BY ZenonT(30) DEF QueueInv, Signalled
  <1> QED BY <1>1, <1>2, <1>3, StillInv, ZenonT(30)

(* One connection slot j changes, and no port: the slot is emptied, taken into use
   or gives up an event. *)
LEMMA SlotInv ==
  ASSUME PortInv, PortInv', QueueInv, bound' = bound, ports' = ports,
         blocked' = blocked, ready' = ready, drained' = drained, NEW j \in Conns,
         \A i \in Conns \ {j} : conns'[i] = conns[i],
         conns'[j].events \in Nat, conns'[j].events <= EventDepth,
         conns'[j].state # "ClosePending",
         \/ /\ conns[j].state # "Open" /\ conns'[j].outstanding = 0 /\ conns'[j].transfers = 0
         \/ /\ conns[j].events # 0 /\ conns'[j].outstanding = conns[j].outstanding
            /\ conns'[j].transfers = conns[j].transfers /\ conns'[j].state = conns[j].state
            /\ conns'[j].gen = conns[j].gen /\ conns'[j].port = conns[j].port
  PROVE  QueueInv'
  <1>0. /\ WaitShape /\ Counted /\ Signalled /\ \A h \in Holders : Parked(h)
        /\ Conns' = Conns /\ Servers' = Servers /\ Holders' = Holders
    BY DEF QueueInv, Servers, Holders, Clients, Conns
  <1>1. ASSUME NEW i \in Conns PROVE ConnCounted(i)'
    <2>1. ConnCounted(i)
      BY <1>0, ZenonT(30) DEF Counted
    <2>2. CASE i # j
      <3>1. conns'[i].events \in Nat /\ conns'[i].events <= EventDepth
        BY <2>1, <2>2, ZenonT(30) DEF ConnCounted
      <3> QED BY <2>1, <2>2, <3>1, ConnCountedKept, ZenonT(30)
    <2>3. CASE i = j /\ conns[j].state # "Open" /\ conns'[j].outstanding = 0 /\ conns'[j].transfers = 0
      <3>1. \A p \in Ports : \A r \in ports'[p].requests : r.conn.slot # i
        BY <2>3, ZenonT(30) DEF PortInv, Backed
      <3> QED BY <2>3, <3>1, ConnCountedNone, ZenonT(30)
    <2>4. CASE i = j /\ conns'[j].outstanding = conns[j].outstanding /\ conns'[j].transfers = conns[j].transfers
      BY <2>1, <2>4, ConnCountedKept, ZenonT(30)
    <2> QED BY <2>2, <2>3, <2>4, ZenonT(30)
  <1>2. \A p \in Ports : PortCounted(p)'
    BY <1>0, PortCountedKept, ZenonT(30) DEF Counted
  <1>3. \A p : Key(p)' = Key(p)
    BY DEF Key
  <1>4. \A p \in Ports : HasWork(p)' => HasWork(p)
    <2>1. \A p : Notices(p)' \subseteq Notices(p)
      BY <1>0, <1>3, ZenonT(30) DEF Notices, BoundTo
    <2> QED BY <2>1, ZenonT(30) DEF HasWork
  <1>5. ServerKept({}) /\ ConnKept({})
    BY <1>4, ZenonT(30) DEF ServerKept, ConnKept
  <1>6. SpaceKept({})
    <2> SUFFICES ASSUME NEW i \in Conns, NEW p \in Ports, conns[i].state = "Open", ports[p].live
                 PROVE  /\ conns'[i].state = "Open" /\ conns'[i].gen = conns[i].gen
                        /\ conns'[i].port = conns[i].port
                        /\ \A moves : SendFull(i, p, moves) => SendFull(i, p, moves)'
      BY DEF SpaceKept
    <2>1. conns'[i].outstanding = conns[i].outstanding /\ conns'[i].transfers = conns[i].transfers
      BY ZenonT(30)
    <2>2. \A moves : SendFull(i, p, moves) => SendFull(i, p, moves)'
      BY <2>1, FullKept, ZenonT(30)
    <2> QED BY <2>2, ZenonT(30)
  <1>7. WaitShape' /\ Woken({})
    BY <1>0, NoneWoken
  <1>8. (\A h \in Holders : Parked(h))'
    BY <1>0, <1>5, <1>6, <1>7, WokenParked, ZenonT(30)
  <1>9. Signalled'
    BY <1>0, <1>4, SignalledKept, ZenonT(30)
  <1> QED BY <1>0, <1>1, <1>2, <1>7, <1>8, <1>9, ZenonT(30) DEF QueueInv, Counted

(* Connect, RECV of a notice and RECV_EVENT of an event change one slot. *)
LEMMA ConnectQueues ==
  ASSUME PortInv, PortInv', QueueInv, bound' = bound, NEW c, NEW p, Connect(c, p)
  PROVE  QueueInv'
  <1>0. Shape
    BY DEF PortInv
  <1>1. PICK j \in FreeConns :
          conns' = [conns EXCEPT ![j] = [EmptyConn(@.gen + 1) EXCEPT
                      !.state = "Open", !.port = Key(p), !.client = c]]
    BY ZenonT(30) DEF Connect
  <1>2. j \in Conns /\ conns[j].state = "Free"
    BY DEF FreeConns
  <1>3. /\ \A i \in Conns \ {j} : conns'[i] = conns[i]
        /\ conns'[j] = [EmptyConn(conns[j].gen + 1) EXCEPT !.state = "Open", !.port = Key(p), !.client = c]
    BY <1>0, <1>1, <1>2, ZenonT(30) DEF Shape
  <1>4. /\ conns'[j].events = 0 /\ conns'[j].outstanding = 0 /\ conns'[j].transfers = 0
        /\ conns'[j].state = "Open"
    BY <1>3 DEF EmptyConn
  <1>5. EventDepth \in Nat
    BY <1>0, Limits
  <1>6. ports' = ports /\ blocked' = blocked /\ ready' = ready /\ drained' = drained
    BY DEF Connect
  <1>7. /\ \A i \in Conns \ {j} : conns'[i] = conns[i]
        /\ conns'[j].events \in Nat /\ conns'[j].events <= EventDepth /\ conns'[j].state # "ClosePending"
        /\ conns[j].state # "Open"
    BY <1>2, <1>3, <1>4, <1>5, CounterNone, ZenonT(30)
  <1> QED BY <1>2, <1>4, <1>6, <1>7, SlotInv, ZenonT(30)

(* RECV of a notice empties its slot. *)
LEMMA RecvNoticeQueues ==
  ASSUME PortInv, PortInv', QueueInv, bound' = bound, NEW s, NEW p, RecvNotice(s, p)
  PROVE  QueueInv'
  <1>0. Shape
    BY DEF PortInv
  <1>1. PICK j \in Notices(p) : conns' = [conns EXCEPT ![j] = EmptyConn(@.gen)]
    BY ZenonT(30) DEF RecvNotice
  <1>2. j \in Conns /\ conns[j].state = "ClosePending"
    BY NoticesOf
  <1>3. (\A i \in Conns \ {j} : conns'[i] = conns[i]) /\ conns'[j] = EmptyConn(conns[j].gen)
    BY <1>0, <1>1, <1>2, ZenonT(30) DEF Shape
  <1>4. /\ conns'[j].events = 0 /\ conns'[j].outstanding = 0 /\ conns'[j].transfers = 0
        /\ conns'[j].state = "Free"
    BY <1>3 DEF EmptyConn
  <1>5. EventDepth \in Nat
    BY <1>0, Limits, ZenonT(30)
  <1>6. ports' = ports /\ blocked' = blocked /\ ready' = ready /\ drained' = drained
    BY DEF RecvNotice
  <1>7. /\ conns'[j].events \in Nat /\ conns'[j].events <= EventDepth /\ conns'[j].state # "ClosePending"
        /\ conns[j].state # "Open"
    BY <1>2, <1>4, <1>5, CounterNone, ZenonT(30)
  <1> QED BY <1>2, <1>3, <1>4, <1>6, <1>7, SlotInv, ZenonT(30)

(* RECV_EVENT of an event: nobody waits for one while there is one. *)
LEMMA TakeEventQueues ==
  ASSUME PortInv, PortInv', QueueInv, bound' = bound, NEW c, NEW j \in Conns, TakeEvent(c, j)
  PROVE  QueueInv'
  <1>0. Shape /\ ConnCounted(j)
    BY DEF PortInv, QueueInv, Counted
  <1>1. conns' = [conns EXCEPT ![j].events = @ - 1] /\ conns[j].events > 0
        /\ conns[j].state \in {"Open", "ServerClosed"}
    BY DEF TakeEvent
  <1>2. /\ \A i \in Conns \ {j} : conns'[i] = conns[i]
        /\ conns'[j] = [conns[j] EXCEPT !.events = @ - 1] /\ DOMAIN conns[j] = ConnFields
    BY <1>0, <1>1 DEF Shape
  <1>3. /\ conns'[j].events = conns[j].events - 1 /\ conns'[j].outstanding = conns[j].outstanding
        /\ conns'[j].transfers = conns[j].transfers /\ conns'[j].state = conns[j].state
        /\ conns'[j].gen = conns[j].gen /\ conns'[j].port = conns[j].port
    BY <1>2 DEF ConnFields
  <1>4. EventDepth \in Nat
    BY <1>0, Limits
  <1>5. conns'[j].events \in Nat /\ conns'[j].events <= EventDepth /\ conns[j].events # 0
    <2>1. conns[j].events \in Nat /\ conns[j].events <= EventDepth
      BY <1>0, ZenonT(30) DEF ConnCounted
    <2>2. conns[j].events # 0
      BY <1>1, <2>1
    <2> QED BY <1>3, <1>4, <2>1, <2>2, CounterDown, ZenonT(30)
  <1>6. ports' = ports /\ blocked' = blocked /\ ready' = ready /\ drained' = drained
    BY DEF TakeEvent
  <1>7. conns'[j].state # "ClosePending"
    BY <1>1, <1>3
  <1> QED BY <1>2, <1>3, <1>5, <1>6, <1>7, SlotInv, ZenonT(30)

(* Register finds no live port, hence no connection that anybody waits on. *)
LEMMA RegisterQueues ==
  ASSUME PortInv, PortInv', QueueInv, bound' = bound, NEW s \in Servers, Register(s)
  PROVE  QueueInv'
  <1>0. /\ WaitShape /\ Counted /\ Signalled /\ \A h \in Holders : Parked(h)
        /\ Conns' = Conns /\ Servers' = Servers /\ Holders' = Holders /\ Shape
    BY DEF QueueInv, Servers, Holders, Clients, Conns, PortInv
  <1>1. PICK p \in Ports :
          ports' = [ports EXCEPT ![p] = [EmptyPort(@.gen + 1) EXCEPT !.live = TRUE, !.server = s]]
    BY ZenonT(30) DEF Register
  <1>2. /\ conns' = conns /\ blocked' = blocked /\ ready' = ready /\ drained' = drained
        /\ \A q \in Ports : ~ports[q].live
    BY DEF Register
  <1>3. /\ \A q \in Ports \ {p} : ports'[q] = ports[q]
        /\ ports'[p] = [EmptyPort(ports[p].gen + 1) EXCEPT !.live = TRUE, !.server = s]
    BY <1>0, <1>1 DEF Shape
  <1>4. /\ ports'[p].requests = {} /\ ports'[p].transfers = 0 /\ ~ports'[p].wake /\ ports'[p].server = s
    BY <1>3 DEF EmptyPort
  <1>5. \A q \in Ports : PortCounted(q)'
    <2>1. PortCounted(p)'
      <3>1. MaxTransfers \in Nat /\ RequestDepth \in Nat
        BY <1>0, Limits
      <3>2. 0 <= MaxTransfers /\ 0 <= RequestDepth
        BY <3>1, CounterNone, ZenonT(30)
      <3> QED BY <1>4, <3>2, CountNone, ZenonT(30) DEF PortCounted, Moving
    <2>2. ASSUME NEW q \in Ports \ {p} PROVE PortCounted(q)'
      BY <1>0, <1>3, PortCountedKept, ZenonT(30) DEF Counted
    <2> QED BY <2>1, <2>2, ZenonT(30)
  <1>6. \A q \in Ports : ports[q].requests = {} /\ ports'[q].requests = {}
    BY <1>2, <1>3, <1>4, ZenonT(30) DEF PortInv, Ordered
  <1>7. ASSUME NEW i \in Conns PROVE ConnCounted(i)'
    <2>1. ConnCounted(i)
      BY <1>0, ZenonT(30) DEF Counted
    <2>2. conns'[i].events \in Nat /\ conns'[i].events <= EventDepth
      BY <1>2, <2>1 DEF ConnCounted
    <2> QED BY <1>2, <1>6, <2>1, <2>2, ConnCountedKept, ZenonT(30)
  <1>8. ServerKept({}) /\ ConnKept({}) /\ SpaceKept({})
    BY <1>2, ZenonT(30) DEF ServerKept, ConnKept, SpaceKept
  <1>9. WaitShape' /\ Woken({})
    BY <1>0, <1>2, NoneWoken, ZenonT(30)
  <1>10. (\A h \in Holders : Parked(h))'
    BY <1>0, <1>8, <1>9, WokenParked, ZenonT(30)
  <1>11. Signalled'
    <2>1. \A q \in Ports : ports'[q].live => q = p
      BY <1>2, <1>3
    <2> QED BY <1>0, <1>4, <2>1, ZenonT(30) DEF Signalled
  <1> QED BY <1>0, <1>5, <1>7, <1>9, <1>10, <1>11, ZenonT(30) DEF QueueInv, Counted

(* BIND_WAKE signals what is pending; POST wakes who waits for the event. *)
LEMMA BindWakeQueues ==
  ASSUME PortInv, PortInv', QueueInv, bound' = bound, NEW s \in Servers, NEW p \in Ports, BindWake(s, p)
  PROVE  QueueInv'
  <1>0. /\ WaitShape /\ Counted /\ Signalled /\ \A h \in Holders : Parked(h)
        /\ Conns' = Conns /\ Servers' = Servers /\ Holders' = Holders /\ Shape
    BY DEF QueueInv, Servers, Holders, Clients, Conns, PortInv
  <1>1. /\ ports' = [ports EXCEPT ![p].wake = TRUE] /\ Apply({}, BindSignals(s, p))
        /\ conns' = conns /\ drained' = drained /\ ports[p].live /\ ports[p].server = s
    BY DEF BindWake, Serves
  <1>2. ASSUME NEW q \in Ports
        PROVE  /\ ports'[q].live = ports[q].live /\ ports'[q].gen = ports[q].gen
               /\ ports'[q].server = ports[q].server /\ ports'[q].requests = ports[q].requests
               /\ ports'[q].transfers = ports[q].transfers /\ (q # p => ports'[q].wake = ports[q].wake)
    <2>1. DOMAIN ports[q] = PortFields /\ ports'[q] = IF q = p THEN [ports[p] EXCEPT !.wake = TRUE] ELSE ports[q]
      BY <1>0, <1>1, ZenonT(30) DEF Shape
    <2> QED BY <2>1, ZenonT(30) DEF PortFields
  <1>3. \A q \in Ports : HasWork(q)' = HasWork(q)
    <2>1. \A q \in Ports : Key(q)' = Key(q)
      BY <1>2 DEF Key
    <2>2. \A q \in Ports : Notices(q)' = Notices(q)
      BY <1>0, <1>1, <2>1, ZenonT(30) DEF Notices, BoundTo
    <2> QED BY <1>2, <2>2, ZenonT(30) DEF HasWork
  <1>4. \A q \in Ports : PortCounted(q)'
    BY <1>0, <1>2, PortCountedKept, ZenonT(30) DEF Counted
  <1>5. ASSUME NEW i \in Conns PROVE ConnCounted(i)'
    <2>1. ConnCounted(i)
      BY <1>0 DEF Counted
    <2>2. conns'[i].events \in Nat /\ conns'[i].events <= EventDepth
      BY <1>1, <2>1 DEF ConnCounted
    <2> QED BY <1>1, <1>2, <2>1, <2>2, ConnCountedKept, ZenonT(30)
  <1>6. ServerKept({}) /\ ConnKept({})
    BY <1>1, <1>2, <1>3, ZenonT(30) DEF ServerKept, ConnKept
  <1>7. SpaceKept({})
    <2>1. \A i \in Conns, q \in Ports : \A moves : SendFull(i, q, moves) => SendFull(i, q, moves)'
      BY <1>1, <1>2 DEF SendFull, MaxOutstanding
    <2> QED BY <1>1, <1>2, <2>1, ZenonT(30) DEF SpaceKept
  <1>8. /\ WaitShape' /\ Woken({})
        /\ \A t \in Servers : /\ ready[t] \subseteq ready'[t]
                              /\ \A bit \in {"request", "notice"} : <<t, bit>> \in BindSignals(s, p) => ready'[t] # {}
    BY <1>0, <1>1, ApplyWakes, ZenonT(30)
  <1>9. (\A h \in Holders : Parked(h))'
    BY <1>0, <1>6, <1>7, <1>8, WokenParked, ZenonT(30)
  <1>10. HasWork(p) => ready'[s] # {}
    <2>1. HasWork(p) => <<s, "request">> \in BindSignals(s, p) \/ <<s, "notice">> \in BindSignals(s, p)
      BY DEF HasWork, BindSignals
    <2> QED BY <1>8, <2>1, ZenonT(30)
  <1>11. Signalled'
    <2>1. \A q \in Ports : ports[q].live => ports[q].server \in Servers
      BY <1>0 DEF Signalled
    <2>2. ASSUME NEW q \in Ports, ports'[q].live
          PROVE  /\ ports[q].live /\ ports'[q].server = ports[q].server
                 /\ ports'[q].wake /\ HasWork(q)' => (ports[q].wake /\ HasWork(q)) \/ ready'[ports[q].server] # {}
                 /\ drained'[ports[q].server] => drained[ports[q].server]
                 /\ ready[ports[q].server] \subseteq ready'[ports[q].server]
      BY <1>1, <1>2, <1>3, <1>8, <1>10, <2>1, <2>2, ZenonT(30)
    <2> QED BY <1>0, <2>2, SignalledKept, ZenonT(30)
  <1> QED BY <1>0, <1>4, <1>5, <1>8, <1>9, <1>11, ZenonT(30) DEF QueueInv, Counted

(* POST wakes the client that waits for an event of the connection. *)
LEMMA PostQueues ==
  ASSUME PortInv, PortInv', QueueInv, bound' = bound, NEW s, NEW p \in Ports, NEW j \in Conns, Post(s, p, j)
  PROVE  QueueInv'
  <1>0. /\ WaitShape /\ Counted /\ Signalled /\ \A h \in Holders : Parked(h)
        /\ Conns' = Conns /\ Servers' = Servers /\ Holders' = Holders /\ Shape /\ ConnCounted(j)
    BY ZenonT(30) DEF QueueInv, Servers, Holders, Clients, Conns, PortInv, Counted
  <1>1. /\ ports' = [ports EXCEPT ![p].nextSeq = @ + 1] /\ conns' = [conns EXCEPT ![j].events = @ + 1]
        /\ Apply({ConnKey(j)}, {}) /\ drained' = drained /\ conns[j].events < EventDepth
        /\ conns[j].state = "Open"
    BY DEF Post
  <1>2. ASSUME NEW q \in Ports
        PROVE  /\ ports'[q].live = ports[q].live /\ ports'[q].gen = ports[q].gen
               /\ ports'[q].server = ports[q].server /\ ports'[q].requests = ports[q].requests
               /\ ports'[q].transfers = ports[q].transfers /\ ports'[q].wake = ports[q].wake
    <2>1. DOMAIN ports[q] = PortFields /\ ports'[q] = IF q = p THEN [ports[p] EXCEPT !.nextSeq = @ + 1] ELSE ports[q]
      BY <1>0, <1>1 DEF Shape
    <2> QED BY <2>1 DEF PortFields
  <1>3. ASSUME NEW i \in Conns
        PROVE  /\ conns'[i].state = conns[i].state /\ conns'[i].gen = conns[i].gen
               /\ conns'[i].port = conns[i].port /\ conns'[i].outstanding = conns[i].outstanding
               /\ conns'[i].transfers = conns[i].transfers
               /\ conns'[i].events = IF i = j THEN conns[i].events + 1 ELSE conns[i].events
    <2>1. DOMAIN conns[i] = ConnFields /\ conns'[i] = IF i = j THEN [conns[j] EXCEPT !.events = @ + 1] ELSE conns[i]
      BY <1>0, <1>1, ZenonT(30) DEF Shape
    <2> QED BY <2>1 DEF ConnFields
  <1>4. \A q \in Ports : HasWork(q)' = HasWork(q)
    <2>1. \A q \in Ports : Key(q)' = Key(q)
      BY <1>2, ZenonT(30) DEF Key
    <2>2. \A q \in Ports : Notices(q)' = Notices(q)
      BY <1>0, <1>3, <2>1, ZenonT(30) DEF Notices, BoundTo
    <2> QED BY <1>2, <2>2 DEF HasWork
  <1>5. \A q \in Ports : PortCounted(q)'
    BY <1>0, <1>2, PortCountedKept, ZenonT(30) DEF Counted
  <1>6. ASSUME NEW i \in Conns PROVE ConnCounted(i)'
    <2>1. ConnCounted(i) /\ EventDepth \in Nat
      BY <1>0, Limits, ZenonT(30) DEF Counted
    <2>2. conns'[i].events \in Nat /\ conns'[i].events <= EventDepth
      BY <1>1, <1>3, <2>1 DEF ConnCounted
    <2> QED BY <1>2, <1>3, <2>1, <2>2, ConnCountedKept, ZenonT(30)
  <1>7. ServerKept({ConnKey(j)}) /\ ConnKept({ConnKey(j)})
    BY <1>2, <1>3, <1>4, ZenonT(30) DEF ServerKept, ConnKept
  <1>8. SpaceKept({ConnKey(j)})
    <2>1. \A i \in Conns, q \in Ports : \A moves : SendFull(i, q, moves) => SendFull(i, q, moves)'
      BY <1>2, <1>3 DEF SendFull, MaxOutstanding
    <2> QED BY <1>2, <1>3, <2>1, ZenonT(30) DEF SpaceKept
  <1>9. WaitShape' /\ Woken({ConnKey(j)}) /\ \A t \in Servers : ready[t] \subseteq ready'[t]
    BY <1>0, <1>1, ApplyWakes, ZenonT(30)
  <1>10. (\A h \in Holders : Parked(h))'
    BY <1>0, <1>7, <1>8, <1>9, WokenParked, ZenonT(30)
  <1>11. Signalled'
    <2>1. \A q \in Ports : ports[q].live => ports[q].server \in Servers
      BY <1>0, ZenonT(30) DEF Signalled
    <2> QED BY <1>0, <1>1, <1>2, <1>4, <1>9, <2>1, SignalledKept, ZenonT(30)
  <1> QED BY <1>0, <1>5, <1>6, <1>9, <1>10, <1>11, ZenonT(30) DEF QueueInv, Counted

-----------------------------------------------------------------------------

(* SEND of request r on connection j of port p: what the call checked and what it
   changed. *)
Sending(j, p, r) ==
  /\ ports[p].live /\ conns[j].port = Key(p) /\ conns[j].state = "Open" /\ ~SendFull(j, p, r.moves)
  /\ r.moves \in BOOLEAN /\ r.conn.slot = j /\ r \notin ports[p].requests
  /\ \A q \in Ports :
       /\ ports'[q].live = ports[q].live /\ ports'[q].gen = ports[q].gen
       /\ ports'[q].server = ports[q].server /\ ports'[q].wake = ports[q].wake
       /\ q # p => ports'[q].requests = ports[q].requests /\ ports'[q].transfers = ports[q].transfers
       /\ q = p => /\ ports'[q].requests = ports[q].requests \cup {r}
                   /\ ports'[q].transfers = IF r.moves THEN ports[q].transfers + 1 ELSE ports[q].transfers
  /\ \A i \in Conns :
       /\ conns'[i].state = conns[i].state /\ conns'[i].gen = conns[i].gen
       /\ conns'[i].port = conns[i].port /\ conns'[i].events = conns[i].events
       /\ i # j => conns'[i].outstanding = conns[i].outstanding /\ conns'[i].transfers = conns[i].transfers
       /\ i = j => /\ conns'[i].outstanding = conns[i].outstanding + 1
                   /\ conns'[i].transfers = IF r.moves THEN conns[i].transfers + 1 ELSE conns[i].transfers

(* What SEND does is that, for some port and request. *)
LEMMA SendFacts ==
  ASSUME PortInv, NEW c, NEW j \in Conns, NEW moves \in BOOLEAN, Send(c, j, moves)
  PROVE  \E p \in Ports : \E r : /\ Sending(j, p, r) /\ drained' = drained
                                 /\ Apply({ServerKey(p)}, Signals(p, "request"))
  <1>0. Shape
    BY DEF PortInv
  <1>1. conns[j].state = "Open"
    BY ZenonT(30) DEF Send
  <1>2. PICK p \in Ports : ports[p].live /\ conns[j].port = Key(p)
    BY <1>1, ZenonT(30) DEF PortInv, Attached
  <1>3. p = conns[j].port.slot
    BY <1>2 DEF Key
  <1>4. PICK r : r = [seq |-> ports[p].nextSeq, conn |-> ConnId(j), moves |-> moves]
    BY ZenonT(30)
  <1>5. /\ ~SendFull(j, p, moves) /\ drained' = drained
        /\ ports' = [ports EXCEPT ![p].requests = @ \cup {r}, ![p].nextSeq = @ + 1,
                                  ![p].transfers = IF moves THEN @ + 1 ELSE @]
        /\ conns' = [conns EXCEPT ![j].outstanding = @ + 1,
                                  ![j].transfers = IF moves THEN @ + 1 ELSE @]
        /\ Apply({ServerKey(p)}, Signals(p, "request"))
    BY <1>3, <1>4, ZenonT(30) DEF Send
  <1>6. r.moves = moves /\ r.conn.slot = j /\ r \notin ports[p].requests
    <2>1. r.seq = ports[p].nextSeq /\ r.moves = moves /\ r.conn.slot = j
      BY <1>4, ZenonT(30) DEF ConnId
    <2>2. ports[p].nextSeq \in Nat /\ \A x \in ports[p].requests : x.seq \in Nat /\ x.seq < ports[p].nextSeq
      BY <1>2 DEF PortInv, Ordered
    <2> QED BY <2>1, <2>2
  <1>7. ASSUME NEW q \in Ports
        PROVE  /\ ports'[q].live = ports[q].live /\ ports'[q].gen = ports[q].gen
               /\ ports'[q].server = ports[q].server /\ ports'[q].wake = ports[q].wake
               /\ q # p => ports'[q].requests = ports[q].requests /\ ports'[q].transfers = ports[q].transfers
               /\ q = p => /\ ports'[q].requests = ports[q].requests \cup {r}
                           /\ ports'[q].transfers = IF r.moves THEN ports[q].transfers + 1 ELSE ports[q].transfers
    <2>1. /\ DOMAIN ports[q] = PortFields
          /\ ports'[q] = IF q = p THEN [ports[p] EXCEPT !.requests = @ \cup {r}, !.nextSeq = @ + 1,
                                                        !.transfers = IF moves THEN @ + 1 ELSE @]
                         ELSE ports[q]
      BY <1>0, <1>5, ZenonT(30) DEF Shape
    <2> QED BY <1>6, <2>1, ZenonT(30) DEF PortFields
  <1>8. ASSUME NEW i \in Conns
        PROVE  /\ conns'[i].state = conns[i].state /\ conns'[i].gen = conns[i].gen
               /\ conns'[i].port = conns[i].port /\ conns'[i].events = conns[i].events
               /\ i # j => conns'[i].outstanding = conns[i].outstanding /\ conns'[i].transfers = conns[i].transfers
               /\ i = j => /\ conns'[i].outstanding = conns[i].outstanding + 1
                           /\ conns'[i].transfers = IF r.moves THEN conns[i].transfers + 1 ELSE conns[i].transfers
    <2>1. /\ DOMAIN conns[i] = ConnFields
          /\ conns'[i] = IF i = j THEN [conns[j] EXCEPT !.outstanding = @ + 1,
                                                        !.transfers = IF moves THEN @ + 1 ELSE @]
                         ELSE conns[i]
      BY <1>0, <1>5, ZenonT(30) DEF Shape
    <2> QED BY <1>6, <2>1 DEF ConnFields
  <1>9. r.moves \in BOOLEAN /\ ~SendFull(j, p, r.moves)
    BY <1>5, <1>6
  <1>10. Sending(j, p, r)
    BY <1>1, <1>2, <1>6, <1>7, <1>8, <1>9, ZenonT(30) DEF Sending
  <1> QED BY <1>5, <1>10, ZenonT(30)

(* The counters in front of a queue are natural numbers. *)
LEMMA CountersNat ==
  ASSUME PortInv, Counted
  PROVE  /\ \A i \in Conns : conns[i].outstanding \in Nat /\ conns[i].transfers \in Nat
         /\ \A q \in Ports : ports[q].transfers \in Nat /\ Cardinality(ports[q].requests) \in Nat
  <1>1. ASSUME NEW R, IsFiniteSet(R) PROVE Cardinality(R) \in Nat /\ Moving(R) \in Nat
    <2>1. R \in SUBSET R
      OBVIOUS
    <2> QED BY <1>1, <2>1, CountDrop, ZenonT(30)
  <1>2. \A i \in Conns : IsFiniteSet(Queued(i))
    BY QueuedFinite, ZenonT(30) DEF Counted, PortCounted
  <1>3. \A i \in Conns : conns[i].outstanding \in Nat /\ conns[i].transfers \in Nat
    BY <1>1, <1>2, ZenonT(30) DEF Counted, ConnCounted
  <1>4. \A q \in Ports : ports[q].transfers \in Nat /\ Cardinality(ports[q].requests) \in Nat
    BY <1>1 DEF Counted, PortCounted
  <1> QED BY <1>3, <1>4

(* A port's queue after SEND: one more than before, still within its limits. *)
LEMMA SendPortCounted ==
  ASSUME PortInv, Counted, NEW j \in Conns, NEW p \in Ports, NEW r, Sending(j, p, r)
  PROVE  /\ \A q \in Ports : PortCounted(q)'
         /\ Cardinality(ports'[p].requests) = Cardinality(ports[p].requests) + 1
  <1>0. /\ MaxTransfers \in Nat /\ RequestDepth \in Nat /\ MaxOutstanding \in Nat
        /\ MaxConnTransfers \in Nat
    BY Limits DEF PortInv
  <1>1. PICK R : R = ports[p].requests
    OBVIOUS
  <1>2. PICK Q : Q = R \cup {r}
    BY ZenonT(30)
  <1>3. /\ ports'[p].requests = Q
        /\ ports'[p].transfers = IF r.moves THEN ports[p].transfers + 1 ELSE ports[p].transfers
    BY <1>1, <1>2, ZenonT(30) DEF Sending
  <1>4. /\ IsFiniteSet(Q) /\ Cardinality(R) \in Nat /\ Moving(R) \in Nat
        /\ Cardinality(Q) = Cardinality(R) + 1
        /\ r.moves => Moving(Q) = Moving(R) + 1
        /\ ~r.moves => Moving(Q) = Moving(R)
    <2>1. IsFiniteSet(R) /\ r \notin R
      BY <1>1, ZenonT(30) DEF Counted, PortCounted, Sending
    <2> QED BY <1>2, <2>1, CountAdd, ZenonT(30)
  <1>5. ~(Cardinality(R) >= RequestDepth) /\ (r.moves => ~(ports[p].transfers >= MaxTransfers))
    <2>1. ~SendFull(j, p, r.moves)
      BY ZenonT(30) DEF Sending
    <2> QED BY <1>1, <2>1, ZenonT(30) DEF SendFull
  <1>6. PortCounted(p)'
    <2>1. ports[p].transfers = Moving(R) /\ ports[p].transfers <= MaxTransfers
      BY <1>1, ZenonT(30) DEF Counted, PortCounted
    <2>2. ports'[p].transfers = Moving(Q) /\ ports'[p].transfers <= MaxTransfers /\ Cardinality(Q) <= RequestDepth
      <3>1. CASE r.moves
        BY <1>0, <1>3, <1>4, <1>5, <2>1, <3>1, CounterUp, ZenonT(30)
      <3>2. CASE ~r.moves
        BY <1>0, <1>3, <1>4, <1>5, <2>1, <3>2, CounterUp, ZenonT(30)
      <3> QED BY <3>1, <3>2
    <2> QED BY <1>3, <1>4, <2>2, ZenonT(30) DEF PortCounted, Moving
  <1>7. ASSUME NEW q \in Ports, q # p PROVE PortCounted(q)'
    <2>1. PortCounted(q) /\ ports'[q].requests = ports[q].requests /\ ports'[q].transfers = ports[q].transfers
      BY <1>7, ZenonT(30) DEF Counted, Sending
    <2> QED BY <2>1, PortCountedKept
  <1> QED BY <1>1, <1>3, <1>4, <1>6, <1>7, ZenonT(30)

(* The counters of the connections after SEND. *)
LEMMA SendConnCounted ==
  ASSUME PortInv, PortInv', Counted, bound' = bound, NEW j \in Conns, NEW p \in Ports, NEW r, Sending(j, p, r)
  PROVE  \A i \in Conns : ConnCounted(i)'
  <1>0. /\ MaxTransfers \in Nat /\ RequestDepth \in Nat /\ MaxOutstanding \in Nat
        /\ MaxConnTransfers \in Nat /\ MaxOutstanding' = MaxOutstanding /\ Conns' = Conns
    BY Limits, ZenonT(30) DEF PortInv, MaxOutstanding, Conns
  <1>1. ASSUME NEW i \in Conns PROVE ConnCounted(i) /\ conns'[i].events \in Nat /\ conns'[i].events <= EventDepth
    BY ZenonT(30) DEF Counted, ConnCounted, Sending
  <1>2. ASSUME NEW i \in Conns, i # j PROVE ConnCounted(i)'
    <2>1. \A q \in Ports : {x \in ports'[q].requests : x.conn.slot = i} = {x \in ports[q].requests : x.conn.slot = i}
      <3>1. ASSUME NEW q \in Ports
            PROVE  ports'[q].requests = ports[q].requests \/ ports'[q].requests = ports[q].requests \cup {r}
        BY ZenonT(30) DEF Sending
      <3>2. r.conn.slot # i
        BY <1>2, ZenonT(30) DEF Sending
      <3> QED BY <3>1, <3>2, ZenonT(30)
    <2>2. /\ conns'[i].gen = conns[i].gen /\ conns'[i].state = conns[i].state /\ conns'[i].port = conns[i].port
          /\ conns'[i].outstanding = conns[i].outstanding /\ conns'[i].transfers = conns[i].transfers
      BY <1>2, ZenonT(30) DEF Sending
    <2> QED BY <1>1, <2>1, <2>2, ConnCountedKept, ZenonT(30)
  <1>3. PICK R : R = Queued(j)
    OBVIOUS
  <1>4. PICK Q : Q = R \cup {r}
    BY ZenonT(30)
  <1>5. Queued(j)' = Q /\ r \notin R
    <2>1. Queued(j) = {x \in ports[p].requests : x.conn.slot = j}
      BY QueuedOf, ZenonT(30) DEF AllQueued, QueuedFacts, Sending
    <2>2. Queued(j)' = {x \in ports'[p].requests : x.conn.slot = j}
      <3>1. AllQueued'
        BY QueuedOf, PTL
      <3>2. conns'[j].port = Key(p)'
        BY DEF Sending, Key
      <3> QED BY <1>0, <3>1, <3>2, ZenonT(30) DEF AllQueued, QueuedFacts
    <2>3. ports'[p].requests = ports[p].requests \cup {r} /\ r.conn.slot = j /\ r \notin ports[p].requests
      BY ZenonT(30) DEF Sending
    <2> QED BY <1>3, <1>4, <2>1, <2>2, <2>3, ZenonT(30)
  <1>6. IsFiniteSet(R)
    BY <1>3, QueuedFinite DEF Counted, PortCounted
  <1>7. /\ Cardinality(R) \in Nat /\ Moving(R) \in Nat
        /\ Cardinality(Q) = Cardinality(R) + 1
        /\ r.moves => Moving(Q) = Moving(R) + 1
        /\ ~r.moves => Moving(Q) = Moving(R)
    BY <1>4, <1>5, <1>6, CountAdd, ZenonT(30)
  <1>8. /\ conns'[j].outstanding = Cardinality(Q) /\ conns'[j].outstanding <= MaxOutstanding
        /\ conns'[j].transfers = Moving(Q) /\ conns'[j].transfers <= MaxConnTransfers
    <2>1. /\ conns[j].outstanding = Cardinality(R) /\ conns[j].outstanding <= MaxOutstanding
          /\ conns[j].transfers = Moving(R) /\ conns[j].transfers <= MaxConnTransfers
      BY <1>1, <1>3, ZenonT(30) DEF ConnCounted
    <2>2. /\ ~SendFull(j, p, r.moves) /\ conns'[j].outstanding = conns[j].outstanding + 1
          /\ conns'[j].transfers = IF r.moves THEN conns[j].transfers + 1 ELSE conns[j].transfers
      BY ZenonT(30) DEF Sending
    <2>3. ~(conns[j].outstanding >= MaxOutstanding) /\ (r.moves => ~(conns[j].transfers >= MaxConnTransfers))
      BY <2>2, ZenonT(30) DEF SendFull
    <2>4. CASE r.moves
      BY <1>0, <1>7, <2>1, <2>2, <2>3, <2>4, CounterUp, ZenonT(30)
    <2>5. CASE ~r.moves
      BY <1>0, <1>7, <2>1, <2>2, <2>3, <2>5, CounterUp, ZenonT(30)
    <2> QED BY <2>4, <2>5
  <1>9. ConnCounted(j)'
    BY <1>0, <1>1, <1>5, <1>8, ZenonT(30) DEF ConnCounted
  <1> QED BY <1>2, <1>9, ZenonT(30)

(* A queue that was full for somebody is full for them after SEND as well. *)
LEMMA SendSpaceKept ==
  ASSUME PortInv, Counted, bound' = bound, NEW j \in Conns, NEW p \in Ports, NEW r, Sending(j, p, r)
  PROVE  SpaceKept({ServerKey(p)})
  <1>0. /\ MaxTransfers \in Nat /\ RequestDepth \in Nat /\ MaxOutstanding \in Nat
        /\ MaxConnTransfers \in Nat /\ MaxOutstanding' = MaxOutstanding
    BY Limits, ZenonT(30) DEF PortInv, MaxOutstanding
  <1>1. ASSUME NEW i \in Conns, NEW q \in Ports, NEW m, SendFull(i, q, m)
        PROVE  SendFull(i, q, m)'
    <2>1. /\ conns[i].outstanding \in Nat /\ conns[i].transfers \in Nat
          /\ ports[q].transfers \in Nat /\ Cardinality(ports[q].requests) \in Nat
      BY CountersNat, ZenonT(30)
    <2>2. conns'[i].outstanding >= conns[i].outstanding /\ conns'[i].transfers >= conns[i].transfers
          /\ conns'[i].outstanding \in Nat /\ conns'[i].transfers \in Nat
      <3>1. CASE i = j
        <4>1. /\ conns'[i].outstanding = conns[i].outstanding + 1
              /\ conns'[i].transfers = IF r.moves THEN conns[i].transfers + 1 ELSE conns[i].transfers
          BY <3>1, ZenonT(30) DEF Sending
        <4>2. conns'[i].outstanding = IF TRUE THEN conns[i].outstanding + 1 ELSE conns[i].outstanding
          BY <4>1, ZenonT(30)
        <4> QED BY <2>1, <4>1, <4>2, CounterStays, ZenonT(30)
      <3>2. CASE i # j
        BY <2>1, <3>2, CounterSame, ZenonT(30) DEF Sending
      <3> QED BY <3>1, <3>2
    <2>3. ports'[q].transfers >= ports[q].transfers /\ ports'[q].transfers \in Nat
      <3>1. CASE q = p
        <4>1. ports'[q].transfers = IF r.moves THEN ports[q].transfers + 1 ELSE ports[q].transfers
          BY <3>1, ZenonT(30) DEF Sending
        <4> QED BY <2>1, <4>1, CounterStays, ZenonT(30)
      <3>2. CASE q # p
        BY <2>1, <3>2, CounterSame, ZenonT(30) DEF Sending
      <3> QED BY <3>1, <3>2
    <2>4. /\ Cardinality(ports'[q].requests) >= Cardinality(ports[q].requests)
          /\ Cardinality(ports'[q].requests) \in Nat
      <3>1. CASE q = p
        BY <2>1, <3>1, SendPortCounted
      <3>2. CASE q # p
        <4>1. ports'[q].requests = ports[q].requests
          BY <3>2, ZenonT(30) DEF Sending
        <4> QED BY <2>1, <4>1, CounterSame, ZenonT(30)
      <3> QED BY <3>1, <3>2, ZenonT(30)
    <2>5. /\ conns[i].outstanding >= MaxOutstanding => conns'[i].outstanding >= MaxOutstanding
          /\ Cardinality(ports[q].requests) >= RequestDepth => Cardinality(ports'[q].requests) >= RequestDepth
          /\ conns[i].transfers >= MaxConnTransfers => conns'[i].transfers >= MaxConnTransfers
          /\ ports[q].transfers >= MaxTransfers => ports'[q].transfers >= MaxTransfers
      BY <1>0, <2>1, <2>2, <2>3, <2>4, CounterAt, ZenonT(30)
    <2> QED BY <1>0, <1>1, <2>5, ZenonT(30) DEF SendFull
  <1>2. \A i \in Conns : /\ conns'[i].state = conns[i].state /\ conns'[i].gen = conns[i].gen
                         /\ conns'[i].port = conns[i].port
    BY ZenonT(30) DEF Sending
  <1>3. \A q \in Ports : ports'[q].live = ports[q].live /\ ports'[q].gen = ports[q].gen
    BY ZenonT(30) DEF Sending
  <1> QED BY <1>1, <1>2, <1>3, ZenonT(30) DEF SpaceKept

(* SEND keeps the second invariant: a server that waits for the port is woken or
   given a bit. *)
LEMMA SendQueues ==
  ASSUME PortInv, PortInv', QueueInv, bound' = bound, NEW c, NEW j \in Conns, NEW moves \in BOOLEAN,
         Send(c, j, moves)
  PROVE  QueueInv'
  <1>0. /\ WaitShape /\ Counted /\ Signalled /\ (\A h \in Holders : Parked(h))
        /\ Conns' = Conns /\ Servers' = Servers /\ Holders' = Holders
    BY DEF QueueInv, Servers, Holders, Clients, Conns
  <1>1. PICK p \in Ports : \E r : /\ Sending(j, p, r) /\ drained' = drained
                                  /\ Apply({ServerKey(p)}, Signals(p, "request"))
    BY SendFacts, ZenonT(30)
  <1>2. PICK r : Sending(j, p, r) /\ drained' = drained /\ Apply({ServerKey(p)}, Signals(p, "request"))
    BY <1>1
  <1>3. \A q \in Ports : PortCounted(q)'
    BY <1>0, <1>2, SendPortCounted, ZenonT(30)
  <1>4. \A i \in Conns : ConnCounted(i)'
    BY <1>0, <1>2, SendConnCounted, ZenonT(30)
  <1>5. ASSUME NEW q \in Ports
        PROVE  /\ ports'[q].live = ports[q].live /\ ports'[q].gen = ports[q].gen
               /\ ports'[q].server = ports[q].server /\ ports'[q].wake = ports[q].wake
               /\ q # p => ports'[q].requests = ports[q].requests
    BY <1>2, ZenonT(30) DEF Sending
  <1>6. ASSUME NEW i \in Conns
        PROVE  /\ conns'[i].state = conns[i].state /\ conns'[i].gen = conns[i].gen
               /\ conns'[i].port = conns[i].port /\ conns'[i].events = conns[i].events
    BY <1>2, ZenonT(30) DEF Sending
  <1>7. \A q \in Ports : HasWork(q)' => HasWork(q) \/ q = p
    <2>1. \A q \in Ports : Key(q)' = Key(q)
      BY <1>5 DEF Key
    <2>2. \A q \in Ports : Notices(q)' = Notices(q)
      BY <1>0, <1>6, <2>1, ZenonT(30) DEF Notices, BoundTo
    <2> QED BY <1>5, <2>1, <2>2, ZenonT(30) DEF HasWork
  <1>8. ServerKept({ServerKey(p)}) /\ ConnKept({ServerKey(p)})
    BY <1>5, <1>6, <1>7, ZenonT(30) DEF ServerKept, ConnKept
  <1>9. SpaceKept({ServerKey(p)})
    BY <1>0, <1>2, SendSpaceKept, ZenonT(30)
  <1>10. /\ WaitShape' /\ Woken({ServerKey(p)})
         /\ \A t \in Servers : /\ ready[t] \subseteq ready'[t]
                               /\ \A bit \in {"request", "notice"} : <<t, bit>> \in Signals(p, "request") => ready'[t] # {}
    BY <1>0, <1>2, ApplyWakes, ZenonT(30)
  <1>11. (\A h \in Holders : Parked(h))'
    BY <1>0, <1>8, <1>9, <1>10, WokenParked, ZenonT(30)
  <1>12. Signalled'
    <2>1. \A q \in Ports : ports[q].live => ports[q].server \in Servers
      BY <1>0, ZenonT(30) DEF Signalled
    <2>2. ports[p].live
      BY <1>2, ZenonT(30) DEF Sending
    <2>3. ports[p].wake => ready'[ports[p].server] # {}
      BY <1>10, <2>1, <2>2, ZenonT(30) DEF Signals
    <2>4. ASSUME NEW q \in Ports, ports'[q].live
          PROVE  /\ ports[q].live /\ ports'[q].server = ports[q].server
                 /\ ports'[q].wake /\ HasWork(q)' => (ports[q].wake /\ HasWork(q)) \/ ready'[ports[q].server] # {}
                 /\ drained'[ports[q].server] => drained[ports[q].server]
                 /\ ready[ports[q].server] \subseteq ready'[ports[q].server]
      BY <1>2, <1>5, <1>7, <1>10, <2>1, <2>3, <2>4, ZenonT(30)
    <2> QED BY <1>0, <2>4, SignalledKept, ZenonT(30)
  <1> QED BY <1>0, <1>3, <1>4, <1>10, <1>11, <1>12, ZenonT(30) DEF QueueInv, Counted

(* RECV of request r of connection j: what leaves the queue of port p. *)
Receiving(j, p, r) ==
  /\ r \in ports[p].requests /\ r.conn.slot = j /\ conns[j].state = "Open" /\ conns[j].port = Key(p)
  /\ \A q \in Ports :
       /\ ports'[q].live = ports[q].live /\ ports'[q].gen = ports[q].gen
       /\ ports'[q].server = ports[q].server /\ ports'[q].wake = ports[q].wake
       /\ q # p => ports'[q].requests = ports[q].requests /\ ports'[q].transfers = ports[q].transfers
       /\ q = p => /\ ports'[q].requests = ports[q].requests \ {r}
                   /\ ports'[q].transfers = IF r.moves THEN ports[q].transfers - 1 ELSE ports[q].transfers
  /\ \A i \in Conns :
       /\ conns'[i].state = conns[i].state /\ conns'[i].gen = conns[i].gen
       /\ conns'[i].port = conns[i].port /\ conns'[i].events = conns[i].events
       /\ i # j => conns'[i].outstanding = conns[i].outstanding /\ conns'[i].transfers = conns[i].transfers
       /\ i = j => /\ conns'[i].outstanding = conns[i].outstanding - 1
                   /\ conns'[i].transfers = IF r.moves THEN conns[i].transfers - 1 ELSE conns[i].transfers

(* What RECV of a request does is that, for some connection and request. *)
LEMMA RecvFacts ==
  ASSUME PortInv, NEW s, NEW p \in Ports, RecvRequest(s, p)
  PROVE  \E j \in Conns : \E r : Receiving(j, p, r)
  <1>0. Shape
    BY DEF PortInv
  <1>1. PICK r \in ports[p].requests :
          /\ ports' = [ports EXCEPT ![p].requests = @ \ {r}, ![p].transfers = IF r.moves THEN @ - 1 ELSE @]
          /\ conns' = IF conns[r.conn.slot].gen = r.conn.gen
                        THEN [conns EXCEPT ![r.conn.slot].outstanding = @ - 1,
                                           ![r.conn.slot].transfers = IF r.moves THEN @ - 1 ELSE @]
                        ELSE conns
    BY ZenonT(30) DEF RecvRequest
  <1>2. PICK j \in Conns : /\ j = r.conn.slot /\ r.conn = ConnId(j) /\ conns[j].state = "Open"
                           /\ conns[j].port = Key(p)
    BY ZenonT(30) DEF PortInv, Backed
  <1>3. conns' = [conns EXCEPT ![j].outstanding = @ - 1, ![j].transfers = IF r.moves THEN @ - 1 ELSE @]
    BY <1>1, <1>2 DEF ConnId
  <1>4. ASSUME NEW q \in Ports
        PROVE  /\ ports'[q].live = ports[q].live /\ ports'[q].gen = ports[q].gen
               /\ ports'[q].server = ports[q].server /\ ports'[q].wake = ports[q].wake
               /\ q # p => ports'[q].requests = ports[q].requests /\ ports'[q].transfers = ports[q].transfers
               /\ q = p => /\ ports'[q].requests = ports[q].requests \ {r}
                           /\ ports'[q].transfers = IF r.moves THEN ports[q].transfers - 1 ELSE ports[q].transfers
    <2>1. /\ DOMAIN ports[q] = PortFields
          /\ ports'[q] = IF q = p THEN [ports[p] EXCEPT !.requests = @ \ {r},
                                                        !.transfers = IF r.moves THEN @ - 1 ELSE @]
                         ELSE ports[q]
      BY <1>0, <1>1, ZenonT(30) DEF Shape
    <2> QED BY <2>1, ZenonT(30) DEF PortFields
  <1>5. ASSUME NEW i \in Conns
        PROVE  /\ conns'[i].state = conns[i].state /\ conns'[i].gen = conns[i].gen
               /\ conns'[i].port = conns[i].port /\ conns'[i].events = conns[i].events
               /\ i # j => conns'[i].outstanding = conns[i].outstanding /\ conns'[i].transfers = conns[i].transfers
               /\ i = j => /\ conns'[i].outstanding = conns[i].outstanding - 1
                           /\ conns'[i].transfers = IF r.moves THEN conns[i].transfers - 1 ELSE conns[i].transfers
    <2>1. /\ DOMAIN conns[i] = ConnFields
          /\ conns'[i] = IF i = j THEN [conns[j] EXCEPT !.outstanding = @ - 1,
                                                        !.transfers = IF r.moves THEN @ - 1 ELSE @]
                         ELSE conns[i]
      BY <1>0, <1>3, ZenonT(30) DEF Shape
    <2> QED BY <2>1, ZenonT(30) DEF ConnFields
  <1>6. Receiving(j, p, r)
    BY <1>2, <1>4, <1>5, ZenonT(30) DEF Receiving
  <1> QED BY <1>6, ZenonT(30)

(* The counters of the port after RECV. *)
LEMMA RecvPortCounted ==
  ASSUME PortInv, Counted, NEW j \in Conns, NEW p \in Ports, NEW r, Receiving(j, p, r)
  PROVE  \A q \in Ports : PortCounted(q)'
  <1>0. MaxTransfers \in Nat /\ RequestDepth \in Nat
    BY Limits DEF PortInv
  <1>1. PICK R : R = ports[p].requests
    OBVIOUS
  <1>2. PICK Q : Q = R \ {r}
    BY ZenonT(30)
  <1>3. /\ ports'[p].requests = Q /\ r \in R
        /\ ports'[p].transfers = IF r.moves THEN ports[p].transfers - 1 ELSE ports[p].transfers
    BY <1>1, <1>2, ZenonT(30) DEF Receiving
  <1>4. IsFiniteSet(R) /\ ports[p].transfers = Moving(R) /\ ports[p].transfers <= MaxTransfers
        /\ Cardinality(R) <= RequestDepth
    BY <1>1, ZenonT(30) DEF Counted, PortCounted
  <1>5. /\ IsFiniteSet(Q) /\ Cardinality(R) \in Nat /\ Moving(R) \in Nat
        /\ Cardinality(Q) = Cardinality(R) - 1
        /\ r.moves => Moving(Q) = Moving(R) - 1
        /\ ~r.moves => Moving(Q) = Moving(R)
    BY <1>2, <1>3, <1>4, CountTake
  <1>6. PortCounted(p)'
    <2>1. ports'[p].transfers = Moving(Q) /\ ports'[p].transfers <= MaxTransfers /\ Cardinality(Q) <= RequestDepth
      <3>1. CASE r.moves
        BY <1>0, <1>3, <1>4, <1>5, <3>1, CounterDown, ZenonT(30)
      <3>2. CASE ~r.moves
        BY <1>0, <1>3, <1>4, <1>5, <3>2, CounterDown, ZenonT(30)
      <3> QED BY <3>1, <3>2
    <2> QED BY <1>3, <1>5, <2>1, ZenonT(30) DEF PortCounted, Moving
  <1>7. ASSUME NEW q \in Ports, q # p PROVE PortCounted(q)'
    <2>1. PortCounted(q) /\ ports'[q].requests = ports[q].requests /\ ports'[q].transfers = ports[q].transfers
      BY <1>7, ZenonT(30) DEF Counted, Receiving
    <2> QED BY <2>1, PortCountedKept
  <1> QED BY <1>6, <1>7, ZenonT(30)

(* The counters of the connections after RECV. *)
LEMMA RecvConnCounted ==
  ASSUME PortInv, PortInv', Counted, bound' = bound, NEW j \in Conns, NEW p \in Ports, NEW r, Receiving(j, p, r)
  PROVE  \A i \in Conns : ConnCounted(i)'
  <1>0. MaxOutstanding \in Nat /\ MaxConnTransfers \in Nat /\ MaxOutstanding' = MaxOutstanding /\ Conns' = Conns
    BY Limits, ZenonT(30) DEF PortInv, MaxOutstanding, Conns
  <1>1. ASSUME NEW i \in Conns PROVE ConnCounted(i) /\ conns'[i].events \in Nat /\ conns'[i].events <= EventDepth
    BY ZenonT(30) DEF Counted, ConnCounted, Receiving
  <1>2. ASSUME NEW i \in Conns, i # j PROVE ConnCounted(i)'
    <2>1. \A q \in Ports : ports'[q].requests = ports[q].requests \/ ports'[q].requests = ports[q].requests \ {r}
      BY ZenonT(30) DEF Receiving
    <2>2. /\ r.conn.slot # i
          /\ conns'[i].outstanding = conns[i].outstanding /\ conns'[i].transfers = conns[i].transfers
      BY <1>2, ZenonT(30) DEF Receiving
    <2>3. \A q \in Ports : {x \in ports'[q].requests : x.conn.slot = i} = {x \in ports[q].requests : x.conn.slot = i}
      BY <2>1, <2>2, ZenonT(30)
    <2> QED BY <1>1, <2>2, <2>3, ConnCountedKept, ZenonT(30)
  <1>3. PICK R : R = Queued(j)
    OBVIOUS
  <1>4. PICK Q : Q = R \ {r}
    BY ZenonT(30)
  <1>5. Queued(j)' = Q /\ r \in R
    <2>1. Queued(j) = {x \in ports[p].requests : x.conn.slot = j}
      BY QueuedOf DEF AllQueued, QueuedFacts, Receiving
    <2>2. Queued(j)' = {x \in ports'[p].requests : x.conn.slot = j}
      <3>1. AllQueued'
        BY QueuedOf, PTL
      <3>2. conns'[j].port = Key(p)'
        BY DEF Receiving, Key
      <3> QED BY <1>0, <3>1, <3>2, ZenonT(30) DEF AllQueued, QueuedFacts
    <2>3. ports'[p].requests = ports[p].requests \ {r} /\ r.conn.slot = j /\ r \in ports[p].requests
      BY ZenonT(30) DEF Receiving
    <2> QED BY <1>3, <1>4, <2>1, <2>2, <2>3, ZenonT(30)
  <1>6. IsFiniteSet(R)
    BY <1>3, QueuedFinite DEF Counted, PortCounted
  <1>7. /\ Cardinality(R) \in Nat /\ Moving(R) \in Nat
        /\ Cardinality(Q) = Cardinality(R) - 1
        /\ r.moves => Moving(Q) = Moving(R) - 1
        /\ ~r.moves => Moving(Q) = Moving(R)
    BY <1>4, <1>5, <1>6, CountTake, ZenonT(30)
  <1>8. /\ conns'[j].outstanding = Cardinality(Q) /\ conns'[j].outstanding <= MaxOutstanding
        /\ conns'[j].transfers = Moving(Q) /\ conns'[j].transfers <= MaxConnTransfers
    <2>1. /\ conns[j].outstanding = Cardinality(R) /\ conns[j].outstanding <= MaxOutstanding
          /\ conns[j].transfers = Moving(R) /\ conns[j].transfers <= MaxConnTransfers
      BY <1>1, <1>3 DEF ConnCounted
    <2>2. /\ conns'[j].outstanding = conns[j].outstanding - 1
          /\ conns'[j].transfers = IF r.moves THEN conns[j].transfers - 1 ELSE conns[j].transfers
      BY ZenonT(30) DEF Receiving
    <2>3. CASE r.moves
      BY <1>0, <1>7, <2>1, <2>2, <2>3, CounterDown, ZenonT(30)
    <2>4. CASE ~r.moves
      BY <1>0, <1>7, <2>1, <2>2, <2>4, CounterDown, ZenonT(30)
    <2> QED BY <2>3, <2>4
  <1>9. ConnCounted(j)'
    BY <1>0, <1>1, <1>5, <1>8, ZenonT(30) DEF ConnCounted
  <1> QED BY <1>2, <1>9

(* RECV of a request makes room in the queues it was counted in, and wakes who waits
   for room. *)
LEMMA RecvRequestQueues ==
  ASSUME PortInv, PortInv', QueueInv, bound' = bound, NEW s, NEW p \in Ports, RecvRequest(s, p)
  PROVE  QueueInv'
  <1>0. /\ WaitShape /\ Counted /\ Signalled /\ (\A h \in Holders : Parked(h))
        /\ Conns' = Conns /\ Servers' = Servers /\ Holders' = Holders
    BY DEF QueueInv, Servers, Holders, Clients, Conns
  <1>1. PICK j \in Conns : \E r : Receiving(j, p, r)
    BY RecvFacts
  <1>2. PICK r : Receiving(j, p, r)
    BY <1>1, ZenonT(30)
  <1>3. Apply({SpaceKey(p)}, {}) /\ drained' = drained
    BY DEF RecvRequest
  <1>4. (\A q \in Ports : PortCounted(q)') /\ (\A i \in Conns : ConnCounted(i)')
    BY <1>0, <1>2, RecvPortCounted, RecvConnCounted, ZenonT(30)
  <1>5. ASSUME NEW q \in Ports
        PROVE  /\ ports'[q].live = ports[q].live /\ ports'[q].gen = ports[q].gen
               /\ ports'[q].server = ports[q].server /\ ports'[q].wake = ports[q].wake
               /\ ports'[q].requests \subseteq ports[q].requests
               /\ q # p => ports'[q].requests = ports[q].requests /\ ports'[q].transfers = ports[q].transfers
    BY <1>2 DEF Receiving
  <1>6. ASSUME NEW i \in Conns
        PROVE  /\ conns'[i].state = conns[i].state /\ conns'[i].gen = conns[i].gen
               /\ conns'[i].port = conns[i].port /\ conns'[i].events = conns[i].events
               /\ i # j => conns'[i].outstanding = conns[i].outstanding /\ conns'[i].transfers = conns[i].transfers
    BY <1>2, ZenonT(30) DEF Receiving
  <1>7. \A q \in Ports : HasWork(q)' => HasWork(q)
    <2>1. \A q \in Ports : Key(q)' = Key(q)
      BY <1>5, ZenonT(30) DEF Key
    <2>2. \A q \in Ports : Notices(q)' = Notices(q)
      BY <1>0, <1>6, <2>1, ZenonT(30) DEF Notices, BoundTo
    <2> QED BY <1>5, <2>1, <2>2, ZenonT(30) DEF HasWork
  <1>8. ServerKept({SpaceKey(p)}) /\ ConnKept({SpaceKey(p)})
    BY <1>5, <1>6, <1>7, ZenonT(30) DEF ServerKept, ConnKept
  <1>9. SpaceKept({SpaceKey(p)})
    <2> SUFFICES ASSUME NEW i \in Conns, NEW q \in Ports, conns[i].state = "Open", conns[i].port = Key(q),
                        ports[q].live, SpaceKey(q) \notin {SpaceKey(p)}
                 PROVE  \A moves : SendFull(i, q, moves) => SendFull(i, q, moves)'
      BY <1>5, <1>6, ZenonT(30) DEF SpaceKept
    <2>1. q # p /\ conns[j].port = Key(p)
      BY <1>2, ZenonT(30) DEF Receiving
    <2>2. i # j
      BY <2>1, SameKey, ZenonT(30)
    <2> QED BY <1>5, <1>6, <2>1, <2>2, FullKept, ZenonT(30)
  <1>10. WaitShape' /\ Woken({SpaceKey(p)}) /\ \A t \in Servers : ready[t] \subseteq ready'[t]
    BY <1>0, <1>3, ApplyWakes, ZenonT(30)
  <1>11. (\A h \in Holders : Parked(h))'
    BY <1>0, <1>8, <1>9, <1>10, WokenParked, ZenonT(30)
  <1>12. Signalled'
    <2>1. \A q \in Ports : ports[q].live => ports[q].server \in Servers
      BY <1>0 DEF Signalled
    <2> QED BY <1>0, <1>3, <1>5, <1>7, <1>10, <2>1, SignalledKept, ZenonT(30)
  <1> QED BY <1>0, <1>4, <1>10, <1>11, <1>12, ZenonT(30) DEF QueueInv, Counted
=============================================================================
