---------------------------- MODULE PortInvariant ----------------------------
(* The invariant of service ports that the proofs rest on. *)
EXTENDS PortEngine

PortFields == {"gen", "live", "server", "nextSeq", "transfers", "wake", "requests"}
ConnFields == {"gen", "state", "port", "client", "outstanding", "transfers", "closeSeq", "events"}

Shape ==
  /\ bound \in Bounds
  /\ ports = [p \in Ports |-> ports[p]] /\ \A p \in Ports : DOMAIN ports[p] = PortFields
  /\ conns = [i \in Conns |-> conns[i]] /\ \A i \in Conns : DOMAIN conns[i] = ConnFields
  /\ taken = [p \in Ports |-> taken[p]]

(* The requests of a live port carry different sequence numbers, between the last
   one delivered and the next one given out. *)
Ordered ==
  \A p \in Ports :
    /\ ports[p].live =>
         /\ ports[p].nextSeq \in Nat /\ taken[p] \in Nat /\ taken[p] < ports[p].nextSeq
         /\ \A r \in ports[p].requests : r.seq \in Nat /\ taken[p] < r.seq /\ r.seq < ports[p].nextSeq
         /\ \A q, r \in ports[p].requests : q.seq = r.seq => q = r
    /\ ~ports[p].live => ports[p].requests = {}

(* The server of a live port runs. *)
Served == \A p \in Ports : ports[p].live => ports[p].server \notin gone

(* A connection that was not told of its end has a live port. *)
Attached ==
  \A i \in Conns : conns[i].state \notin {"Free", "ServerGone"} =>
    \E p \in Ports : ports[p].live /\ conns[i].port = Key(p)

(* A queued request comes from a connection that is open on the same port. *)
Backed ==
  \A p \in Ports : \A r \in ports[p].requests :
    /\ r.conn.slot \in Conns /\ r.conn = ConnId(r.conn.slot)
    /\ conns[r.conn.slot].state = "Open" /\ conns[r.conn.slot].port = Key(p)

(* An undelivered child is that of a queued transfer. *)
Carried ==
  \A k \in children :
    /\ k.from \notin gone /\ k.to \notin gone
    /\ k \in delivered \/ \E p \in Ports : \E r \in ports[p].requests : r.moves /\ k = Child(p, r)

PortInv == Shape /\ Ordered /\ Served /\ Attached /\ Backed /\ Carried

(* What EndsAreReported says of one connection. *)
Reported(i) ==
  /\ conns[i].state = "Open" /\ conns'[i].state = "Free" => conns[i].client \in gone'
  /\ conns[i].state # "Free" /\ conns'[i].state # "Free" =>
       /\ conns'[i].gen = conns[i].gen /\ conns'[i].client = conns[i].client
       /\ conns[i].state # conns'[i].state =>
            conns[i].state = "Open" \/ conns'[i].state = "ServerGone"

=============================================================================
