------------------------------- MODULE MCTcp -------------------------------
(* TcpTransport for TLC: a client that sends to a peer whose window closes and
   opens, a client that receives more than its ring holds, and a client that
   does both. *)
EXTENDS TcpTransport

MCBounds == {[app |-> 2, peer |-> 0, windows |-> {0, 2}, faults |-> 1],
             [app |-> 0, peer |-> 3, windows |-> {2}, faults |-> 1],
             [app |-> 1, peer |-> 1, windows |-> {2}, faults |-> 0]}
============================================================================
