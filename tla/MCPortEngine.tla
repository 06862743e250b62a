---------------------------- MODULE MCPortEngine ----------------------------
(* Model of PortEngine for TLC: two clients share a server, or two servers  *)
(* register the port in turn while one client reuses a connection slot      *)
(* until its generations run out.  Clients are interchangeable.             *)
EXTENDS PortEngine, TLC

CONSTANTS s1, s2, c1, c2

Traffic == [servers |-> {s1}, clients |-> {c1, c2}, conns |-> {0, 1},
            maxGen |-> 1, maxOutstanding |-> 1]
Reuse == [servers |-> {s1, s2}, clients |-> {c1}, conns |-> {0},
          maxGen |-> 2, maxOutstanding |-> 2]
MCBounds == {Traffic, Reuse}

ClientSymmetry == Permutations({c1, c2})
=============================================================================
