------------------------------ MODULE MCStorage ------------------------------
(* Two clients that write an object each, of which one reads the other's, two *)
(* slots, and a service that is restarted once.                               *)
EXTENDS Storage
CONSTANTS c1, c2

MCHolds ==
    [c \in Clients |-> IF c = c1 THEN {<<"write", 1>>} ELSE {<<"write", 2>>, <<"read", 1>>}]
=============================================================================
