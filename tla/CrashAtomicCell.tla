-------------------------- MODULE CrashAtomicCell --------------------------
(***************************************************************************)
(* What the object store promises its client, without slots, generations   *)
(* or blocks (docs/ARCHITECTURE.md, "the commit point is the successful     *)
(* return from the flush").  stable is the value a power loss would leave  *)
(* behind (the empty set before there is one), acked the last value whose  *)
(* commit was acknowledged, tried the values of commits that have no       *)
(* positive answer.  A power loss exposes the acknowledged value or one    *)
(* that was tried since, and nothing else.                                 *)
(***************************************************************************)
VARIABLES stable, acked, tried

Init == stable = {} /\ acked = {} /\ tried = {}

(* Commits are started: until one is answered, stable may come to be its value. *)
Try == tried \subseteq tried' /\ UNCHANGED <<stable, acked>>

(* Write-back moves stable between the values it may have. *)
Settle ==
  /\ stable' \in {{v} : v \in acked \cup tried} \cup (IF acked = {} THEN {{}} ELSE {})
  /\ UNCHANGED <<acked, tried>>

(* A commit is acknowledged only once its value is the stable one. *)
Acknowledge ==
  /\ stable # {} /\ stable \subseteq tried
  /\ acked' = stable /\ tried' = {}
  /\ UNCHANGED stable

(* A power loss: what is stable is the acknowledged value from now on.  A value
   that was tried and lost may still turn up after a later power loss, until a
   commit is acknowledged. *)
Lose ==
  /\ stable' \in {{v} : v \in acked \cup tried} \cup (IF acked = {} THEN {{}} ELSE {})
  /\ acked' = stable'
  /\ tried' = tried \ stable'

Next == Try \/ Settle \/ Acknowledge \/ Lose

Spec == Init /\ [][Next]_<<stable, acked, tried>>

=============================================================================
