------------------------- MODULE MCProcessTeardown -------------------------
(* Two processes with two threads each. *)
EXTENDS ProcessTeardown, TLC
CONSTANTS q1, q2, t1, t2, t3, t4
MCOwnerOf == [t \in Threads |-> IF t \in {t1, t2} THEN q1 ELSE q2]

Load(steps, c, b) ==
  [steps |-> steps, caps |-> [s \in Slots |-> c[s + 1]], buffers |-> [s \in BufferSlots |-> b[s + 1]]]

(* A capability slot at generation 0 can be used twice, at 2 once, at 3 no more;
   a buffer slot at generation 0 twice, at 1 once. *)
MCLoads ==
  {Load({"client"}, <<0, 0, 0>>, <<0, 2>>),
   Load({"client"}, <<0, 2, 3>>, <<0, 0>>),
   Load({"kernel"}, <<3, 3, 3>>, <<0, 1>>),
   Load({"client", "kernel"}, <<2, 2, 3>>, <<1, 1>>),
   Load({"sets"}, <<3, 3, 3>>, <<2, 2>>),
   Load({"sets", "client"}, <<2, 3, 3>>, <<1, 2>>),
   Load({"input"}, <<3, 3, 3>>, <<2, 2>>)}

(* The processes are alike, and so are the threads of each. *)
Swap == (q1 :> q2) @@ (q2 :> q1) @@ (t1 :> t3) @@ (t3 :> t1) @@ (t2 :> t4) @@ (t4 :> t2)
Threading == {(q1 :> q1) @@ (q2 :> q2) @@ f @@ g : f \in Permutations({t1, t2}), g \in Permutations({t3, t4})}
Symmetric == Threading \cup {[x \in DOMAIN f |-> Swap[f[x]]] : f \in Threading}
=============================================================================
