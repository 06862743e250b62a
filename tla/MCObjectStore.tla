--------------------------- MODULE MCObjectStore ---------------------------
(***************************************************************************)
(* Small instances of ObjectStore.  The byte sums of the blocks are such   *)
(* that no two different payloads share theirs, in whole or in part.       *)
(***************************************************************************)
EXTENDS ObjectStore

CONSTANTS a, c

DistinctBlocks == {a, c}
DistinctSums == [b \in {a, c} |-> IF b = a THEN 1 ELSE 4]
DistinctPayloads == {<< >>, <<a>>, <<c>>, <<a, c>>}

SmallBlocks == {a}
SmallSums == [b \in {a} |-> 1]
SmallPayloads == {<< >>, <<a>>}

CellSpec == Cell!Spec

=============================================================================
