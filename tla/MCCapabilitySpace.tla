------------------------- MODULE MCCapabilitySpace -------------------------
(* An instance of CapabilitySpace for TLC: two processes of the Linux
   personality, which may fork and are interchangeable. *)
EXTENDS CapabilitySpace, TLC

CONSTANTS linux1, linux2, obj

ProcessSymmetry == Permutations({linux1, linux2})

=============================================================================
