--------------------------- MODULE ProcessTeardown ---------------------------
(***************************************************************************)
(* What the processes of one kernel hold in common, and the teardown that   *)
(* takes it back (kernel/src/process/domain.rs): shared buffers with their  *)
(* capabilities and windows, work sets with their waiters, and the input    *)
(* queue with its consumer.  The hooks run in the order of                  *)
(* TEARDOWN_HOOK_ORDER in one call, before the process is reaped.           *)
(***************************************************************************)
EXTENDS SharedBuffers, WorkSet, InputQueue

CONSTANT Loads   \* what the processes of a behaviour do, and the slots they find

ASSUME LoadAssumption ==
  /\ Holders = Pids
  /\ \A l \in Loads :
       /\ l.steps \subseteq {"client", "kernel", "sets", "input"}
       /\ l.caps \in [Slots -> 0 .. MaxGen]
       /\ l.buffers \in [BufferSlots -> 0 .. MaxBufferGen]

VARIABLE load    \* chosen at the start

vars == <<bufferVars, setVars, inputVars, load>>

(* run_teardown_hook for InputConsumer, WorkSet, RevokeHolderCapabilities,
   SharedMappings and ThreadReap *)
Exit(p) == ReleaseConsumer(p) /\ HolderExit(p) /\ ExitBuffers(p) /\ UNCHANGED load

Doing(step) == step \in load.steps /\ UNCHANGED load

Init == load \in Loads /\ BufferInit(load.caps, load.buffers) /\ SetInit /\ InputInit

Next ==
  \/ \E p \in Pids : Exit(p)
  \/ Doing("client") /\ ClientStep /\ UNCHANGED <<setVars, inputVars>>
  \/ Doing("kernel") /\ KernelStep /\ UNCHANGED <<setVars, inputVars>>
  \/ Doing("sets") /\ SetStep /\ UNCHANGED <<bufferVars, inputVars>>
  \/ Doing("input") /\ InputStep(procs) /\ UNCHANGED <<bufferVars, setVars>>

Spec == Init /\ [][Next]_vars
=============================================================================
