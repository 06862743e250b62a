------------------------ MODULE ProcessTeardownProofs ------------------------
(* The composed system implements the work sets and keeps the invariant of the
   raw-input queue, so that what is proved of them holds of it. *)
EXTENDS ProcessTeardown, TeardownPartsProofs

(* The provers have thirty seconds for a leaf. *)
USE SMTT(30), ZenonT(30)

(* To the work sets, the composed system is the work set component: its
   teardown is their holder exit, and the buffer operations leave them alone. *)
THEOREM ImplementsWorkSets == Spec => SetSpec
  <1>1. Init => SetInit
    BY DEF Init
  <1>2. [Next]_vars => [SetNext]_setVars
    <2> SUFFICES ASSUME [Next]_vars PROVE [SetNext]_setVars
      OBVIOUS
    <2>1. CASE \E p \in Pids : Exit(p)
      BY <2>1, LoadAssumption DEF Exit, SetNext
    <2>2. CASE Next /\ ~(\E p \in Pids : Exit(p))
      BY <2>2 DEF Next, SetNext
    <2>3. CASE UNCHANGED vars
      BY <2>3 DEF vars
    <2> QED BY <2>1, <2>2, <2>3
  <1> QED BY <1>1, <1>2, PTL DEF Spec, SetSpec

(* Whatever the processes do with their buffers, and whenever they exit, no
   thread blocked in WAIT is stranded and no stale binding names the set of
   another holder. *)
THEOREM WorkSetsCorrect == Spec => [](NoStrandedWaiter /\ BindingStaysWithHolder)
  BY ImplementsWorkSets, NoStrandedWaiterCorrect, BindingCorrect, PTL

(* Whoever reads next gets every event that nobody has read, in order, with each
   loss in its place, through full rings, lost devices, partial reads and the exits
   of consumers (push, materialize_pending_overflow, pop, clear_into_loss). *)
THEOREM LossesInOrderCorrect == Spec => []LossesInOrder
  <1>1. Init => InputInv
    BY InputInitInv DEF Init
  <1>2. InputInv /\ [Next]_vars => InputInv'
    <2> SUFFICES ASSUME InputInv, [Next]_vars PROVE InputInv'
      OBVIOUS
    <2>1. CASE \E p \in Pids : Exit(p)
      BY <2>1, ReleaseConsumerInv, ZenonT(30) DEF Exit
    <2>2. CASE InputStep(procs)
      BY <2>2, InputStepInv, ZenonT(30)
    <2>3. CASE UNCHANGED inputVars
      BY <2>3, ZenonT(30) DEF inputVars, InputInv
    <2> QED BY <2>1, <2>2, <2>3, ZenonT(30) DEF Next, vars
  <1> QED BY <1>1, <1>2, InputInvImplies, PTL DEF Spec
=============================================================================
