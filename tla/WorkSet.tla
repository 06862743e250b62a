------------------------------- MODULE WorkSet -------------------------------
(***************************************************************************)
(* Work sets (kernel/src/sched/work_set.rs): per-holder sets of sticky      *)
(* ready bits that event sources signal and the owner waits on.  The table  *)
(* is touched only with interrupts masked, so each operation is one action. *)
(* Blocking is block_current_thread_unless: a wake re-executes the WAIT.    *)
(***************************************************************************)
EXTENDS Integers, FiniteSets

CONSTANTS Holders, Threads, OwnerOf, \* OwnerOf \in [Threads -> Holders]
          SetSlots, Bits, NoHolder,
          MaxSetGen                     \* u32::MAX: a slot at this generation is retired

ASSUME WorkSetConstants ==
    /\ OwnerOf \in [Threads -> Holders]
    /\ NoHolder \notin Holders
    /\ MaxSetGen \in Nat \ {0}
    /\ SetSlots \subseteq Nat /\ SetSlots # {}

VARIABLES sets,     \* WORK_SETS
          waiting,  \* thread -> the WAIT it is blocked in, or NotWaiting
          bindings,    \* bindings event sources hold, with the holder that made them
          exited    \* holders whose process is gone

setVars == <<sets, waiting, bindings, exited>>

SetIds == [slot : SetSlots, gen : 1 .. MaxSetGen]
NotWaiting == [on |-> FALSE, id |-> CHOOSE i \in SetIds : TRUE, mask |-> {}, timed |-> FALSE]

EmptySlot(gen) == [gen |-> gen, holder |-> NoHolder, ready |-> {}, armed |-> {}]

LiveId(id) == sets[id.slot].holder # NoHolder /\ sets[id.slot].gen = id.gen
OwnsSet(h, id) == LiveId(id) /\ sets[id.slot].holder = h

\* wake_all_registered(wait_key(id))
WokenOn(id) == [t \in Threads |-> IF waiting[t].on /\ waiting[t].id = id THEN NotWaiting ELSE waiting[t]]

\* A thread that can make a syscall.
Runs(t) == ~waiting[t].on /\ OwnerOf[t] \notin exited

-----------------------------------------------------------------------------
FreeSets == {s \in SetSlots : sets[s].holder = NoHolder /\ sets[s].gen # MaxSetGen}

Create(t) ==
    /\ Runs(t)
    /\ \A s \in SetSlots : sets[s].holder # OwnerOf[t]
    /\ \E s \in FreeSets :
        /\ \A r \in FreeSets : s <= r
        /\ sets' = [sets EXCEPT ![s] = [EmptySlot(@.gen + 1) EXCEPT !.holder = OwnerOf[t]]]
    /\ UNCHANGED <<waiting, bindings, exited>>

\* Mutant: freeing a slot forgets its generation.
FreeForgets(S) == [s \in SetSlots |-> IF s \in S THEN EmptySlot(0) ELSE sets[s]]

\* WorkSetTable::free keeps the generation, so the old id is stale forever.
Free(S) == [s \in SetSlots |-> IF s \in S THEN EmptySlot(sets[s].gen) ELSE sets[s]]

Destroy(t, id) ==
    /\ Runs(t)
    /\ OwnsSet(OwnerOf[t], id)
    /\ sets' = Free({id.slot})
    /\ waiting' = WokenOn(id)
    /\ UNCHANGED <<bindings, exited>>

\* begin_wait with ready bits: they are returned and cleared.
WaitReady(t, id, mask) ==
    /\ Runs(t)
    /\ OwnsSet(OwnerOf[t], id)
    /\ sets[id.slot].ready \cap mask # {}
    /\ sets' = [sets EXCEPT ![id.slot].ready = @ \ mask]
    /\ UNCHANGED <<waiting, bindings, exited>>

\* Mutant: a blocked WAIT replaces the armed mask instead of growing it.
WaitBlockReplaces(t, id, mask, timed) ==
    /\ Runs(t)
    /\ OwnsSet(OwnerOf[t], id)
    /\ sets[id.slot].ready \cap mask = {}
    /\ sets' = [sets EXCEPT ![id.slot].armed = mask]
    /\ waiting' = [waiting EXCEPT ![t] = [on |-> TRUE, id |-> id, mask |-> mask, timed |-> timed]]
    /\ UNCHANGED <<bindings, exited>>

\* Nothing ready: the mask is armed and the thread blocks.
WaitBlock(t, id, mask, timed) ==
    /\ Runs(t)
    /\ OwnsSet(OwnerOf[t], id)
    /\ sets[id.slot].ready \cap mask = {}
    /\ sets' = [sets EXCEPT ![id.slot].armed = @ \cup mask]
    /\ waiting' = [waiting EXCEPT ![t] = [on |-> TRUE, id |-> id, mask |-> mask, timed |-> timed]]
    /\ UNCHANGED <<bindings, exited>>

\* expire_deadlines completes a WAIT that had a deadline.
WaitTimesOut(t) ==
    /\ waiting[t].on
    /\ waiting[t].timed
    /\ waiting' = [waiting EXCEPT ![t] = NotWaiting]
    /\ UNCHANGED <<sets, bindings, exited>>

\* bind: a source remembers a live id of the caller; it never unbinds.
Bind(t, id) ==
    /\ Runs(t)
    /\ OwnsSet(OwnerOf[t], id)
    /\ bindings' = bindings \cup {[id |-> id, holder |-> OwnerOf[t]]}
    /\ UNCHANGED <<sets, waiting, exited>>

\* signal, from a syscall or an interrupt: a stale id is a no-op, and waiters
\* are woken only if an armed bit is newly set.
Signal(b, bit) ==
    /\ LiveId(b.id)
    /\ sets' = [sets EXCEPT ![b.id.slot].ready = @ \cup {bit}]
    /\ waiting' = IF bit \in sets[b.id.slot].armed \ sets[b.id.slot].ready
                  THEN WokenOn(b.id) ELSE waiting
    /\ UNCHANGED <<bindings, exited>>

\* on_holder_exit in the teardown of a process, whose own waiters are cancelled
\* by the thread reap.
HolderExit(h) ==
    /\ h \notin exited
    /\ exited' = exited \cup {h}
    /\ sets' = Free({s \in SetSlots : sets[s].holder = h})
    /\ waiting' = [t \in Threads |-> IF OwnerOf[t] = h THEN NotWaiting ELSE waiting[t]]
    /\ UNCHANGED bindings

-----------------------------------------------------------------------------
SetInit ==
    /\ sets = [s \in SetSlots |-> EmptySlot(0)]
    /\ waiting = [t \in Threads |-> NotWaiting]
    /\ bindings = {}
    /\ exited = {}

Masks == (SUBSET Bits) \ {{}}

SetStep ==
    \/ \E t \in Threads :
        \/ Create(t)
        \/ WaitTimesOut(t)
        \/ \E id \in SetIds : Destroy(t, id) \/ Bind(t, id)
        \/ \E id \in SetIds, mask \in Masks :
             WaitReady(t, id, mask) \/ \E timed \in BOOLEAN : WaitBlock(t, id, mask, timed)
    \/ \E b \in bindings, bit \in Bits : Signal(b, bit)

SetNext == SetStep \/ \E h \in Holders : HolderExit(h)

SetSpec == SetInit /\ [][SetNext]_setVars

-----------------------------------------------------------------------------
(* Properties. *)

\* Every slot, wait and binding has its type; in particular create never takes a
\* slot past the last generation, so no id is ever issued twice.
SetTypeOK ==
    /\ sets \in [SetSlots -> [gen : 0 .. MaxSetGen, holder : Holders \cup {NoHolder},
                           ready : SUBSET Bits, armed : SUBSET Bits]]
    /\ waiting \in [Threads -> [on : BOOLEAN, id : SetIds, mask : SUBSET Bits, timed : BOOLEAN]]
    /\ bindings \in SUBSET [id : SetIds, holder : Holders]
    /\ exited \in SUBSET Holders

\* A thread blocked in WAIT waits on a live work set of its own holder, none of
\* the bits it waits for is ready, and all of them are armed, so the signal that
\* makes one ready wakes it; a destroyed set strands nobody.
NoStrandedWaiter ==
    \A t \in Threads : waiting[t].on =>
        /\ OwnsSet(OwnerOf[t], waiting[t].id)
        /\ sets[waiting[t].id.slot].ready \cap waiting[t].mask = {}
        /\ waiting[t].mask \subseteq sets[waiting[t].id.slot].armed

\* A binding outlives the work set it was made for, but it never comes to name
\* a set of another holder, however often the slot is reused.
BindingStaysWithHolder ==
    \A b \in bindings : LiveId(b.id) => sets[b.id.slot].holder = b.holder
=============================================================================
