-------------------------- MODULE CapabilitySpace --------------------------
(***************************************************************************)
(* The kernel's global capability table (src/kernel/src/capability): the   *)
(* operations that syscalls, process launch, Linux fork and process        *)
(* teardown perform on it, and the bootstrap grants parked for claiming.   *)
(* Each operation runs to completion in the kernel before the next one     *)
(* starts.  Process ids are never reused (process/id_allocator.rs).        *)
(***************************************************************************)
EXTENDS CapabilityTable, FiniteSets

CONSTANTS
  Pids,       \* process ids, as many as one boot hands out
  LinuxPids,  \* those of Linux-personality processes, which may fork
  Objects,    \* resources other than processes
  MaxPending  \* PENDING_BOOTSTRAP_GRANTS

ASSUME SpaceAssumption ==
  /\ LinuxPids \subseteq Pids
  /\ Pids \cap Objects = {} /\ None \notin Pids \cup Objects
  /\ MaxPending \in Nat

VARIABLES
  table,    \* CAPABILITY_SPACE
  pending,  \* BOOTSTRAP_GRANTS: handles waiting to be claimed
  procs,    \* registered processes that have not exited
  unborn    \* process ids not handed out yet

vars == <<table, pending, procs, unborn>>

(* A ProcessControl resource is named by the process it controls. *)
Resources == Objects \cup Pids

Init == table = NewTable /\ pending = {} /\ procs = {} /\ unborn = Pids

Spawn(p) ==
  /\ p \in unborn
  /\ procs' = procs \cup {p} /\ unborn' = unborn \ {p}
  /\ UNCHANGED <<table, pending>>

GrantTable == GrantRetry(table)

MayGrant(p, resource, rights) ==
  /\ p \in procs
  /\ resource \in Pids => resource \in procs
  /\ rights # {} /\ (p \in LinuxPids => rights \cap RootOnly = {})

GrantRoot(p, resource, rights) ==
  /\ MayGrant(p, resource, rights)
  /\ \E s \in Slots :
       /\ IsFirstUsable(GrantTable, s)
       /\ table' = Install(GrantTable, s, Record(p, resource, rights, NoHandle, 0))
  /\ UNCHANGED <<pending, procs, unborn>>

GrantExhausted(p, resource, rights) ==
  /\ MayGrant(p, resource, rights)
  /\ Usable(GrantTable) = {}
  /\ table' = Sweep(GrantTable, Slots)
  /\ UNCHANGED <<pending, procs, unborn>>

(* register_bootstrap_grant parks the handle of the capability just installed
   in slot s of t; when the table of grants is full, rollback_installed_child
   (or rollback_installed_capability) undoes the installation. *)
Park(t, s, p) ==
  IF Cardinality(pending) < MaxPending
    THEN /\ table' = t
         /\ pending' = pending \cup {[holder |-> p, handle |-> HandleAt(t, s)]}
    ELSE /\ table' = ReleaseSlots(RevokeSlots(t, {s}), {s})
         /\ UNCHANGED pending

(* register_pending_bootstrap_grant, once grant_root has succeeded *)
GrantPending(p, resource, rights) ==
  /\ MayGrant(p, resource, rights) /\ resource \in Objects
  /\ \E s \in Slots :
       /\ IsFirstUsable(GrantTable, s)
       /\ Park(Install(GrantTable, s, Record(p, resource, rights, NoHandle, 0)), s, p)
  /\ UNCHANGED <<procs, unborn>>

(* handle_delegate: install the child, then park its handle for the target.
   delegate does not release revoked slots when there is no usable slot. *)
Delegate(p, h, target, rights) ==
  /\ p \in procs /\ target \in procs
  /\ CanDelegate(table, p, h, rights)
  /\ \E s \in Slots :
       /\ IsFirstUsable(table, s)
       /\ Park(Install(table, s, ChildOf(table, h.slot, target, rights)), s, target)
  /\ UNCHANGED <<procs, unborn>>

DelegateExhausted(p, h, target, rights) ==
  /\ p \in procs /\ target \in procs
  /\ CanDelegate(table, p, h, rights)
  /\ Usable(table) = {}
  /\ table' = Sweep(table, Slots)
  /\ UNCHANGED <<pending, procs, unborn>>

(* SYSCALL_NR_CAP_GRANT: the process takes one of the handles parked for it. *)
Claim(p) ==
  \E g \in pending :
    /\ p \in procs /\ g.holder = p
    /\ pending' = pending \ {g}
    /\ UNCHANGED <<table, procs, unborn>>

(* handle_revoke *)
Revoke(p, h) ==
  /\ p \in procs
  /\ CanRevoke(table, p, h)
  /\ table' = RevokeSubtree(table, {h.slot})
  /\ UNCHANGED <<pending, procs, unborn>>

(* revoke_for_resource, when a kernel object such as a shared buffer dies *)
DestroyResource(r) ==
  /\ table' = RevokeTreesOf(table, About(table, r))
  /\ UNCHANGED <<pending, procs, unborn>>

(* Mutation: the RevokeProcessResource hook is left out. *)
ExitKeepsControl(p) ==
  /\ p \in procs
  /\ table' = RevokeTreesOf(table, HeldBy(table, p))
  /\ pending' = {g \in pending : g.holder # p}
  /\ procs' = procs \ {p}
  /\ UNCHANGED unborn

(* run_teardown_hook: RevokeHolderCapabilities, RevokeProcessResource and
   DiscardBootstrapGrants, in this order, when a process exits or is killed. *)
Exit(p) ==
  /\ p \in procs
  /\ LET t1 == RevokeTreesOf(table, HeldBy(table, p))
     IN  table' = RevokeTreesOf(t1, About(t1, p))
  /\ pending' = {g \in pending : g.holder # p}
  /\ procs' = procs \ {p}
  /\ UNCHANGED unborn

-----------------------------------------------------------------------------
(* inherit_capabilities_for_fork walks the live capabilities of the parent in
   slot order and installs a copy of each, with unchanged rights, in the first
   usable slot.  T are the slots of the copies, src[s] is the one copied to s. *)
FillsInOrder(t, T, src) ==
  /\ \A u \in Usable(t), v \in T : u < v => u \in T
  /\ \A u, v \in T : u < v => src[u] < src[v]

Copies(t, T, src, child) ==
  LET t1 == Sweep(t, {u \in Slots : \E v \in T : u < v})
  IN  [s \in Slots |->
         IF s \in T
           THEN [ChildOf(t, src[s], child, t[src[s]].rights) EXCEPT !.gen = t[s].gen + 1]
           ELSE t1[s]]

Held(p) == LiveSlots(table) \cap HeldBy(table, p)

(* The capabilities before the first one that is at the maximal depth. *)
Shallow(p) ==
  {s \in Held(p) : \A d \in Held(p) : d <= s => table[d].depth < MaxDelegationDepth}

CanFork(p, child) ==
  p \in procs \cap LinuxPids /\ child \in unborn \cap LinuxPids

(* Every capability is copied; then the child runs, or a later step of the
   fork fails and abort_fork_child revokes what the child holds. *)
Fork(p, child) ==
  /\ CanFork(p, child)
  /\ Shallow(p) = Held(p)
  /\ \E T \in SUBSET Usable(table) : \E src \in [T -> Held(p)] :
       /\ FillsInOrder(table, T, src) /\ Held(p) = {src[s] : s \in T}
       /\ LET t1 == Copies(table, T, src, child)
          IN  \/ table' = t1 /\ procs' = procs \cup {child}
              \/ table' = RevokeTreesOf(t1, HeldBy(t1, child)) /\ UNCHANGED procs
  /\ unborn' = unborn \ {child}
  /\ UNCHANGED pending

(* Provenance::child_of fails on a capability of maximal depth: the copies made
   so far stay, abort_fork_child does not revoke them (caps_inherited is still
   false) and the child never runs. *)
ForkTooDeep(p, child) ==
  /\ CanFork(p, child)
  /\ Shallow(p) # Held(p)
  /\ \E T \in SUBSET Usable(table) : \E src \in [T -> Shallow(p)] :
       /\ FillsInOrder(table, T, src) /\ Shallow(p) = {src[s] : s \in T}
       /\ table' = Copies(table, T, src, child)
  /\ unborn' = unborn \ {child}
  /\ UNCHANGED <<pending, procs>>

(* The table is full: rollback_fork_inherited revokes the copies made so far,
   without releasing their slots. *)
ForkNoRoom(p, child) ==
  /\ CanFork(p, child)
  /\ \E src \in [Usable(table) -> Shallow(p)] :
       /\ FillsInOrder(table, Usable(table), src)
       /\ LET done == {src[s] : s \in Usable(table)}
          IN  done # Shallow(p) /\ \A x \in done, y \in Shallow(p) \ done : x < y
       /\ table' = RevokeSlots(Sweep(Copies(table, Usable(table), src, child), Slots),
                               Usable(table))
  /\ unborn' = unborn \ {child}
  /\ UNCHANGED <<pending, procs>>

(* The handles that a table lookup finds; the others are refused by every
   operation that takes one. *)
Known == {h \in Handles : Resolves(table, h)}

Next ==
  \/ \E p \in Pids : Spawn(p) \/ Claim(p) \/ Exit(p)
  \/ \E p \in Pids, resource \in Resources, rights \in SUBSET Rights :
       \/ GrantRoot(p, resource, rights)
       \/ GrantExhausted(p, resource, rights)
       \/ GrantPending(p, resource, rights)
  \/ \E h \in Known, p, target \in Pids, rights \in SUBSET Rights :
       \/ Delegate(p, h, target, rights)
       \/ DelegateExhausted(p, h, target, rights)
  \/ \E h \in Known, p \in Pids : Revoke(p, h)
  \/ \E r \in Objects : DestroyResource(r)
  \/ \E p, child \in Pids : Fork(p, child) \/ ForkTooDeep(p, child) \/ ForkNoRoom(p, child)

Spec == Init /\ [][Next]_vars

-----------------------------------------------------------------------------
CapabilityRecord ==
  [state : {"Empty", "Live", "Revoked", "Retired"},
   holder : Pids \cup {None}, resource : Resources \cup {None},
   rights : SUBSET Rights, parent : Handles \cup {NoHandle},
   depth : 0 .. MaxDelegationDepth, gen : 0 .. MaxGen]

RecordOK(r) ==
  /\ r \in CapabilityRecord
  /\ r.state \in {"Live", "Revoked"} => r.gen > 0 /\ r.holder # None /\ r.resource # None
  /\ r.state # "Live" => r.rights = {}

TableOK(t) == t \in [Slots -> CapabilityRecord] /\ \A s \in Slots : RecordOK(t[s])

(* The states of CAPABILITY_SPACE and BOOTSTRAP_GRANTS: no generation exceeds
   the largest one, a used slot has a generation, and only a live capability
   carries rights (revoke_slot, release_slot). *)
TypeOK ==
  /\ TableOK(table)
  /\ pending \subseteq [holder : Pids, handle : Handles]
  /\ procs \subseteq Pids /\ unborn \subseteq Pids \ procs

Tree(t) ==
  \A s \in LiveSlots(t) :
    \/ t[s].parent = NoHandle /\ t[s].depth = 0
    \/ /\ t[s].parent \in Handles
       /\ LET q == t[s].parent.slot
          IN  /\ q \in LiveSlots(t) /\ t[q].gen = t[s].parent.gen
              /\ t[s].rights \subseteq t[q].rights
              /\ t[s].resource = t[q].resource
              /\ t[s].depth = t[q].depth + 1

(* A live delegated capability has a live parent with at least its rights, over
   the same resource, one level up: no authority outlives the one it was derived
   from (revocation.rs), none is widened (delegation.rs), and slot_for_handle on
   a parent never makes a revocation fail. *)
DelegationTree == Tree(table)

(* A root-only right (Rights::root_only_for) exists only on a root grant, and
   this survives fork, which copies rights without the check of
   validate_delegation. *)
RootOnlyAtRoot ==
  \A s \in LiveSlots(table) :
    table[s].rights \cap RootOnly # {} => table[s].parent = NoHandle

PendingOwned ==
  \A g \in pending : Resolves(table, g.handle) => table[g.handle.slot].holder = g.holder
ControlsLive ==
  \A s \in LiveSlots(table) : table[s].resource \in Pids => table[s].resource \in procs

(* A parked handle that still resolves names a capability of the process it is
   parked for, although slots are reused while handles wait to be claimed; and
   the live ProcessControl capabilities control processes that have not exited:
   teardown revokes the others (revoke_for_process_resource). *)
NamesCurrent == PendingOwned /\ ControlsLive

Advances(t, u) ==
  \A s \in Slots :
    /\ u[s].gen >= t[s].gen
    /\ u[s].state = "Live" /\ t[s].state = "Live" => u[s] = t[s]
    /\ u[s].state \in {"Live", "Revoked"} /\ u[s].gen = t[s].gen =>
         /\ t[s].state \in {"Live", "Revoked"} /\ u[s].holder = t[s].holder
         /\ u[s].state = "Live" => t[s].state = "Live"

(* A handle that stopped naming a live capability never names one again, and
   while it does its record does not change: a slot becomes live only under a
   larger generation (release_slot, pick_empty_slot). *)
HandlesStable == [][Advances(table, table')]_vars

(* The descendants of s: the least set that contains the live children of s and
   of its members. *)
Descendants(t, s) ==
  {d \in LiveSlots(t) :
     \A D \in SUBSET LiveSlots(t) :
       (\A c \in LiveSlots(t) :
          (\E q \in D \cup {s} : t[c].parent = HandleAt(t, q)) => c \in D) => d \in D}

(* A capability stops being live together with all its descendants, whoever
   holds them, in the same step (revoke_subtree's bounded number of passes
   reaches them all). *)
RevokesDescendants ==
  [][\A s \in LiveSlots(table) \ LiveSlots(table') :
       Descendants(table, s) \cap LiveSlots(table') = {}]_vars

=============================================================================
