-------------------------- MODULE CapabilityTable --------------------------
(***************************************************************************)
(* The fixed-size capability slot table of the clean-slate-capability      *)
(* crate: slots with generations (table.rs), delegation provenance         *)
(* (provenance.rs, delegation.rs) and subtree revocation (revocation.rs),  *)
(* as operators on a table value t, a function from slots to records.      *)
(* Rights are sets; the resource class of a right is left out.             *)
(***************************************************************************)
EXTENDS Integers

CONSTANTS
  N,                   \* number of slots (MAX_SLOTS)
  MaxGen,              \* largest slot generation (u32::MAX)
  MaxDelegationDepth,  \* MAX_DELEGATION_DEPTH
  Rights,              \* the rights of the modelled resource classes
  RootOnly             \* Rights::root_only_for

ASSUME TableAssumption ==
  /\ N \in Nat \ {0} /\ MaxGen \in Nat \ {0}
  /\ MaxDelegationDepth \in 0 .. 4
  /\ "delegate" \in Rights /\ RootOnly \subseteq Rights

Slots == 0 .. N - 1

(* CapabilityHandle; NoHandle is the parent of a root grant. *)
Handles == [slot : Slots, gen : 1 .. MaxGen]
NoHandle == [slot |-> -1, gen |-> 0]
None == "none"

(* CapabilityRecord::EMPTY with generation g *)
EmptyRecord(g) ==
  [state |-> "Empty", holder |-> None, resource |-> None, rights |-> {},
   parent |-> NoHandle, depth |-> 0, gen |-> g]

Record(holder, resource, rights, parent, depth) ==
  [state |-> "Live", holder |-> holder, resource |-> resource, rights |-> rights,
   parent |-> parent, depth |-> depth, gen |-> 0]

NewTable == [s \in Slots |-> EmptyRecord(0)]

LiveSlots(t) == {s \in Slots : t[s].state = "Live"}
HandleAt(t, s) == [slot |-> s, gen |-> t[s].gen]

(* CapabilityTable::record succeeds *)
Resolves(t, h) ==
  /\ h.slot \in Slots
  /\ t[h.slot].state \in {"Live", "Revoked"}
  /\ t[h.slot].gen = h.gen

(* authorize: the checks that precede the resource and class checks *)
Authorized(t, holder, h, required) ==
  /\ Resolves(t, h)
  /\ t[h.slot].state = "Live"
  /\ t[h.slot].holder = holder
  /\ required \subseteq t[h.slot].rights

-----------------------------------------------------------------------------
(* pick_empty_slot: empty slots whose generation can still advance; the ones
   it passes over for want of a generation become Retired. *)
Usable(t) == {s \in Slots : t[s].state = "Empty" /\ t[s].gen < MaxGen}

IsFirstUsable(t, s) == s \in Usable(t) /\ \A u \in Usable(t) : s <= u

Sweep(t, S) ==
  [s \in Slots |->
     IF s \in S /\ t[s].state = "Empty" /\ t[s].gen = MaxGen
       THEN [t[s] EXCEPT !.state = "Retired"] ELSE t[s]]

(* grant / install of record r into slot s, the one pick_empty_slot returns *)
Install(t, s, r) ==
  [Sweep(t, {u \in Slots : u < s}) EXCEPT ![s] = [r EXCEPT !.gen = t[s].gen + 1]]

(* revoke_slot for the slots of S: only Live slots change; the generation,
   holder, resource and provenance stay. *)
RevokeSlots(t, S) ==
  [s \in Slots |->
     IF s \in S /\ t[s].state = "Live"
       THEN [t[s] EXCEPT !.state = "Revoked", !.rights = {}] ELSE t[s]]

(* Mutation: a released slot starts again at generation zero. *)
ReleaseForgets(t, S) ==
  [s \in Slots |->
     IF s \in S /\ t[s].state = "Revoked" THEN EmptyRecord(0) ELSE t[s]]

(* release_slot for the slots of S *)
ReleaseSlots(t, S) ==
  [s \in Slots |->
     IF s \in S /\ t[s].state = "Revoked"
       THEN IF t[s].gen < MaxGen THEN EmptyRecord(t[s].gen + 1)
            ELSE [EmptyRecord(t[s].gen) EXCEPT !.state = "Retired"]
       ELSE t[s]]

release_revoked(t) == ReleaseSlots(t, Slots)

(* grant_root: on CapacityExhausted the revoked slots are released and the
   grant is tried once more, on this table. *)
GrantRetry(t) ==
  IF Usable(t) # {} THEN t ELSE release_revoked(Sweep(t, Slots))

-----------------------------------------------------------------------------
(* validate_delegation and Provenance::child_of *)
CanDelegate(t, source, h, rights) ==
  /\ Authorized(t, source, h, {"delegate"})
  /\ rights # {} /\ rights \subseteq t[h.slot].rights
  /\ rights \cap RootOnly = {}
  /\ t[h.slot].depth < MaxDelegationDepth

ChildOf(t, s, holder, rights) ==
  Record(holder, t[s].resource, rights, HandleAt(t, s), t[s].depth + 1)

(* revoke_subtree.  A pass over the live slots adds those whose parent handle
   names a slot already in the set; there are MAX_DELEGATION_DEPTH + 1 passes.
   roots is one slot in the code; the closure of a set of roots is the union
   of the closures of its members. *)
ClosurePass(t, S) ==
  S \cup {s \in LiveSlots(t) : t[s].parent # NoHandle /\ t[s].parent.slot \in S}

(* Mutation: a single pass. *)
SubtreeOnePass(t, roots) == ClosurePass(t, roots)

Subtree(t, roots) ==
  LET p1 == ClosurePass(t, roots)
      p2 == ClosurePass(t, p1)
      p3 == ClosurePass(t, p2)
      p4 == ClosurePass(t, p3)
      p5 == ClosurePass(t, p4)
  IN  <<p1, p2, p3, p4, p5>>[MaxDelegationDepth + 1]

(* slot_for_handle(parent)? in the first pass: one live record other than the
   root whose parent does not resolve makes the revocation of that root fail. *)
Orphans(t) ==
  {s \in LiveSlots(t) : t[s].parent # NoHandle /\ ~Resolves(t, t[s].parent)}

RevokeSubtree(t, roots) ==
  RevokeSlots(t, Subtree(t, {r \in roots : Orphans(t) \subseteq {r}}))

(* Mutation: the records of S are revoked without their subtrees. *)
RevokeFlat(t, S) == ReleaseSlots(RevokeSlots(t, S), S)

(* revoke_holder_tree_visiting and revoke_resource_tree: S selects the records
   of the holder or resource; their subtrees are revoked, then every Revoked
   record of S is released. *)
RevokeTreesOf(t, S) == ReleaseSlots(RevokeSubtree(t, S \cap LiveSlots(t)), S)

HeldBy(t, holder) == {s \in Slots : t[s].holder = holder}
About(t, resource) == {s \in Slots : t[s].resource = resource}

(* authorize_revoke: the actor holds the record or one of its ancestors.  The
   walk is bounded by MAX_DELEGATION_DEPTH and stops at a parent handle that
   does not resolve. *)
Ancestors(t, s) ==
  LET Up(S) == S \cup {u \in Slots : \E v \in S :
                         Resolves(t, t[v].parent) /\ t[v].parent.slot = u}
      a1 == Up({s})  a2 == Up(a1)  a3 == Up(a2)  a4 == Up(a3)
  IN  <<{s}, a1, a2, a3, a4>>[MaxDelegationDepth + 1]

CanRevoke(t, actor, h) ==
  Resolves(t, h) /\ \E s \in Ancestors(t, h.slot) : t[s].holder = actor

=============================================================================
