----------------------- MODULE CapabilitySpaceProofs -----------------------
(***************************************************************************)
(* Proofs about CapabilitySpace for every size of the table, every maximal *)
(* generation, every delegation depth and every set of processes.          *)
(*                                                                         *)
(* The operations are built from five transformations of the table (Sweep, *)
(* ReleaseSlots, RevokeSlots, Install, Copies).  Each has a lemma that     *)
(* says what it does to the types, to the tree of live capabilities and to *)
(* the generations; the actions combine them.                              *)
(***************************************************************************)
EXTENDS CapabilitySpace, TLAPS

(* The provers have thirty seconds for a leaf. *)
USE SMTT(30), ZenonT(30)

(* What a transformation that installs nothing does to a slot. *)
Shrinks(t, u) ==
  \A s \in Slots :
    /\ u[s].gen >= t[s].gen
    /\ u[s].state = "Live" => u[s] = t[s]
    /\ u[s].state \in {"Live", "Revoked"} =>
         /\ u[s].gen = t[s].gen
         /\ t[s].state \in {"Live", "Revoked"} /\ u[s].holder = t[s].holder

SameLive(t, u) ==
  LiveSlots(u) = LiveSlots(t) /\ \A s \in LiveSlots(t) : u[s] = t[s]

(* Facts about the constants used throughout. *)
LEMMA Consts ==
  /\ N \in Nat /\ MaxGen \in Nat /\ MaxGen > 0
  /\ MaxDelegationDepth \in 0 .. 4
  /\ NoHandle \notin Handles
  /\ \A s \in Slots : s \in Int
BY TableAssumption DEF NoHandle, Handles, Slots

(* A transformation that leaves the live records alone keeps the tree. *)
LEMMA SameLiveTree ==
  ASSUME NEW t, NEW u, SameLive(t, u), Tree(t)
  PROVE  Tree(u)
BY DEF SameLive, Tree

(* A table is typed when each of its records is. *)
LEMMA TableFromRecords ==
  ASSUME NEW u, u = [s \in Slots |-> u[s]], \A s \in Slots : RecordOK(u[s])
  PROVE  TableOK(u)
  <1>1. \A s \in Slots : u[s] \in CapabilityRecord
    BY DEF RecordOK
  <1>2. u \in [Slots -> CapabilityRecord]
    BY <1>1
  <1> QED BY <1>2 DEF TableOK

(* The records the slot operations write are typed. *)
LEMMA RetireOK ==
  ASSUME NEW r, RecordOK(r), r.state = "Empty"
  PROVE  /\ RecordOK([r EXCEPT !.state = "Retired"])
         /\ [r EXCEPT !.state = "Retired"].gen = r.gen
         /\ [r EXCEPT !.state = "Retired"].state = "Retired"
BY DEF RecordOK, CapabilityRecord

(* A record that revoke_slot has revoked is well formed: only state and rights change. *)
LEMMA RevokeOK ==
  ASSUME NEW r, RecordOK(r), r.state = "Live"
  PROVE  LET q == [r EXCEPT !.state = "Revoked", !.rights = {}]
         IN  RecordOK(q) /\ q.gen = r.gen /\ q.state = "Revoked" /\ q.holder = r.holder
BY ZenonT(30) DEF RecordOK, CapabilityRecord

(* A slot that was never used or has been released is well formed. *)
LEMMA EmptyOK ==
  ASSUME NEW g \in 0 .. MaxGen
  PROVE  /\ RecordOK(EmptyRecord(g)) /\ EmptyRecord(g).gen = g
         /\ EmptyRecord(g).state = "Empty"
  <1>1. 0 \in 0 .. MaxDelegationDepth
    BY Consts
  <1> QED BY <1>1 DEF RecordOK, CapabilityRecord, EmptyRecord

(* The numbers in a record stay within their bounds. *)
LEMMA GenType ==
  ASSUME NEW r, RecordOK(r)
  PROVE  r.gen \in 0 .. MaxGen /\ r.gen \in Nat /\ r.depth \in 0 .. MaxDelegationDepth
BY Consts DEF RecordOK, CapabilityRecord

(* A slot that has been granted carries a generation other than zero. *)
LEMMA LiveGen ==
  ASSUME NEW r, RecordOK(r), r.state \in {"Live", "Revoked"}
  PROVE  r.gen \in 1 .. MaxGen
  <1>1. r.gen \in 0 .. MaxGen /\ r.gen > 0
    BY GenType DEF RecordOK
  <1> QED BY <1>1, Consts

(* pick_empty_slot retires exhausted empty slots and touches nothing else. *)
LEMMA SweepFacts ==
  ASSUME NEW t, TableOK(t), NEW S
  PROVE  /\ TableOK(Sweep(t, S))
         /\ Shrinks(t, Sweep(t, S))
         /\ SameLive(t, Sweep(t, S))
  <1> DEFINE u == Sweep(t, S)
  <1>1. u = [s \in Slots |-> u[s]]
    BY DEF Sweep
  <1>2. ASSUME NEW s \in Slots
        PROVE  /\ RecordOK(t[s]) /\ RecordOK(u[s]) /\ t[s].gen \in Nat
               /\ \/ u[s] = t[s]
                  \/ t[s].state = "Empty" /\ u[s].state = "Retired" /\ u[s].gen = t[s].gen
    <2>1. RecordOK(t[s])
      BY DEF TableOK
    <2>2. \/ u[s] = t[s]
          \/ t[s].state = "Empty" /\ u[s] = [t[s] EXCEPT !.state = "Retired"]
      BY DEF Sweep
    <2> HIDE DEF u
    <2> QED BY <2>1, <2>2, RetireOK, GenType, ZenonT(30)
  <1> HIDE DEF u
  <1>3. TableOK(u)
    BY <1>1, <1>2, TableFromRecords
  <1>4. Shrinks(t, u) /\ SameLive(t, u)
    BY <1>2 DEF Shrinks, SameLive, LiveSlots
  <1> QED BY <1>3, <1>4 DEF u

(* release_slot empties or retires revoked slots and touches nothing else. *)
LEMMA ReleaseFacts ==
  ASSUME NEW t, TableOK(t), NEW S
  PROVE  /\ TableOK(ReleaseSlots(t, S))
         /\ Shrinks(t, ReleaseSlots(t, S))
         /\ SameLive(t, ReleaseSlots(t, S))
  <1> DEFINE u == ReleaseSlots(t, S)
  <1>1. u = [s \in Slots |-> u[s]]
    BY DEF ReleaseSlots
  <1>2. ASSUME NEW s \in Slots
        PROVE  /\ RecordOK(t[s]) /\ RecordOK(u[s]) /\ t[s].gen \in Nat
               /\ \/ u[s] = t[s]
                  \/ /\ t[s].state = "Revoked" /\ u[s].state \in {"Empty", "Retired"}
                     /\ u[s].gen \in Nat /\ u[s].gen >= t[s].gen
    <2>1. RecordOK(t[s]) /\ t[s].gen \in 0 .. MaxGen
      BY GenType DEF TableOK
    <2>2. \/ u[s] = t[s]
          \/ t[s].state = "Revoked" /\ t[s].gen < MaxGen /\ u[s] = EmptyRecord(t[s].gen + 1)
          \/ t[s].state = "Revoked" /\ u[s] = [EmptyRecord(t[s].gen) EXCEPT !.state = "Retired"]
      BY DEF ReleaseSlots
    <2> HIDE DEF u
    <2>3. CASE u[s] = t[s]
      BY <2>1, <2>3, Consts
    <2>4. CASE t[s].state = "Revoked" /\ t[s].gen < MaxGen /\ u[s] = EmptyRecord(t[s].gen + 1)
      <3>1. t[s].gen + 1 \in 0 .. MaxGen
        BY <2>1, <2>4, Consts
      <3> QED BY <2>1, <2>4, <3>1, EmptyOK, Consts
    <2>5. CASE t[s].state = "Revoked" /\ u[s] = [EmptyRecord(t[s].gen) EXCEPT !.state = "Retired"]
      <3> DEFINE e == EmptyRecord(t[s].gen)
      <3>1. RecordOK(e) /\ e.state = "Empty" /\ e.gen = t[s].gen
        BY <2>1, EmptyOK
      <3> HIDE DEF e
      <3>2. RecordOK(u[s]) /\ u[s].gen = t[s].gen /\ u[s].state = "Retired"
        BY <2>5, <3>1, RetireOK DEF e
      <3> QED BY <2>1, <2>5, <3>2, Consts
    <2> QED BY <2>2, <2>3, <2>4, <2>5
  <1> HIDE DEF u
  <1>3. TableOK(u)
    BY <1>1, <1>2, TableFromRecords
  <1>4. Shrinks(t, u) /\ SameLive(t, u)
    BY <1>2 DEF Shrinks, SameLive, LiveSlots
  <1> QED BY <1>3, <1>4 DEF u

(* revoke_slot clears the rights of live slots and touches nothing else. *)
LEMMA RevokeFacts ==
  ASSUME NEW t, TableOK(t), NEW S
  PROVE  /\ TableOK(RevokeSlots(t, S))
         /\ Shrinks(t, RevokeSlots(t, S))
         /\ LiveSlots(RevokeSlots(t, S)) = LiveSlots(t) \ S
  <1> DEFINE u == RevokeSlots(t, S)
  <1>1. u = [s \in Slots |-> u[s]]
    BY DEF RevokeSlots
  <1>2. ASSUME NEW s \in Slots
        PROVE  /\ RecordOK(t[s]) /\ RecordOK(u[s]) /\ t[s].gen \in Nat
               /\ \/ u[s] = t[s] /\ (s \in S => t[s].state # "Live")
                  \/ /\ s \in S /\ t[s].state = "Live" /\ u[s].state = "Revoked"
                     /\ u[s].gen = t[s].gen /\ u[s].holder = t[s].holder
    <2>1. RecordOK(t[s])
      BY DEF TableOK
    <2>2. \/ u[s] = t[s] /\ (s \in S => t[s].state # "Live")
          \/ /\ s \in S /\ t[s].state = "Live"
             /\ u[s] = [t[s] EXCEPT !.state = "Revoked", !.rights = {}]
      BY DEF RevokeSlots
    <2> HIDE DEF u
    <2> QED BY <2>1, <2>2, RevokeOK, GenType, ZenonT(30)
  <1> HIDE DEF u
  <1>3. TableOK(u)
    BY <1>1, <1>2, TableFromRecords
  <1>4. Shrinks(t, u) /\ LiveSlots(u) = LiveSlots(t) \ S
    BY <1>2 DEF Shrinks, LiveSlots
  <1> QED BY <1>3, <1>4 DEF u

(* Two transformations that install nothing make one. *)
LEMMA ShrinksTransitive ==
  ASSUME NEW t, NEW u, NEW v, TableOK(t), TableOK(u), TableOK(v),
         Shrinks(t, u), Shrinks(u, v)
  PROVE  Shrinks(t, v)
  <1>1. \A s \in Slots : t[s].gen \in Nat /\ u[s].gen \in Nat /\ v[s].gen \in Nat
    BY GenType DEF TableOK
  <1> QED BY <1>1 DEF Shrinks

(* A step that only takes capabilities away revives no handle. *)
LEMMA ShrinksAdvances ==
  ASSUME NEW t, NEW u, Shrinks(t, u)
  PROVE  Advances(t, u)
BY DEF Shrinks, Advances

-----------------------------------------------------------------------------
Closed(t, D) ==
  \A s \in LiveSlots(t) : t[s].parent # NoHandle /\ t[s].parent.slot \in D => s \in D

(* The slots a pass of revoke_subtree adds are deeper than those of the pass
   before. *)
LEMMA PassDepth ==
  ASSUME NEW t, TableOK(t), Tree(t), NEW k \in Nat, NEW S,
         \A s \in LiveSlots(t) : s \in ClosurePass(t, S) \ S => t[s].depth >= k
  PROVE  LET P == ClosurePass(t, S)
         IN  \A s \in LiveSlots(t) : s \in ClosurePass(t, P) \ P => t[s].depth >= k + 1
  <1> DEFINE P == ClosurePass(t, S)
  <1> SUFFICES ASSUME NEW s \in LiveSlots(t), s \in ClosurePass(t, P) \ P
               PROVE  t[s].depth >= k + 1
    OBVIOUS
  <1> DEFINE q == t[s].parent.slot
  <1>1. t[s].parent # NoHandle /\ q \in P
    BY DEF ClosurePass
  <1>2. q \notin S
    BY <1>1 DEF ClosurePass
  <1>3. q \in LiveSlots(t) /\ t[s].depth = t[q].depth + 1
    BY <1>1 DEF Tree
  <1>4. t[q].depth >= k
    BY <1>1, <1>2, <1>3
  <1>5. t[q].depth \in Nat
    BY <1>3, GenType, Consts DEF TableOK, LiveSlots
  <1> QED BY <1>3, <1>4, <1>5

(* revoke_subtree's MAX_DELEGATION_DEPTH + 1 passes reach every descendant. *)
LEMMA SubtreeClosed ==
  ASSUME NEW t, TableOK(t), Tree(t), NEW R
  PROVE  Closed(t, Subtree(t, R)) /\ R \subseteq Subtree(t, R)
  <1> DEFINE p1 == ClosurePass(t, R)
             p2 == ClosurePass(t, p1)
             p3 == ClosurePass(t, p2)
             p4 == ClosurePass(t, p3)
             p5 == ClosurePass(t, p4)
             p6 == ClosurePass(t, p5)
             Deep(P, Q, k) == \A s \in LiveSlots(t) : s \in Q \ P => t[s].depth >= k
  <1>1. \A s \in LiveSlots(t) : t[s].depth \in 0 .. MaxDelegationDepth
    BY GenType DEF TableOK, LiveSlots
  <1>2. Deep(R, p1, 1)
    <2> SUFFICES ASSUME NEW s \in LiveSlots(t), s \in p1 \ R
                 PROVE  t[s].depth >= 1
      OBVIOUS
    <2>1. t[s].parent # NoHandle
      BY DEF ClosurePass
    <2> DEFINE q == t[s].parent.slot
    <2>2. q \in LiveSlots(t) /\ t[s].depth = t[q].depth + 1
      BY <2>1 DEF Tree
    <2> QED BY <1>1, <2>2, Consts
  <1>3. Deep(p1, p2, 2)
    BY <1>2, PassDepth
  <1>4. Deep(p2, p3, 3)
    BY <1>3, PassDepth
  <1>5. Deep(p3, p4, 4)
    BY <1>4, PassDepth
  <1>6. Deep(p4, p5, 5)
    BY <1>5, PassDepth
  <1>7. Deep(p5, p6, 6)
    BY <1>6, PassDepth
  <1>8. R \subseteq p1 /\ p1 \subseteq p2 /\ p2 \subseteq p3 /\ p3 \subseteq p4 /\ p4 \subseteq p5
    BY ZenonT(30) DEF ClosurePass
  <1>9. ASSUME NEW P, NEW k \in 1 .. 6, k > MaxDelegationDepth, Deep(P, ClosurePass(t, P), k)
        PROVE  Closed(t, P)
    BY <1>9, <1>1, Consts DEF Closed, ClosurePass
  <1>10. Subtree(t, R) = <<p1, p2, p3, p4, p5>>[MaxDelegationDepth + 1]
    BY DEF Subtree
  <1> HIDE DEF p1, p2, p3, p4, p5, p6
  <1>11. /\ MaxDelegationDepth = 0 => Subtree(t, R) = p1
         /\ MaxDelegationDepth = 1 => Subtree(t, R) = p2
         /\ MaxDelegationDepth = 2 => Subtree(t, R) = p3
         /\ MaxDelegationDepth = 3 => Subtree(t, R) = p4
         /\ MaxDelegationDepth = 4 => Subtree(t, R) = p5
    BY <1>10
  <1>12. /\ MaxDelegationDepth = 0 => Closed(t, p1)
         /\ MaxDelegationDepth = 1 => Closed(t, p2)
         /\ MaxDelegationDepth = 2 => Closed(t, p3)
         /\ MaxDelegationDepth = 3 => Closed(t, p4)
         /\ MaxDelegationDepth = 4 => Closed(t, p5)
    BY <1>3, <1>4, <1>5, <1>6, <1>7, <1>9 DEF p2, p3, p4, p5, p6
  <1> QED BY <1>8, <1>11, <1>12, Consts

(* Revoking a set of slots closed under live children keeps the tree. *)
LEMMA RevokeClosedTree ==
  ASSUME NEW t, TableOK(t), Tree(t), NEW D, Closed(t, D)
  PROVE  Tree(RevokeSlots(t, D))
  <1> DEFINE u == RevokeSlots(t, D)
  <1>1. LiveSlots(u) = LiveSlots(t) \ D /\ \A s \in LiveSlots(u) : u[s] = t[s]
    BY RevokeFacts DEF Shrinks, LiveSlots
  <1> HIDE DEF u
  <1>2. Tree(u)
    BY <1>1, Consts DEF Tree, Closed
  <1> QED BY <1>2 DEF u

(* In a tree no parent fails to resolve, so every root is revoked. *)
LEMMA RevokeSubtreeFacts ==
  ASSUME NEW t, TableOK(t), Tree(t), NEW R
  PROVE  /\ TableOK(RevokeSubtree(t, R)) /\ Tree(RevokeSubtree(t, R))
         /\ Shrinks(t, RevokeSubtree(t, R))
         /\ LiveSlots(RevokeSubtree(t, R)) \cap R = {}
  <1>1. Orphans(t) = {}
    BY DEF Orphans, Tree, Resolves, LiveSlots
  <1>2. RevokeSubtree(t, R) = RevokeSlots(t, Subtree(t, R))
    BY <1>1 DEF RevokeSubtree
  <1> QED BY <1>2, RevokeFacts, RevokeClosedTree, SubtreeClosed

(* revoke_holder_tree and revoke_resource_tree leave no live record of S. *)
LEMMA RevokeTreesFacts ==
  ASSUME NEW t, TableOK(t), Tree(t), NEW S \in SUBSET Slots
  PROVE  /\ TableOK(RevokeTreesOf(t, S)) /\ Tree(RevokeTreesOf(t, S))
         /\ Shrinks(t, RevokeTreesOf(t, S))
         /\ LiveSlots(RevokeTreesOf(t, S)) \cap S = {}
  <1> DEFINE u == RevokeSubtree(t, S \cap LiveSlots(t))
             v == ReleaseSlots(u, S)
  <1>1. /\ TableOK(u) /\ Tree(u) /\ Shrinks(t, u)
        /\ LiveSlots(u) \cap (S \cap LiveSlots(t)) = {}
    BY RevokeSubtreeFacts
  <1> HIDE DEF u
  <1>2. TableOK(v) /\ Shrinks(u, v) /\ SameLive(u, v)
    BY <1>1, ReleaseFacts
  <1> HIDE DEF v
  <1>3. Tree(v) /\ Shrinks(t, v)
    BY <1>1, <1>2, SameLiveTree, ShrinksTransitive
  <1>4. LiveSlots(v) \cap S = {}
    BY <1>1, <1>2, ZenonT(30) DEF SameLive, LiveSlots, Shrinks
  <1> QED BY <1>2, <1>3, <1>4 DEF u, v, RevokeTreesOf

-----------------------------------------------------------------------------
(* What installing capabilities in the slots of T does: the other slots shrink
   or stay, the new records are typed and live under the next generation. *)
Installs(t, u, T) ==
  \A s \in Slots :
    IF s \in T
      THEN t[s].state = "Empty" /\ u[s].state = "Live" /\ u[s].gen = t[s].gen + 1
      ELSE /\ u[s].gen = t[s].gen
           /\ u[s] = t[s] \/ (u[s].state = "Retired" /\ t[s].state = "Empty")

(* A new capability without a parent, or one derived from a live capability. *)
Rooted(t, r) ==
  \/ r.parent = NoHandle /\ r.depth = 0
  \/ \E q \in LiveSlots(t) :
       /\ r.parent = HandleAt(t, q)
       /\ r.rights \subseteq t[q].rights /\ r.resource = t[q].resource
       /\ r.depth = t[q].depth + 1

(* Installing records whose parents are live keeps the delegation forest. *)
LEMMA InstallsTree ==
  ASSUME NEW t, NEW u, NEW T \in SUBSET Slots, TableOK(t), TableOK(u), Tree(t),
         Installs(t, u, T), \A s \in T : Rooted(t, u[s])
  PROVE  Tree(u)
  <1>1. \A s \in LiveSlots(t) : s \in LiveSlots(u) /\ u[s] = t[s]
    BY DEF Installs, LiveSlots
  <1>2. \A s \in LiveSlots(u) : s \in LiveSlots(t) \/ s \in T
    BY DEF Installs, LiveSlots
  <1> SUFFICES ASSUME NEW s \in LiveSlots(u)
               PROVE  \/ u[s].parent = NoHandle /\ u[s].depth = 0
                      \/ /\ u[s].parent \in Handles
                         /\ LET q == u[s].parent.slot
                            IN  /\ q \in LiveSlots(u) /\ u[q].gen = u[s].parent.gen
                                /\ u[s].rights \subseteq u[q].rights
                                /\ u[s].resource = u[q].resource
                                /\ u[s].depth = u[q].depth + 1
    BY ZenonT(30) DEF Tree
  <1>3. CASE s \in LiveSlots(t)
    BY <1>1, <1>3 DEF Tree
  <1>4. CASE s \in T
    <2>1. Rooted(t, u[s])
      BY <1>4
    <2>2. CASE u[s].parent = NoHandle /\ u[s].depth = 0
      BY <2>2
    <2>3. ASSUME NEW q \in LiveSlots(t), u[s].parent = HandleAt(t, q),
                 u[s].rights \subseteq t[q].rights, u[s].resource = t[q].resource,
                 u[s].depth = t[q].depth + 1
          PROVE  u[s].parent \in Handles /\ u[s].parent.slot = q /\ u[s].parent.gen = t[q].gen
      <3>1. t[q].gen \in 1 .. MaxGen /\ q \in Slots
        BY GenType, Consts DEF TableOK, LiveSlots, RecordOK
      <3> QED BY <2>3, <3>1 DEF HandleAt, Handles
    <2> QED BY <1>1, <2>1, <2>2, <2>3 DEF Rooted
  <1> QED BY <1>2, <1>3, <1>4

(* Every action is of this form: slots are swept or released, capabilities are
   installed, and then some are revoked again. *)
LEMMA StepAdvances ==
  ASSUME NEW t, NEW u, NEW v, NEW w, NEW T \in SUBSET Slots,
         TableOK(t), TableOK(u), TableOK(v), TableOK(w),
         Shrinks(t, u), SameLive(t, u), Installs(u, v, T), Shrinks(v, w)
  PROVE  Advances(t, w)
  <1>1. \A s \in Slots : /\ t[s].gen \in Nat /\ u[s].gen \in Nat
                         /\ v[s].gen \in Nat /\ w[s].gen \in Nat
    BY GenType DEF TableOK
  <1> SUFFICES ASSUME NEW s \in Slots
               PROVE  /\ w[s].gen >= t[s].gen
                      /\ w[s].state = "Live" /\ t[s].state = "Live" => w[s] = t[s]
                      /\ w[s].state \in {"Live", "Revoked"} /\ w[s].gen = t[s].gen =>
                           /\ t[s].state \in {"Live", "Revoked"} /\ w[s].holder = t[s].holder
                           /\ w[s].state = "Live" => t[s].state = "Live"
    BY DEF Advances
  <1>2. CASE s \in T
    <2>1. u[s].state = "Empty" /\ v[s].gen = u[s].gen + 1
      BY <1>2 DEF Installs
    <2>2. t[s].state # "Live"
      BY <2>1 DEF SameLive, LiveSlots
    <2>3. w[s].gen >= v[s].gen /\ u[s].gen >= t[s].gen
      BY DEF Shrinks
    <2> QED BY <1>1, <2>1, <2>2, <2>3
  <1>3. CASE s \notin T
    <2>1. v[s].gen = u[s].gen /\ (v[s] = u[s] \/ v[s].state = "Retired")
      BY <1>3 DEF Installs
    <2>2. w[s].gen >= v[s].gen /\ u[s].gen >= t[s].gen
      BY DEF Shrinks
    <2> QED BY <1>1, <2>1, <2>2 DEF Shrinks
  <1> QED BY <1>2, <1>3

(* Leaving the table alone takes nothing away. *)
LEMMA ShrinksReflexive ==
  ASSUME NEW t, TableOK(t)
  PROVE  Shrinks(t, t) /\ SameLive(t, t)
  <1>1. \A s \in Slots : t[s].gen \in Nat
    BY GenType DEF TableOK
  <1> QED BY <1>1 DEF Shrinks, SameLive

(* Revoking just what was installed brings back the live capabilities. *)
LEMMA UndoneTree ==
  ASSUME NEW t, NEW v, NEW w, NEW T \in SUBSET Slots, TableOK(t), Tree(t),
         Installs(t, v, T), Shrinks(v, w), LiveSlots(w) = LiveSlots(v) \ T
  PROVE  SameLive(t, w) /\ Tree(w)
  <1>1. SameLive(t, w)
    BY DEF SameLive, Installs, Shrinks, LiveSlots
  <1> QED BY <1>1, SameLiveTree

(* A record as grant and install write it. *)
LEMMA NewRecordOK ==
  ASSUME NEW p \in Pids, NEW resource \in Resources, NEW rights \in SUBSET Rights,
         NEW h \in Handles \cup {NoHandle}, NEW d \in 0 .. MaxDelegationDepth,
         NEW g \in Nat, g < MaxGen
  PROVE  LET r == [Record(p, resource, rights, h, d) EXCEPT !.gen = g + 1]
         IN  /\ RecordOK(r) /\ r.state = "Live" /\ r.gen = g + 1 /\ r.holder = p
             /\ r.resource = resource /\ r.rights = rights /\ r.parent = h /\ r.depth = d
  <1>1. p # None /\ resource # None
    BY SpaceAssumption DEF Resources
  <1>2. g + 1 \in 0 .. MaxGen /\ g + 1 > 0
    BY Consts
  <1> QED BY <1>1, <1>2 DEF RecordOK, CapabilityRecord, Record

(* What `install` is given, and what it leaves: u is t with the record installed in s. *)
Installable(t, u, s, p, resource, rights, h, d) ==
  /\ TableOK(t) /\ s \in Slots /\ IsFirstUsable(t, s)
  /\ p \in Pids /\ resource \in Resources /\ rights \in SUBSET Rights
  /\ h \in Handles \cup {NoHandle} /\ d \in 0 .. MaxDelegationDepth
  /\ u = Install(t, s, Record(p, resource, rights, h, d))

Installed(t, u, s, p, resource, rights, h, d) ==
  /\ TableOK(u) /\ Installs(t, u, {s})
  /\ u[s].holder = p /\ u[s].resource = resource /\ u[s].rights = rights
  /\ u[s].parent = h /\ u[s].depth = d

(* What CapabilityTable::install changes, as the facts later proofs use. *)
LEMMA InstallFacts ==
  ASSUME NEW t, NEW u, NEW s, NEW p, NEW resource, NEW rights, NEW h, NEW d,
         Installable(t, u, s, p, resource, rights, h, d)
  PROVE  Installed(t, u, s, p, resource, rights, h, d)
  <1> USE DEF Installable
  <1> DEFINE r == [Record(p, resource, rights, h, d) EXCEPT !.gen = t[s].gen + 1]
             t1 == Sweep(t, {x \in Slots : x < s})
  <1>1. t[s].gen \in Nat /\ t[s].gen < MaxGen /\ t[s].state = "Empty"
    BY GenType DEF TableOK, IsFirstUsable, Usable
  <1>2. /\ RecordOK(r) /\ r.state = "Live" /\ r.gen = t[s].gen + 1 /\ r.holder = p
        /\ r.resource = resource /\ r.rights = rights /\ r.parent = h /\ r.depth = d
    BY <1>1, NewRecordOK
  <1>3. u = [t1 EXCEPT ![s] = r]
    BY DEF Install
  <1> HIDE DEF r
  <1>4. TableOK(t1)
    BY SweepFacts
  <1>5. \A x \in Slots : t1[x].gen = t[x].gen /\ (t1[x] = t[x] \/ (t1[x].state = "Retired" /\ t[x].state = "Empty"))
    <2> TAKE x \in Slots
    <2>1. RecordOK(t[x])
      BY DEF TableOK
    <2>2. t1[x] = t[x] \/ (t[x].state = "Empty" /\ t1[x] = [t[x] EXCEPT !.state = "Retired"])
      BY DEF Sweep
    <2> HIDE DEF t1
    <2> QED BY <2>1, <2>2, RetireOK, ZenonT(30)
  <1> HIDE DEF t1
  <1>6. u = [x \in Slots |-> u[x]] /\ \A x \in Slots : u[x] = IF x = s THEN r ELSE t1[x]
    BY <1>3, <1>4, ZenonT(30) DEF TableOK
  <1>7. TableOK(u)
    BY <1>2, <1>4, <1>6, TableFromRecords DEF TableOK
  <1>8. Installs(t, u, {s})
    BY <1>1, <1>2, <1>5, <1>6 DEF Installs
  <1>9. s \in Slots
    OBVIOUS
  <1> QED BY <1>2, <1>6, <1>7, <1>8, <1>9 DEF Installed

CopiedFrom(t, u, T, src, child) ==
  \A s \in T : /\ u[s].holder = child
               /\ u[s].resource = t[src[s]].resource
               /\ u[s].rights = t[src[s]].rights
               /\ u[s].parent = HandleAt(t, src[s])
               /\ u[s].depth = t[src[s]].depth + 1

(* What the loop of inherit_capabilities_for_fork installs: one copy of each
   inherited capability, a child of its source. *)
LEMMA CopiesFacts ==
  ASSUME NEW t, TableOK(t), NEW T \in SUBSET Usable(t), NEW child \in Pids,
         NEW src \in [T -> {s \in LiveSlots(t) : t[s].depth < MaxDelegationDepth}]
  PROVE  /\ TableOK(Copies(t, T, src, child))
         /\ Installs(t, Copies(t, T, src, child), T)
         /\ CopiedFrom(t, Copies(t, T, src, child), T, src, child)
  <1> DEFINE u == Copies(t, T, src, child)
             t1 == Sweep(t, {x \in Slots : \E v \in T : x < v})
             r(s) == [ChildOf(t, src[s], child, t[src[s]].rights) EXCEPT !.gen = t[s].gen + 1]
  <1>1. u = [s \in Slots |-> IF s \in T THEN r(s) ELSE t1[s]]
    BY DEF Copies
  <1>2. ASSUME NEW s \in T
        PROVE  /\ RecordOK(r(s)) /\ r(s).state = "Live" /\ r(s).gen = t[s].gen + 1
               /\ r(s).holder = child
               /\ r(s).resource = t[src[s]].resource /\ r(s).rights = t[src[s]].rights
               /\ r(s).parent = HandleAt(t, src[s]) /\ r(s).depth = t[src[s]].depth + 1
               /\ t[s].state = "Empty"
    <2> DEFINE q == src[s]
    <2>1. q \in Slots /\ t[q].state = "Live" /\ RecordOK(t[q])
      BY DEF LiveSlots, TableOK
    <2>2. s \in Slots /\ t[s].gen \in Nat /\ t[s].gen < MaxGen /\ t[s].state = "Empty"
      BY GenType DEF TableOK, Usable
    <2>3. t[q].gen \in 1 .. MaxGen /\ t[q].depth + 1 \in 0 .. MaxDelegationDepth
      BY <2>1, GenType, Consts DEF RecordOK
    <2>4. HandleAt(t, q) \in Handles \cup {NoHandle}
      BY <2>1, <2>3 DEF HandleAt, Handles
    <2>5. t[q].resource \in Resources /\ t[q].rights \in SUBSET Rights
      BY <2>1 DEF RecordOK, CapabilityRecord
    <2>6. r(s) = [Record(child, t[q].resource, t[q].rights, HandleAt(t, q), t[q].depth + 1)
                    EXCEPT !.gen = t[s].gen + 1]
      BY DEF ChildOf
    <2> HIDE DEF q, r
    <2>7. /\ RecordOK(r(s)) /\ r(s).state = "Live" /\ r(s).gen = t[s].gen + 1
          /\ r(s).holder = child /\ r(s).resource = t[q].resource /\ r(s).rights = t[q].rights
          /\ r(s).parent = HandleAt(t, q) /\ r(s).depth = t[q].depth + 1
      BY <2>2, <2>3, <2>4, <2>5, <2>6, NewRecordOK
    <2> QED BY <2>2, <2>7 DEF q
  <1> HIDE DEF r
  <1>3. TableOK(t1)
    BY SweepFacts
  <1>4. \A x \in Slots : t1[x].gen = t[x].gen /\ (t1[x] = t[x] \/ (t1[x].state = "Retired" /\ t[x].state = "Empty"))
    <2> TAKE x \in Slots
    <2>1. RecordOK(t[x])
      BY DEF TableOK
    <2>2. t1[x] = t[x] \/ (t[x].state = "Empty" /\ t1[x] = [t[x] EXCEPT !.state = "Retired"])
      BY DEF Sweep
    <2> HIDE DEF t1
    <2> QED BY <2>1, <2>2, RetireOK, ZenonT(30)
  <1> HIDE DEF t1, u
  <1>5. u = [x \in Slots |-> u[x]] /\ \A x \in Slots : u[x] = IF x \in T THEN r(x) ELSE t1[x]
    BY <1>1
  <1>6. TableOK(u)
    BY <1>2, <1>3, <1>5, TableFromRecords DEF TableOK
  <1>7. Installs(t, u, T)
    BY <1>2, <1>4, <1>5 DEF Installs
  <1>8. T \subseteq Slots
    BY DEF Usable
  <1> QED BY <1>2, <1>5, <1>6, <1>7, <1>8 DEF u, CopiedFrom

-----------------------------------------------------------------------------
(* What the live records satisfy beside the tree. *)
Good(t, live) ==
  \A s \in LiveSlots(t) :
    /\ t[s].rights \cap RootOnly # {} => t[s].parent = NoHandle
    /\ t[s].holder \in LinuxPids => t[s].rights \cap RootOnly = {}
    /\ t[s].resource \in Pids => t[s].resource \in live

(* A parked handle was issued under a generation its slot has reached. *)
PendingSeen == \A g \in pending : g.handle.gen <= table[g.handle.slot].gen

IInv == TypeOK /\ DelegationTree /\ Good(table, procs) /\ PendingSeen /\ PendingOwned

(* What a step from table to u must establish. *)
StepOK(u, live) ==
  TableOK(u) /\ Tree(u) /\ Advances(table, u) /\ Good(u, live)

(* Taking capabilities away keeps the conditions on rights and resources. *)
LEMMA ShrinksGood ==
  ASSUME NEW t, NEW u, NEW live, Shrinks(t, u), Good(t, live)
  PROVE  Good(u, live)
BY DEF Shrinks, Good, LiveSlots

(* Installing records that meet the conditions on rights and resources keeps
   them. *)
LEMMA InstallsGood ==
  ASSUME NEW t, NEW u, NEW live, NEW more, live \subseteq more, NEW T, Installs(t, u, T), Good(t, live),
         \A s \in T : s \in LiveSlots(u) =>
           /\ u[s].rights \cap RootOnly # {} => u[s].parent = NoHandle
           /\ u[s].holder \in LinuxPids => u[s].rights \cap RootOnly = {}
           /\ u[s].resource \in Pids => u[s].resource \in live
  PROVE  Good(u, more)
BY DEF Installs, Good, LiveSlots

(* Handles already parked stay seen and owned. *)
LEMMA PendingKept ==
  ASSUME IInv, TableOK(table'), Advances(table, table'), NEW g \in pending
  PROVE  /\ g.handle.gen <= table'[g.handle.slot].gen
         /\ Resolves(table', g.handle) => table'[g.handle.slot].holder = g.holder
  <1>1. g.handle.slot \in Slots /\ g.handle.gen \in Nat
    BY DEF IInv, TypeOK, Handles
  <1>2. table[g.handle.slot].gen \in Nat /\ table'[g.handle.slot].gen \in Nat
    BY <1>1, GenType DEF IInv, TypeOK, TableOK
  <1>3. g.handle.gen <= table[g.handle.slot].gen
    BY DEF IInv, PendingSeen
  <1>4. Resolves(table, g.handle) => table[g.handle.slot].holder = g.holder
    BY DEF IInv, PendingOwned
  <1> QED BY <1>1, <1>2, <1>3, <1>4 DEF Advances, Resolves

(* A step that parks nothing new keeps the invariant when the table does. *)
LEMMA Combine ==
  ASSUME IInv, StepOK(table', procs'), pending' \subseteq pending,
         procs' \subseteq Pids, unborn' \subseteq Pids \ procs'
  PROVE  IInv' /\ Advances(table, table')
  <1>1. TableOK(table') /\ Advances(table, table')
    BY DEF StepOK
  <1>2. TypeOK'
    BY <1>1 DEF IInv, TypeOK
  <1>3. PendingSeen' /\ PendingOwned'
    BY <1>1, PendingKept DEF PendingSeen, PendingOwned
  <1> QED BY <1>1, <1>2, <1>3 DEF IInv, StepOK, DelegationTree

(* A transformation that installs nothing. *)
LEMMA ShrinkStep ==
  ASSUME IInv, NEW u, TableOK(u), Tree(u), Shrinks(table, u)
  PROVE  StepOK(u, procs)
BY ShrinksAdvances, ShrinksGood DEF IInv, StepOK

-----------------------------------------------------------------------------
(* The table grant_root installs into. *)
LEMMA GrantTableFacts ==
  ASSUME IInv
  PROVE  /\ TableOK(GrantTable) /\ Tree(GrantTable) /\ Good(GrantTable, procs)
         /\ Shrinks(table, GrantTable) /\ SameLive(table, GrantTable)
  <1>1. TableOK(table) /\ Tree(table)
    BY DEF IInv, TypeOK, DelegationTree
  <1> DEFINE u == Sweep(table, Slots)
             v == ReleaseSlots(u, Slots)
  <1>2. TableOK(u) /\ Shrinks(table, u) /\ SameLive(table, u)
    BY <1>1, SweepFacts
  <1> HIDE DEF u
  <1>3. TableOK(v) /\ Shrinks(u, v) /\ SameLive(u, v)
    BY <1>2, ReleaseFacts
  <1> HIDE DEF v
  <1>4. Shrinks(table, v) /\ SameLive(table, v)
    BY <1>1, <1>2, <1>3, ShrinksTransitive DEF SameLive
  <1>5. GrantTable = table \/ GrantTable = v
    BY DEF GrantTable, GrantRetry, release_revoked, u, v
  <1>6. TableOK(GrantTable) /\ Shrinks(table, GrantTable) /\ SameLive(table, GrantTable)
    BY <1>1, <1>3, <1>4, <1>5, ShrinksReflexive
  <1> QED BY <1>1, <1>6, SameLiveTree, ShrinksGood DEF IInv

(* Installing one well-formed record into GrantTable or into the table. *)
LEMMA InstallStep ==
  ASSUME IInv, NEW t, TableOK(t), Tree(t), Good(t, procs), Shrinks(table, t), SameLive(table, t),
         NEW s \in Slots, NEW v, TableOK(v), Installs(t, v, {s}), Rooted(t, v[s]),
         v[s].rights \cap RootOnly # {} => v[s].parent = NoHandle,
         v[s].holder \in LinuxPids => v[s].rights \cap RootOnly = {},
         v[s].resource \in Pids => v[s].resource \in procs
  PROVE  StepOK(v, procs)
  <1>1. TableOK(table) /\ Shrinks(v, v)
    BY ShrinksReflexive DEF IInv, TypeOK
  <1>2. Advances(table, v)
    BY <1>1, StepAdvances
  <1>3. Tree(v)
    BY InstallsTree
  <1>4. Good(v, procs)
    <2>1. \A x \in {s} : x \in LiveSlots(v) =>
             /\ v[x].rights \cap RootOnly # {} => v[x].parent = NoHandle
             /\ v[x].holder \in LinuxPids => v[x].rights \cap RootOnly = {}
             /\ v[x].resource \in Pids => v[x].resource \in procs
      OBVIOUS
    <2> QED BY <2>1, InstallsGood
  <1> QED BY <1>2, <1>3, <1>4 DEF StepOK

(* The same installation, rolled back. *)
LEMMA RollbackStep ==
  ASSUME IInv, NEW t, TableOK(t), Tree(t), Good(t, procs), Shrinks(table, t), SameLive(table, t),
         NEW s \in Slots, NEW v, TableOK(v), Installs(t, v, {s})
  PROVE  StepOK(ReleaseSlots(RevokeSlots(v, {s}), {s}), procs)
  <1> DEFINE x == RevokeSlots(v, {s})
             w == ReleaseSlots(x, {s})
  <1>1. TableOK(x) /\ Shrinks(v, x) /\ LiveSlots(x) = LiveSlots(v) \ {s}
    BY RevokeFacts
  <1> HIDE DEF x
  <1>2. TableOK(w) /\ Shrinks(x, w) /\ SameLive(x, w)
    BY <1>1, ReleaseFacts
  <1> HIDE DEF w
  <1>3. Shrinks(v, w) /\ LiveSlots(w) = LiveSlots(v) \ {s}
    BY <1>1, <1>2, ShrinksTransitive DEF SameLive
  <1>4. SameLive(t, w) /\ Tree(w)
    <2>1. {s} \in SUBSET Slots
      OBVIOUS
    <2> QED BY <1>3, <2>1, UndoneTree
  <1>5. Advances(table, w)
    BY <1>2, <1>3, StepAdvances DEF IInv, TypeOK
  <1>6. Good(w, procs)
    BY <1>4, ZenonT(30) DEF Good, SameLive
  <1> QED BY <1>2, <1>4, <1>5, <1>6 DEF StepOK, x, w

(* What Park does with an installed capability of p, in either outcome. *)
LEMMA ParkStep ==
  ASSUME IInv, NEW t, TableOK(t), Tree(t), Good(t, procs), Shrinks(table, t), SameLive(table, t),
         NEW s \in Slots, NEW v, TableOK(v), Installs(t, v, {s}), Rooted(t, v[s]),
         v[s].rights \cap RootOnly # {} => v[s].parent = NoHandle,
         v[s].holder \in LinuxPids => v[s].rights \cap RootOnly = {},
         v[s].resource \in Pids => v[s].resource \in procs,
         NEW p \in Pids, v[s].holder = p, Park(v, s, p), UNCHANGED <<procs, unborn>>
  PROVE  IInv' /\ Advances(table, table')
  <1>1. procs' \subseteq Pids /\ unborn' \subseteq Pids \ procs'
    BY ZenonT(30) DEF IInv, TypeOK
  <1>2. CASE table' = ReleaseSlots(RevokeSlots(v, {s}), {s}) /\ pending' = pending
    BY <1>1, <1>2, RollbackStep, Combine, ZenonT(30)
  <1>3. CASE /\ table' = v
             /\ pending' = pending \cup {[holder |-> p, handle |-> HandleAt(v, s)]}
    <2>1. StepOK(table', procs')
      BY <1>3, InstallStep, ZenonT(30)
    <2>2. TableOK(table') /\ Advances(table, table')
      BY <2>1, ZenonT(30) DEF StepOK
    <2>3. v[s].gen \in 1 .. MaxGen /\ v[s].gen \in Nat
      <3>1. RecordOK(v[s]) /\ v[s].state = "Live"
        BY DEF TableOK, Installs
      <3>2. v[s].gen \in 1 .. MaxGen
        BY <3>1, LiveGen, ZenonT(30)
      <3> QED BY <3>2, Consts
    <2> DEFINE g0 == [holder |-> p, handle |-> HandleAt(v, s)]
    <2>4. /\ g0 \in [holder : Pids, handle : Handles]
          /\ g0.handle.gen <= table'[g0.handle.slot].gen
          /\ table'[g0.handle.slot].holder = g0.holder
      <3>1. HandleAt(v, s) \in Handles
        BY <2>3 DEF HandleAt, Handles
      <3>2. g0.handle.slot = s /\ g0.handle.gen = v[s].gen /\ g0.holder = p
        BY ZenonT(30) DEF HandleAt
      <3>3. g0.handle.gen <= table'[g0.handle.slot].gen
        BY <1>3, <2>3, <3>2
      <3>4. g0 \in [holder : Pids, handle : Handles]
        BY <3>1
      <3> QED BY <1>3, <3>2, <3>3, <3>4, ZenonT(30)
    <2> HIDE DEF g0
    <2>5. pending' = pending \cup {g0}
      BY <1>3, ZenonT(30) DEF g0
    <2>6. TypeOK'
      BY <1>1, <2>2, <2>4, <2>5 DEF IInv, TypeOK
    <2>7. PendingSeen' /\ PendingOwned'
      BY <2>2, <2>4, <2>5, PendingKept, ZenonT(30) DEF PendingSeen, PendingOwned
    <2> QED BY <2>1, <2>2, <2>6, <2>7 DEF IInv, StepOK, DelegationTree
  <1> QED BY <1>2, <1>3, ZenonT(30) DEF Park

(* grant_root and a parked root grant preserve the invariant. *)
LEMMA GrantStep ==
  ASSUME IInv, NEW p \in Pids, NEW resource \in Resources, NEW rights \in SUBSET Rights,
         GrantRoot(p, resource, rights) \/ GrantPending(p, resource, rights)
  PROVE  IInv' /\ Advances(table, table')
  <1> DEFINE t == GrantTable
             v(s) == Install(t, s, Record(p, resource, rights, NoHandle, 0))
  <1>1. /\ TableOK(t) /\ Tree(t) /\ Good(t, procs) /\ Shrinks(table, t) /\ SameLive(table, t)
    BY GrantTableFacts
  <1>2. MayGrant(p, resource, rights) /\ UNCHANGED <<procs, unborn>>
    BY DEF GrantRoot, GrantPending
  <1>3. PICK s \in Slots :
          /\ IsFirstUsable(t, s)
          /\ (table' = v(s) /\ UNCHANGED pending) \/ Park(v(s), s, p)
    BY DEF GrantRoot, GrantPending
  <1> HIDE DEF t
  <1>0. v(s) = Install(t, s, Record(p, resource, rights, NoHandle, 0))
    OBVIOUS
  <1> HIDE DEF v
  <1>4. 0 \in 0 .. MaxDelegationDepth
    BY Consts
  <1>5. /\ TableOK(v(s)) /\ Installs(t, v(s), {s})
        /\ v(s)[s].holder = p /\ v(s)[s].resource = resource /\ v(s)[s].rights = rights
        /\ v(s)[s].parent = NoHandle /\ v(s)[s].depth = 0
    <2>1. Installable(t, v(s), s, p, resource, rights, NoHandle, 0)
      BY <1>0, <1>1, <1>3, <1>4 DEF Installable
    <2> QED BY <2>1, InstallFacts, ZenonT(30) DEF Installed
  <1>6. Rooted(t, v(s)[s])
    BY <1>5 DEF Rooted
  <1>7. /\ p \in LinuxPids => rights \cap RootOnly = {}
        /\ resource \in Pids => resource \in procs
    BY <1>2 DEF MayGrant
  <1>8. CASE Park(v(s), s, p)
    BY <1>1, <1>2, <1>5, <1>6, <1>7, <1>8, ParkStep, ZenonT(30)
  <1>9. CASE table' = v(s) /\ UNCHANGED pending
    <2>1. StepOK(table', procs')
      BY <1>1, <1>2, <1>5, <1>6, <1>7, <1>9, InstallStep, ZenonT(30)
    <2> QED BY <1>2, <1>9, <2>1, Combine DEF IInv, TypeOK
  <1> QED BY <1>3, <1>8, <1>9

(* handle_delegate preserves the invariant. *)
LEMMA DelegateStep ==
  ASSUME IInv, NEW p \in Pids, NEW target \in Pids, NEW h \in Handles,
         NEW rights \in SUBSET Rights, Delegate(p, h, target, rights)
  PROVE  IInv' /\ Advances(table, table')
  <1> DEFINE q == h.slot
             resource == table[q].resource
             parent == HandleAt(table, q)
             depth == table[q].depth + 1
             v(s) == Install(table, s, Record(target, resource, rights, parent, depth))
  <1>1. /\ TableOK(table) /\ Tree(table) /\ Good(table, procs)
        /\ Shrinks(table, table) /\ SameLive(table, table)
    BY ShrinksReflexive DEF IInv, TypeOK, DelegationTree
  <1>2. PICK s \in Slots : IsFirstUsable(table, s) /\ Park(v(s), s, target)
    BY ZenonT(30) DEF Delegate, ChildOf
  <1>3. /\ q \in LiveSlots(table) /\ q \in Slots /\ RecordOK(table[q])
        /\ rights \subseteq table[q].rights /\ rights \cap RootOnly = {}
        /\ table[q].depth < MaxDelegationDepth
    BY <1>1 DEF Delegate, CanDelegate, Authorized, Resolves, LiveSlots, TableOK
  <1>4. table[q].gen \in 1 .. MaxGen /\ depth \in 0 .. MaxDelegationDepth
    <2>1. table[q].gen \in 1 .. MaxGen
      BY <1>3, LiveGen DEF LiveSlots
    <2>2. table[q].depth \in 0 .. MaxDelegationDepth
      BY <1>3, GenType
    <2> QED BY <1>3, <2>1, <2>2, Consts
  <1>5. parent \in Handles \cup {NoHandle} /\ resource \in Resources
    <2>1. resource \in Resources \cup {None} /\ resource # None
      BY <1>3, ZenonT(30) DEF RecordOK, CapabilityRecord, LiveSlots
    <2>2. parent \in Handles
      BY <1>3, <1>4 DEF HandleAt, Handles
    <2> QED BY <2>1, <2>2, ZenonT(30)
  <1> HIDE DEF q, resource, parent, depth
  <1>0. v(s) = Install(table, s, Record(target, resource, rights, parent, depth))
    OBVIOUS
  <1> HIDE DEF v
  <1>6. /\ TableOK(v(s)) /\ Installs(table, v(s), {s})
        /\ v(s)[s].holder = target /\ v(s)[s].resource = resource /\ v(s)[s].rights = rights
        /\ v(s)[s].parent = parent /\ v(s)[s].depth = depth
    <2>1. Installable(table, v(s), s, target, resource, rights, parent, depth)
      BY <1>0, <1>1, <1>2, <1>4, <1>5, ZenonT(30) DEF Installable
    <2> QED BY <2>1, InstallFacts, ZenonT(30) DEF Installed
  <1>7. Rooted(table, v(s)[s])
    BY <1>3, <1>6, ZenonT(30) DEF Rooted, resource, parent, depth
  <1>8. resource \in Pids => resource \in procs
    BY <1>1, <1>3 DEF Good, resource
  <1>9. UNCHANGED <<procs, unborn>>
    BY DEF Delegate
  <1> QED BY <1>1, <1>2, <1>3, <1>6, <1>7, <1>8, <1>9, ParkStep, ZenonT(30)

(* A grant or a delegation that finds no free slot preserves the invariant. *)
LEMMA ExhaustedStep ==
  ASSUME IInv, UNCHANGED <<pending, procs, unborn>>,
         table' = Sweep(table, Slots) \/ table' = Sweep(GrantTable, Slots)
  PROVE  IInv' /\ Advances(table, table')
  <1>1. TableOK(table) /\ Tree(table) /\ Shrinks(table, table)
    BY ShrinksReflexive DEF IInv, TypeOK, DelegationTree
  <1>2. TableOK(GrantTable) /\ Tree(GrantTable) /\ Shrinks(table, GrantTable)
    BY GrantTableFacts
  <1>3. PICK t : /\ table' = Sweep(t, Slots)
                 /\ TableOK(t) /\ Tree(t) /\ Shrinks(table, t)
    BY <1>1, <1>2
  <1>4. TableOK(table') /\ Shrinks(t, table') /\ SameLive(t, table')
    BY <1>3, SweepFacts
  <1>5. Tree(table') /\ Shrinks(table, table')
    BY <1>1, <1>3, <1>4, SameLiveTree, ShrinksTransitive
  <1>6. StepOK(table', procs')
    BY <1>4, <1>5, ShrinkStep
  <1> QED BY <1>6, Combine DEF IInv, TypeOK

(* handle_revoke and the destruction of a resource preserve the invariant. *)
LEMMA RevokeStep ==
  ASSUME IInv, UNCHANGED <<pending, procs, unborn>>, NEW R \in SUBSET Slots,
         table' = RevokeSubtree(table, R) \/ table' = RevokeTreesOf(table, R)
  PROVE  IInv' /\ Advances(table, table')
  <1>1. TableOK(table') /\ Tree(table') /\ Shrinks(table, table')
    BY RevokeSubtreeFacts, RevokeTreesFacts DEF IInv, TypeOK, DelegationTree
  <1>2. StepOK(table', procs')
    BY <1>1, ShrinkStep
  <1> QED BY <1>2, Combine DEF IInv, TypeOK

(* The teardown of a process preserves the invariant: it revokes what the
   process holds and what names the process. *)
LEMMA ExitStep ==
  ASSUME IInv, NEW p \in Pids, Exit(p)
  PROVE  IInv' /\ Advances(table, table')
  <1> DEFINE t1 == RevokeTreesOf(table, HeldBy(table, p))
             R == About(t1, p)
  <1>1. TableOK(table) /\ Tree(table)
    BY DEF IInv, TypeOK, DelegationTree
  <1>2. TableOK(t1) /\ Tree(t1) /\ Shrinks(table, t1)
    BY <1>1, RevokeTreesFacts DEF HeldBy
  <1>3. table' = RevokeTreesOf(t1, R)
    BY DEF Exit
  <1> HIDE DEF t1
  <1>4. R \in SUBSET Slots
    BY DEF About
  <1>5. /\ TableOK(table') /\ Tree(table') /\ Shrinks(t1, table')
        /\ LiveSlots(table') \cap R = {}
    BY <1>2, <1>3, <1>4, RevokeTreesFacts
  <1>6. Shrinks(table, table')
    BY <1>1, <1>2, <1>5, ShrinksTransitive
  <1>7. StepOK(table', procs)
    BY <1>5, <1>6, ShrinkStep
  <1>8. \A s \in LiveSlots(table') : table'[s].resource # p
    BY <1>5 DEF About, Shrinks, LiveSlots
  <1>9. procs' = procs \ {p} /\ pending' \subseteq pending /\ unborn' = unborn
    BY ZenonT(30) DEF Exit
  <1>10. StepOK(table', procs')
    BY <1>7, <1>8, <1>9 DEF StepOK, Good
  <1> QED BY <1>9, <1>10, Combine DEF IInv, TypeOK

(* The copies of fork: live capabilities of a Linux process, none of them at
   the maximal depth. *)
LEMMA CopiesStep ==
  ASSUME IInv, NEW p \in procs \cap LinuxPids, NEW child \in LinuxPids,
         NEW T \in SUBSET Usable(table), NEW src \in [T -> Shallow(p)]
  PROVE  LET v == Copies(table, T, src, child)
         IN  /\ TableOK(v) /\ Tree(v) /\ Installs(table, v, T)
             /\ Good(v, procs) /\ Good(v, procs \cup {child})
             /\ T \in SUBSET Slots
  <1> DEFINE v == Copies(table, T, src, child)
  <1>1. TableOK(table) /\ Tree(table) /\ Good(table, procs)
    BY ZenonT(30) DEF IInv, TypeOK, DelegationTree
  <1>2. T \in SUBSET Slots /\ child \in Pids
    BY SpaceAssumption DEF Usable
  <1>3. \A s \in Shallow(p) : /\ s \in LiveSlots(table) /\ table[s].holder = p
                              /\ table[s].depth < MaxDelegationDepth
    <2> TAKE s \in Shallow(p)
    <2>1. s \in Held(p) /\ s \in Slots /\ s <= s
      BY Consts DEF Shallow, Held, LiveSlots
    <2> QED BY <2>1 DEF Shallow, Held, HeldBy
  <1>4. src \in [T -> {s \in LiveSlots(table) : table[s].depth < MaxDelegationDepth}]
    BY <1>3, ZenonT(30)
  <1>5. TableOK(v) /\ Installs(table, v, T) /\ CopiedFrom(table, v, T, src, child)
    BY <1>1, <1>2, <1>4, CopiesFacts, ZenonT(30)
  <1> HIDE DEF v
  <1>6. \A s \in T : Rooted(table, v[s])
    BY <1>4, <1>5 DEF Rooted, CopiedFrom
  <1>7. Tree(v)
    BY <1>1, <1>2, <1>5, <1>6, InstallsTree, ZenonT(30)
  <1>8. \A s \in T : /\ v[s].rights \cap RootOnly = {}
                     /\ v[s].resource \in Pids => v[s].resource \in procs
    <2> TAKE s \in T
    <2> DEFINE q == src[s]
    <2>1. q \in LiveSlots(table) /\ table[q].holder \in LinuxPids
      BY <1>3
    <2>2. v[s].resource = table[q].resource /\ v[s].rights = table[q].rights
      BY <1>5, ZenonT(30) DEF CopiedFrom
    <2> HIDE DEF q
    <2> QED BY <1>1, <2>1, <2>2, ZenonT(30) DEF Good
  <1>9. Good(v, procs) /\ Good(v, procs \cup {child})
    BY <1>1, <1>5, <1>8, InstallsGood
  <1> QED BY <1>2, <1>5, <1>7, <1>9 DEF v

(* Each outcome of linux_fork preserves the invariant. *)
LEMMA ForkStep ==
  ASSUME IInv, NEW p \in Pids, NEW child \in Pids,
         Fork(p, child) \/ ForkTooDeep(p, child) \/ ForkNoRoom(p, child)
  PROVE  IInv' /\ Advances(table, table')
  <1>1. /\ p \in procs \cap LinuxPids /\ child \in LinuxPids /\ child \in unborn
        /\ unborn' = unborn \ {child} /\ pending' = pending
    BY DEF Fork, ForkTooDeep, ForkNoRoom, CanFork
  <1>2. TableOK(table) /\ Tree(table) /\ Shrinks(table, table) /\ SameLive(table, table)
    BY ShrinksReflexive DEF IInv, TypeOK, DelegationTree
  <1>3. ASSUME NEW T \in SUBSET Usable(table), NEW src \in [T -> Shallow(p)],
               NEW w, TableOK(w), Tree(w), Shrinks(Copies(table, T, src, child), w)
        PROVE  Advances(table, w)
    <2> DEFINE v == Copies(table, T, src, child)
    <2>1. TableOK(v) /\ Installs(table, v, T) /\ T \in SUBSET Slots
      BY <1>1, CopiesStep, ZenonT(30)
    <2>2. Shrinks(v, w) /\ TableOK(w)
      BY <1>3
    <2> HIDE DEF v
    <2> QED BY <1>2, <2>1, <2>2, StepAdvances
  <1>4. ASSUME NEW T \in SUBSET Usable(table), NEW src \in [T -> Shallow(p)],
               table' = Copies(table, T, src, child),
               procs' = procs \/ procs' = procs \cup {child}
        PROVE  StepOK(table', procs')
    <2>1. /\ TableOK(table') /\ Tree(table')
          /\ Good(table', procs) /\ Good(table', procs \cup {child})
      BY <1>1, <1>4, CopiesStep
    <2>2. Advances(table, table')
      BY <1>3, <1>4, <2>1, ShrinksReflexive
    <2> QED BY <1>4, <2>1, <2>2 DEF StepOK
  <1>5. CASE Fork(p, child)
    <2> DEFINE Outcome(t1) ==
                 \/ table' = t1 /\ procs' = procs \cup {child}
                 \/ table' = RevokeTreesOf(t1, HeldBy(t1, child)) /\ UNCHANGED procs
    <2>0. PICK T \in SUBSET Usable(table) :
            \E src \in [T -> Held(p)] : Outcome(Copies(table, T, src, child))
      BY <1>5 DEF Fork
    <2>1. PICK src \in [T -> Held(p)] : Outcome(Copies(table, T, src, child))
      BY <2>0
    <2>2. src \in [T -> Shallow(p)]
      BY <1>5 DEF Fork
    <2> DEFINE t1 == Copies(table, T, src, child)
    <2>3. TableOK(t1) /\ Tree(t1) /\ Good(t1, procs)
      BY <1>1, <2>2, CopiesStep, ZenonT(30)
    <2>4. CASE table' = RevokeTreesOf(t1, HeldBy(t1, child)) /\ UNCHANGED procs
      <3>1. HeldBy(t1, child) \in SUBSET Slots
        BY ZenonT(30) DEF HeldBy
      <3>2. TableOK(table') /\ Tree(table') /\ Shrinks(t1, table')
        BY <2>3, <2>4, <3>1, RevokeTreesFacts
      <3>3. Advances(table, table') /\ Good(table', procs)
        BY <1>3, <2>2, <2>3, <3>2, ShrinksGood
      <3>4. StepOK(table', procs')
        BY <2>4, <3>2, <3>3 DEF StepOK
      <3> QED BY <1>1, <2>4, <3>4, Combine DEF IInv, TypeOK
    <2>5. CASE table' = t1 /\ procs' = procs \cup {child}
      <3>1. StepOK(table', procs')
        BY <1>4, <2>2, <2>5
      <3>2. procs' \subseteq Pids /\ unborn' \subseteq Pids \ procs'
        BY <1>1, <2>5, ZenonT(30) DEF IInv, TypeOK
      <3> QED BY <1>1, <3>1, <3>2, Combine
    <2> QED BY <2>1, <2>4, <2>5, ZenonT(30)
  <1>6. CASE ForkTooDeep(p, child)
    <2>1. StepOK(table', procs')
      BY <1>4, <1>6 DEF ForkTooDeep
    <2> QED BY <1>1, <1>6, <2>1, Combine, ZenonT(30) DEF ForkTooDeep, IInv, TypeOK
  <1>7. CASE ForkNoRoom(p, child)
    <2> DEFINE T == Usable(table)
    <2>1. PICK src \in [T -> Shallow(p)] :
            table' = RevokeSlots(Sweep(Copies(table, T, src, child), Slots), T)
      BY <1>7 DEF ForkNoRoom
    <2> DEFINE v == Copies(table, T, src, child)
               x == Sweep(v, Slots)
    <2>2. TableOK(v) /\ Installs(table, v, T) /\ T \in SUBSET Slots
      BY <1>1, CopiesStep, ZenonT(30)
    <2> HIDE DEF v
    <2>3. TableOK(x) /\ Shrinks(v, x) /\ SameLive(v, x)
      BY <2>2, SweepFacts
    <2>4. table' = RevokeSlots(x, T)
      BY <2>1 DEF v
    <2> HIDE DEF x
    <2>5. TableOK(table') /\ Shrinks(x, table') /\ LiveSlots(table') = LiveSlots(x) \ T
      BY <2>3, <2>4, RevokeFacts
    <2>6. Shrinks(v, table') /\ LiveSlots(table') = LiveSlots(v) \ T
      BY <2>2, <2>3, <2>5, ShrinksTransitive DEF SameLive
    <2>7. SameLive(table, table') /\ Tree(table')
      BY <1>2, <2>2, <2>6, UndoneTree
    <2>8. Advances(table, table')
      BY <1>3, <2>5, <2>6, <2>7, ZenonT(30) DEF v
    <2>9. Good(table', procs)
      BY <2>7, ZenonT(30) DEF Good, SameLive, IInv
    <2>10. procs' = procs
      BY <1>7 DEF ForkNoRoom
    <2>11. StepOK(table', procs')
      BY <2>5, <2>7, <2>8, <2>9, <2>10, ZenonT(30) DEF StepOK
    <2> QED BY <1>1, <2>10, <2>11, Combine, ZenonT(30) DEF IInv, TypeOK
  <1> QED BY <1>5, <1>6, <1>7, ZenonT(30)

-----------------------------------------------------------------------------
(* The empty table the kernel boots with satisfies the invariant. *)
LEMMA InitInv ==
  ASSUME Init
  PROVE  IInv
  <1>1. table = NewTable /\ pending = {} /\ procs = {} /\ unborn = Pids
    BY DEF Init
  <1>2. table = [s \in Slots |-> table[s]] /\ \A s \in Slots : table[s] = EmptyRecord(0)
    BY <1>1 DEF NewTable
  <1>3. 0 \in 0 .. MaxGen
    BY Consts
  <1>4. TableOK(table)
    BY <1>2, <1>3, EmptyOK, TableFromRecords
  <1>5. LiveSlots(table) = {}
    BY <1>2, <1>3, EmptyOK, ZenonT(30) DEF LiveSlots
  <1> QED BY <1>1, <1>4, <1>5 DEF IInv, TypeOK, DelegationTree, Tree, Good, PendingSeen, PendingOwned

(* Every step preserves the invariant and only advances the table. *)
LEMMA NextInv ==
  ASSUME IInv, [Next]_vars
  PROVE  IInv' /\ Advances(table, table')
  <1>1. ASSUME UNCHANGED table, pending' \subseteq pending,
               procs \subseteq procs', procs' \subseteq Pids, unborn' \subseteq Pids \ procs'
        PROVE  IInv' /\ Advances(table, table')
    <2>1. StepOK(table, procs)
      BY ShrinksReflexive, ShrinkStep, ZenonT(30) DEF IInv, TypeOK, DelegationTree
    <2>2. StepOK(table', procs')
      BY <1>1, <2>1 DEF StepOK, Good
    <2> QED BY <1>1, <2>2, Combine
  <1>2. CASE UNCHANGED vars
    BY <1>1, <1>2 DEF vars, IInv, TypeOK
  <1>3. ASSUME NEW p \in Pids, Spawn(p) \/ Claim(p)
        PROVE  IInv' /\ Advances(table, table')
    BY <1>1, <1>3 DEF Spawn, Claim, IInv, TypeOK
  <1>4. ASSUME NEW p \in Pids, NEW resource \in Resources, NEW rights \in SUBSET Rights,
               GrantExhausted(p, resource, rights)
        PROVE  IInv' /\ Advances(table, table')
    BY <1>4, ExhaustedStep DEF GrantExhausted
  <1>5. ASSUME NEW p \in Pids, NEW target \in Pids, NEW h \in Handles,
               NEW rights \in SUBSET Rights, DelegateExhausted(p, h, target, rights)
        PROVE  IInv' /\ Advances(table, table')
    BY <1>5, ExhaustedStep DEF DelegateExhausted
  <1>6. ASSUME NEW p \in Pids, NEW h \in Handles, Revoke(p, h)
        PROVE  IInv' /\ Advances(table, table')
    <2>1. {h.slot} \in SUBSET Slots
      BY DEF Handles
    <2> QED BY <1>6, <2>1, RevokeStep DEF Revoke
  <1>7. ASSUME NEW r \in Objects, DestroyResource(r)
        PROVE  IInv' /\ Advances(table, table')
    <2>1. About(table, r) \in SUBSET Slots
      BY DEF About
    <2> QED BY <1>7, <2>1, RevokeStep DEF DestroyResource
  <1> QED BY <1>2, <1>3, <1>4, <1>5, <1>6, <1>7, ExitStep, GrantStep, DelegateStep, ForkStep DEF Next, Known

(* The inductive invariant holds in every reachable state of the capability
   space. *)
THEOREM Invariance == Spec => []IInv
  <1>1. Init => IInv
    BY InitInv
  <1>2. IInv /\ [Next]_vars => IInv'
    BY NextInv
  <1> QED BY <1>1, <1>2, PTL DEF Spec

(* The capability table and the parked grants keep their types. *)
THEOREM TypeCorrect == Spec => []TypeOK
  <1>1. IInv => TypeOK
    BY DEF IInv
  <1> QED BY <1>1, Invariance, PTL

(* The live capabilities always form a forest of attenuated delegations. *)
THEOREM DelegationTreeCorrect == Spec => []DelegationTree
  <1>1. IInv => DelegationTree
    BY DEF IInv
  <1> QED BY <1>1, Invariance, PTL

(* Root-only rights stay on root grants, across delegation and fork. *)
THEOREM RootOnlyCorrect == Spec => []RootOnlyAtRoot
  <1>1. IInv => RootOnlyAtRoot
    BY DEF IInv, Good, RootOnlyAtRoot
  <1> QED BY <1>1, Invariance, PTL

(* A parked handle that resolves belongs to the process it waits for, and no
   live ProcessControl capability names a process that has exited. *)
THEOREM NamesCorrect == Spec => []NamesCurrent
  <1>1. IInv => NamesCurrent
    BY DEF IInv, Good, ControlsLive, NamesCurrent
  <1> QED BY <1>1, Invariance, PTL

(* No step revives a handle or changes a live capability. *)
THEOREM HandlesCorrect == Spec => HandlesStable
  <1>1. IInv /\ [Next]_vars => [Advances(table, table')]_vars
    BY NextInv
  <1> QED BY <1>1, Invariance, PTL DEF Spec, HandlesStable

(* When a capability stops being live, so do all its descendants. *)
THEOREM RevocationCorrect == Spec => RevokesDescendants
  <1> DEFINE A == \A s \in LiveSlots(table) \ LiveSlots(table') :
                    Descendants(table, s) \cap LiveSlots(table') = {}
  <1>1. IInv /\ [Next]_vars => [A]_vars
    <2> SUFFICES ASSUME IInv, [Next]_vars, NEW s \in LiveSlots(table) \ LiveSlots(table')
                 PROVE  Descendants(table, s) \cap LiveSlots(table') = {}
      BY DEF vars
    <2> DEFINE D == LiveSlots(table) \ LiveSlots(table')
    <2>1. Tree(table) /\ Tree(table') /\ Advances(table, table')
      BY NextInv DEF IInv, DelegationTree
    <2>2. ASSUME NEW c \in LiveSlots(table), NEW q \in D \cup {s},
                 table[c].parent = HandleAt(table, q), c \in LiveSlots(table')
          PROVE  FALSE
      <3>1. table'[c] = table[c]
        BY <2>1, <2>2 DEF Advances, LiveSlots
      <3>2. q \in Slots /\ q \notin LiveSlots(table')
        BY ZenonT(30) DEF LiveSlots
      <3>3. table[c].parent # NoHandle /\ table[c].parent.slot = q
        BY <2>2, <3>2 DEF HandleAt, NoHandle, Slots
      <3> QED BY <2>1, <2>2, <3>1, <3>2, <3>3, ZenonT(30) DEF Tree
    <2>3. \A c \in LiveSlots(table) :
            (\E q \in D \cup {s} : table[c].parent = HandleAt(table, q)) => c \in D
      BY <2>2
    <2>4. \A d \in Descendants(table, s) : d \in D
      BY <2>3, ZenonT(30) DEF Descendants
    <2> QED BY <2>4
  <1> QED BY <1>1, Invariance, PTL DEF Spec, RevokesDescendants

=============================================================================
