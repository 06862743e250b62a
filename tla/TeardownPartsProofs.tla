------------------------- MODULE TeardownPartsProofs -------------------------
(* Proofs about two of the parts that process teardown reaches: the work sets, for
   any number of holders, threads, slots and bits, and the raw-input queue, for
   any depth and any number of events. *)
EXTENDS WorkSet, InputQueue, TLAPS

(* The provers have thirty seconds for a leaf. *)
USE SMTT(30), ZenonT(30)

(* The generation of a binding is never ahead of its slot's, so the one that
   create hands out next is newer than every binding. *)
BindingsPast == \A b \in bindings : b.id.gen <= sets[b.id.slot].gen

SetInv == SetTypeOK /\ NoStrandedWaiter /\ BindingStaysWithHolder /\ BindingsPast

SlotRecords ==
  [gen : 0 .. MaxSetGen, holder : Holders \cup {NoHolder}, ready : SUBSET Bits, armed : SUBSET Bits]

(* What a thread that does not wait is recorded as is a legal wait record. *)
LEMMA NotWaitingType ==
  NotWaiting \in [on : BOOLEAN, id : SetIds, mask : SUBSET Bits, timed : BOOLEAN] /\ ~NotWaiting.on
  <1>1. SetIds # {}
    <2>1. PICK s \in SetSlots : TRUE
      BY WorkSetConstants, ZenonT(30)
    <2>2. [slot |-> s, gen |-> 1] \in SetIds
      BY WorkSetConstants DEF SetIds
    <2> QED BY <2>2
  <1>2. (CHOOSE i \in SetIds : TRUE) \in SetIds
    BY <1>1
  <1> QED BY <1>2 DEF NotWaiting

(* The empty table satisfies the inductive invariant. *)
LEMMA SetInitInv == SetInit => SetInv
  BY NotWaitingType, WorkSetConstants
  DEF SetInit, SetInv, SetTypeOK, NoStrandedWaiter, BindingStaysWithHolder, BindingsPast, EmptySlot

(* create takes a free slot under a new generation, which no binding and no waiter names yet. *)
LEMMA CreateInv ==
  ASSUME SetInv, NEW t \in Threads, Create(t)
  PROVE  SetInv'
  <1> USE WorkSetConstants
  <1>1. PICK s \in FreeSets :
          sets' = [sets EXCEPT ![s] = [EmptySlot(@.gen + 1) EXCEPT !.holder = OwnerOf[t]]]
    BY ZenonT(30) DEF Create
  <1>2. /\ s \in SetSlots /\ sets[s].holder = NoHolder /\ sets[s].gen \in 0 .. MaxSetGen - 1
        /\ sets' = [sets EXCEPT ![s] = [gen |-> sets[s].gen + 1, holder |-> OwnerOf[t],
                                        ready |-> {}, armed |-> {}]]
        /\ waiting' = waiting /\ bindings' = bindings /\ exited' = exited
    <2>1. s \in SetSlots /\ sets[s].holder = NoHolder /\ sets[s].gen \in 0 .. MaxSetGen - 1
      BY DEF FreeSets, SetInv, SetTypeOK
    <2>2. [EmptySlot(sets[s].gen + 1) EXCEPT !.holder = OwnerOf[t]]
            = [gen |-> sets[s].gen + 1, holder |-> OwnerOf[t], ready |-> {}, armed |-> {}]
      BY DEF EmptySlot
    <2>3. sets \in [SetSlots -> SlotRecords]
      BY DEF SetInv, SetTypeOK, SlotRecords
    <2> QED BY <1>1, <2>1, <2>2, <2>3, ZenonT(30) DEF Create
  <1>3. SetTypeOK'
    BY <1>2 DEF SetInv, SetTypeOK
  <1>4. NoStrandedWaiter'
    BY <1>2 DEF SetInv, SetTypeOK, NoStrandedWaiter, OwnsSet, LiveId, SetIds
  <1>5. BindingStaysWithHolder' /\ BindingsPast'
    BY <1>2 DEF SetInv, SetTypeOK, BindingStaysWithHolder, BindingsPast, LiveId, SetIds
  <1> QED BY <1>3, <1>4, <1>5 DEF SetInv

(* destroy wakes the waiters of the set it frees. *)
LEMMA DestroyInv ==
  ASSUME SetInv, NEW t \in Threads, NEW id \in SetIds, Destroy(t, id)
  PROVE  SetInv'
  <1> USE WorkSetConstants
  <1>1. SetTypeOK'
    BY NotWaitingType, ZenonT(30) DEF Destroy, Free, EmptySlot, WokenOn, SetInv, SetTypeOK
  <1>2. NoStrandedWaiter'
    <2> SUFFICES ASSUME NEW u \in Threads, waiting'[u].on
                 PROVE  (/\ OwnsSet(OwnerOf[u], waiting[u].id)
                         /\ sets[waiting[u].id.slot].ready \cap waiting[u].mask = {}
                         /\ waiting[u].mask \subseteq sets[waiting[u].id.slot].armed)'
      BY ZenonT(30) DEF NoStrandedWaiter
    <2>1. waiting'[u] = waiting[u] /\ waiting[u].on /\ waiting[u].id # id
      BY NotWaitingType DEF Destroy, WokenOn, SetInv, SetTypeOK
    <2>2. waiting[u].id \in SetIds /\ LiveId(waiting[u].id) /\ LiveId(id)
      BY <2>1 DEF Destroy, SetInv, SetTypeOK, NoStrandedWaiter, OwnsSet
    <2>3. waiting[u].id.slot # id.slot
      BY <2>1, <2>2 DEF LiveId, SetIds
    <2>4. sets'[waiting[u].id.slot] = sets[waiting[u].id.slot]
      BY <2>2, <2>3 DEF Destroy, Free, SetInv, SetTypeOK, SetIds
    <2>5. /\ OwnsSet(OwnerOf[u], waiting[u].id) /\ sets[waiting[u].id.slot].ready \cap waiting[u].mask = {}
          /\ waiting[u].mask \subseteq sets[waiting[u].id.slot].armed
      BY <2>1, ZenonT(30) DEF SetInv, NoStrandedWaiter
    <2> QED BY <2>1, <2>4, <2>5, ZenonT(30) DEF OwnsSet, LiveId
  <1>3. BindingStaysWithHolder' /\ BindingsPast'
    BY DEF Destroy, Free, EmptySlot, SetInv, SetTypeOK, BindingStaysWithHolder, BindingsPast, LiveId, SetIds
  <1> QED BY <1>1, <1>2, <1>3 DEF SetInv

(* A wait that finds a ready bit takes it and blocks nobody. *)
LEMMA WaitReadyInv ==
  ASSUME SetInv, NEW t \in Threads, NEW id \in SetIds, NEW mask \in Masks, WaitReady(t, id, mask)
  PROVE  SetInv'
  <1>1. SetTypeOK'
    <2>1. id.slot \in SetSlots /\ sets \in [SetSlots -> SlotRecords]
      BY DEF SetIds, SetInv, SetTypeOK, SlotRecords
    <2>2. [sets[id.slot] EXCEPT !.ready = @ \ mask] \in SlotRecords
      BY <2>1 DEF SlotRecords, Masks
    <2>3. sets' \in [SetSlots -> SlotRecords]
      BY <2>1, <2>2, ZenonT(30) DEF WaitReady
    <2> QED BY <2>3 DEF WaitReady, SetInv, SetTypeOK, SlotRecords, Masks
  <1>2. NoStrandedWaiter'
    BY DEF WaitReady, SetInv, SetTypeOK, NoStrandedWaiter, OwnsSet, LiveId, SetIds
  <1>3. BindingStaysWithHolder' /\ BindingsPast'
    BY DEF WaitReady, SetInv, SetTypeOK, BindingStaysWithHolder, BindingsPast, LiveId, SetIds
  <1> QED BY <1>1, <1>2, <1>3 DEF SetInv

(* A wait that blocks arms the bits it waits for, beside those of other waiters. *)
LEMMA WaitBlockInv ==
  ASSUME SetInv, NEW t \in Threads, NEW id \in SetIds, NEW mask \in Masks, NEW timed \in BOOLEAN,
         WaitBlock(t, id, mask, timed)
  PROVE  SetInv'
  <1>1. SetTypeOK'
    <2>1. id.slot \in SetSlots /\ sets \in [SetSlots -> SlotRecords]
      BY DEF SetIds, SetInv, SetTypeOK, SlotRecords
    <2>2. [sets[id.slot] EXCEPT !.armed = @ \cup mask] \in SlotRecords
      BY <2>1 DEF SlotRecords, Masks
    <2>3. sets' \in [SetSlots -> SlotRecords]
      BY <2>1, <2>2, ZenonT(30) DEF WaitBlock
    <2> QED BY <2>3 DEF WaitBlock, SetInv, SetTypeOK, SlotRecords, Masks
  <1>2. NoStrandedWaiter'
    BY DEF WaitBlock, SetInv, SetTypeOK, NoStrandedWaiter, OwnsSet, LiveId, SetIds, Masks
  <1>3. BindingStaysWithHolder' /\ BindingsPast'
    BY DEF WaitBlock, SetInv, SetTypeOK, BindingStaysWithHolder, BindingsPast, LiveId, SetIds
  <1> QED BY <1>1, <1>2, <1>3 DEF SetInv

(* A wait that times out leaves the set. *)
LEMMA WaitTimesOutInv ==
  ASSUME SetInv, NEW t \in Threads, WaitTimesOut(t)
  PROVE  SetInv'
  <1>1. SetTypeOK'
    BY NotWaitingType, ZenonT(30) DEF WaitTimesOut, SetInv, SetTypeOK
  <1>2. NoStrandedWaiter' /\ BindingStaysWithHolder' /\ BindingsPast'
    BY NotWaitingType
    DEF WaitTimesOut, SetInv, SetTypeOK, NoStrandedWaiter, BindingStaysWithHolder, BindingsPast, OwnsSet, LiveId
  <1> QED BY <1>1, <1>2 DEF SetInv

(* A binding names a live set of its own holder. *)
LEMMA BindInv ==
  ASSUME SetInv, NEW t \in Threads, NEW id \in SetIds, Bind(t, id)
  PROVE  SetInv'
  <1>1. SetTypeOK' /\ NoStrandedWaiter'
    BY WorkSetConstants DEF Bind, SetInv, SetTypeOK, NoStrandedWaiter, OwnsSet, LiveId
  <1>2. BindingStaysWithHolder' /\ BindingsPast'
    BY WorkSetConstants
    DEF Bind, SetInv, SetTypeOK, BindingStaysWithHolder, BindingsPast, OwnsSet, LiveId, SetIds
  <1> QED BY <1>1, <1>2, ZenonT(30) DEF SetInv

(* A signal reaches the set only under its current generation and wakes the waiters of its bits. *)
LEMMA SignalInv ==
  ASSUME SetInv, NEW b \in bindings, NEW bit \in Bits, Signal(b, bit)
  PROVE  SetInv'
  <1>1. b.id \in SetIds /\ b.id.slot \in SetSlots
    BY ZenonT(30) DEF SetInv, SetTypeOK, SetIds
  <1>2. SetTypeOK'
    BY <1>1, NotWaitingType DEF Signal, WokenOn, SetInv, SetTypeOK
  <1>3. NoStrandedWaiter'
    <2> SUFFICES ASSUME NEW t \in Threads, waiting'[t].on
                 PROVE  /\ OwnsSet(OwnerOf[t], waiting[t].id)'
                        /\ sets'[waiting'[t].id.slot].ready \cap waiting'[t].mask = {}
                        /\ waiting'[t].mask \subseteq sets'[waiting'[t].id.slot].armed
      BY DEF NoStrandedWaiter
    <2>1. waiting'[t] = waiting[t]
      BY NotWaitingType DEF Signal, WokenOn, SetInv, SetTypeOK
    <2> DEFINE i == waiting[t].id
    <2>2. /\ i \in SetIds /\ OwnsSet(OwnerOf[t], i)
          /\ sets[i.slot].ready \cap waiting[t].mask = {} /\ waiting[t].mask \subseteq sets[i.slot].armed
      BY <2>1, ZenonT(30) DEF SetInv, SetTypeOK, NoStrandedWaiter
    <2>3. CASE i.slot # b.id.slot
      BY <2>1, <2>2, <2>3, <1>1, ZenonT(30) DEF Signal, SetInv, SetTypeOK, OwnsSet, LiveId, SetIds
    <2>4. CASE i.slot = b.id.slot
      <3>1. i = b.id
        BY <2>2, <2>4, <1>1 DEF Signal, OwnsSet, LiveId, SetIds
      <3>2. bit \notin sets[b.id.slot].armed \ sets[b.id.slot].ready
        BY <2>1, <3>1, NotWaitingType DEF Signal, WokenOn
      <3>3. bit \notin waiting[t].mask \/ bit \in sets[b.id.slot].ready
        BY <2>2, <3>1, <3>2
      <3>4. sets \in [SetSlots -> SlotRecords]
        BY DEF SetInv, SetTypeOK, SlotRecords
      <3>5. sets'[b.id.slot] = [sets[b.id.slot] EXCEPT !.ready = @ \cup {bit}]
        BY <3>4, <1>1, ZenonT(30) DEF Signal
      <3>6. /\ sets'[b.id.slot].gen = sets[b.id.slot].gen
            /\ sets'[b.id.slot].holder = sets[b.id.slot].holder
            /\ sets'[b.id.slot].armed = sets[b.id.slot].armed
            /\ sets'[b.id.slot].ready = sets[b.id.slot].ready \cup {bit}
        BY <3>4, <3>5, <1>1 DEF SlotRecords
      <3>7. sets'[i.slot].ready \cap waiting[t].mask = {}
        BY <2>2, <3>1, <3>3, <3>6, ZenonT(30)
      <3> QED BY <2>1, <2>2, <3>1, <3>6, <3>7, ZenonT(30) DEF OwnsSet, LiveId
    <2> QED BY <2>3, <2>4
  <1>4. BindingStaysWithHolder' /\ BindingsPast'
    BY <1>1 DEF Signal, SetInv, SetTypeOK, BindingStaysWithHolder, BindingsPast, LiveId, SetIds
  <1> QED BY <1>2, <1>3, <1>4 DEF SetInv

(* The exit of a holder frees its sets and removes its waiters; its bindings stay and are stale. *)
LEMMA HolderExitInv ==
  ASSUME SetInv, NEW h \in Holders, HolderExit(h)
  PROVE  SetInv'
  <1> USE WorkSetConstants
  <1>1. SetTypeOK'
    BY NotWaitingType, ZenonT(30) DEF HolderExit, Free, EmptySlot, SetInv, SetTypeOK
  <1>2. NoStrandedWaiter'
    BY NotWaitingType, ZenonT(30)
    DEF HolderExit, Free, EmptySlot, SetInv, SetTypeOK, NoStrandedWaiter, OwnsSet, LiveId, SetIds
  <1>3. BindingStaysWithHolder' /\ BindingsPast'
    BY DEF HolderExit, Free, EmptySlot, SetInv, SetTypeOK, BindingStaysWithHolder, BindingsPast, LiveId, SetIds
  <1> QED BY <1>1, <1>2, <1>3 DEF SetInv

(* The invariant is inductive: one case per action. *)
LEMMA SetNextInv == SetInv /\ [SetNext]_setVars => SetInv'
  <1> SUFFICES ASSUME SetInv, [SetNext]_setVars PROVE SetInv'
    OBVIOUS
  <1>1. CASE SetStep
    BY <1>1, CreateInv, DestroyInv, WaitReadyInv, WaitBlockInv, WaitTimesOutInv, BindInv, SignalInv
    DEF SetStep
  <1>2. CASE \E h \in Holders : HolderExit(h)
    BY <1>2, HolderExitInv, ZenonT(30)
  <1>3. CASE UNCHANGED setVars
    BY <1>3 DEF setVars, SetInv, SetTypeOK, NoStrandedWaiter, BindingStaysWithHolder, BindingsPast, OwnsSet, LiveId
  <1> QED BY <1>1, <1>2, <1>3 DEF SetNext

(* The inductive invariant holds in every reachable state. *)
THEOREM SetInvariance == SetSpec => []SetInv
  BY SetInitInv, SetNextInv, PTL DEF SetSpec

(* No thread blocked in WAIT is stranded: its set is live and its own, the bits
   it waits for are armed and not ready (begin_wait, signal, destroy, exit). *)
THEOREM NoStrandedWaiterCorrect == SetSpec => []NoStrandedWaiter
  <1>1. SetInv => NoStrandedWaiter
    BY DEF SetInv
  <1> QED BY <1>1, SetInvariance, PTL

(* A stale binding never names the set of another holder (WorkSetTable::free
   keeps the generation, create advances it). *)
THEOREM BindingCorrect == SetSpec => []BindingStaysWithHolder
  <1>1. SetInv => BindingStaysWithHolder
    BY DEF SetInv
  <1> QED BY <1>1, SetInvariance, PTL

-----------------------------------------------------------------------------
(* The raw-input queue. *)
DeviceIds == [index : Devices \cup {"none"}, gen : Nat]
Kinds == {"Key", "RelMotion", "Overflow"}
Events == {"Key", "RelMotion", "Loss", "Read"}
RawRecords ==
  [seq : Int, device : DeviceIds, kind : Kinds, from : Int, to : Int, dropped : Nat]
QueueFields == {"ring", "nextSeq", "dropped", "first", "lostFrom", "gens", "present", "consumer"}

(* What a record says of the events from .. to of log l *)
Tells(kind, from, to, dropped, l) ==
  IF kind = "Overflow" THEN dropped \in 1 .. to - from + 1
  ELSE (\A e \in from .. to : l[e] = kind) /\ (kind = "Key" => from = to)
Says(r, l) == Tells(r.kind, r.from, r.to, r.dropped, l)

LastOf(r, u) == IF r = << >> THEN u ELSE r[Len(r)].to

(* The records of ring r follow event u and each other without a gap. *)
Contiguous(r, u) == \A i \in 1 .. Len(r) : r[i].from = 1 + (IF i = 1 THEN u ELSE r[i - 1].to)

(* They are numbered from s + 1 on and tell the log. *)
Numbered(r, s, l) == \A i \in 1 .. Len(r) : r[i].device # NoDevice /\ r[i].seq = s + i /\ Says(r[i], l)

(* The distance of two records bounds the events between them from below, so that
   clearing the ring never counts more losses than there were events. *)
Spread(r) == \A i, j \in 1 .. Len(r) : i <= j => r[j].to >= r[i].from + (j - i)

RingOK(r, u, s, l) ==
  /\ r \in Seq(RawRecords) /\ u \in Nat /\ s \in Int
  /\ Contiguous(r, u) /\ Numbered(r, s, l) /\ Spread(r)

(* A pending loss starts right after the ring and reaches to the end of the log. *)
LossOK(q, u, l) ==
  IF q.dropped = 0 THEN LastOf(q.ring, u) = Len(l) /\ q.first = NoDevice /\ q.lostFrom = 0
  ELSE /\ q.first # NoDevice /\ q.lostFrom = LastOf(q.ring, u) + 1
       /\ q.dropped <= Len(l) - LastOf(q.ring, u)

Base(q) == q.nextSeq - Len(q.ring) - 1

QueueOK(q, u, l) ==
  /\ DOMAIN q = QueueFields
  /\ q.nextSeq \in Int /\ q.dropped \in Nat /\ q.first \in DeviceIds /\ q.lostFrom \in Nat
  /\ l \in Seq(Events)
  /\ RingOK(q.ring, u, Base(q), l) /\ LossOK(q, u, l)
  /\ Len(q.ring) <= QueueDepth

InputInv ==
  /\ QueueOK(input, seen.upto, log)
  /\ input.gens \in [Devices -> Nat]
  /\ seen \in [upto : Nat, seq : Int]
  /\ seen.seq # 0 => seen.seq = Base(input)

(* An empty ring *)
LEMMA EmptyRing ==
  ASSUME NEW u \in Nat, NEW s \in Int, NEW l
  PROVE  RingOK(<< >>, u, s, l) /\ LastOf(<< >>, u) = u /\ Len(<< >>) = 0 /\ 0 \in Nat
  BY DEF RingOK, Contiguous, Numbered, Spread, LastOf

(* Every record of a ring stands for at least one event, after u and up to the last. *)
LEMMA RingBounds ==
  ASSUME NEW r, NEW u, NEW s, NEW l, RingOK(r, u, s, l)
  PROVE  /\ Len(r) \in Nat /\ LastOf(r, u) \in Int /\ LastOf(r, u) >= u + Len(r)
         /\ \A i \in 1 .. Len(r) : /\ r[i] \in RawRecords /\ r[i].from \in Int /\ r[i].to \in Int
                                   /\ u < r[i].from /\ r[i].from <= r[i].to /\ r[i].to <= LastOf(r, u)
  <1>1. Len(r) \in Nat /\ (\A i \in 1 .. Len(r) : r[i] \in RawRecords) /\ u \in Nat
    BY DEF RingOK
  <1>2. \A i \in 1 .. Len(r) : r[i].from \in Int /\ r[i].to \in Int
    BY <1>1 DEF RawRecords
  <1>3. r = << >> <=> Len(r) = 0
    BY DEF RingOK
  <1>4. /\ \A i \in 1 .. Len(r) : r[i].from = 1 + (IF i = 1 THEN u ELSE r[i - 1].to)
        /\ \A i, j \in 1 .. Len(r) : i <= j => r[j].to >= r[i].from + (j - i)
    BY ZenonT(30) DEF RingOK, Contiguous, Spread
  <1>5. LastOf(r, u) \in Int /\ LastOf(r, u) >= u + Len(r)
    BY <1>1, <1>2, <1>3, <1>4 DEF LastOf
  <1>6. ASSUME NEW i \in 1 .. Len(r)
        PROVE  u < r[i].from /\ r[i].from <= r[i].to /\ r[i].to <= LastOf(r, u)
    <2>1. r[i].from <= r[i].to
      BY <1>1, <1>2, <1>4, <1>6
    <2>2. u < r[i].from
      <3>1. CASE i = 1
        BY <3>1, <1>1, <1>2, <1>4
      <3>2. CASE i # 1
        <4>1. i - 1 \in 1 .. Len(r) /\ 1 \in 1 .. Len(r) /\ 1 <= i - 1
          BY <3>2, <1>1
        <4>2. r[i].from = 1 + r[i - 1].to /\ r[1].from = 1 + u /\ r[i - 1].to >= r[1].from + (i - 1 - 1)
          BY <3>2, <4>1, <1>4
        <4> QED BY <3>2, <4>1, <4>2, <1>1, <1>2
      <3> QED BY <3>1, <3>2
    <2>3. r[i].to <= LastOf(r, u)
      <3>1. CASE i = Len(r)
        BY <3>1, <1>2, <1>3 DEF LastOf
      <3>2. CASE i # Len(r)
        <4>1. i + 1 \in 1 .. Len(r) /\ Len(r) \in 1 .. Len(r) /\ i + 1 <= Len(r) /\ i + 1 # 1 /\ i + 1 - 1 = i
          BY <3>2, <1>1
        <4>2. r[i + 1].from = 1 + r[i].to /\ r[Len(r)].to >= r[i + 1].from + (Len(r) - (i + 1))
          BY <4>1, <1>4
        <4> QED BY <4>1, <4>2, <1>1, <1>2, <1>3 DEF LastOf
      <3> QED BY <3>1, <3>2
    <2> QED BY <2>1, <2>2, <2>3
  <1> QED BY <1>1, <1>2, <1>5, <1>6

(* A ring only speaks of the events after u, up to its last one. *)
LEMMA RingLog ==
  ASSUME NEW r, NEW u, NEW s, NEW l, RingOK(r, u, s, l), NEW k,
         \A e \in u + 1 .. LastOf(r, u) : k[e] = l[e]
  PROVE  RingOK(r, u, s, k)
  <1>1. ASSUME NEW i \in 1 .. Len(r) PROVE Says(r[i], k)
    <2>1. /\ u < r[i].from /\ r[i].to <= LastOf(r, u) /\ u \in Nat /\ LastOf(r, u) \in Int
          /\ r[i].from \in Int /\ r[i].to \in Int
      BY RingBounds DEF RingOK
    <2>2. \A e \in r[i].from .. r[i].to : k[e] = l[e]
      BY <2>1
    <2>3. Says(r[i], l)
      BY ZenonT(30) DEF RingOK, Numbered
    <2> QED BY <2>2, <2>3 DEF Says, Tells
  <1>2. Numbered(r, s, k)
    BY <1>1, ZenonT(30) DEF RingOK, Numbered
  <1> QED BY <1>2 DEF RingOK

(* A record after the last *)
LEMMA RingAppend ==
  ASSUME NEW r, NEW u, NEW s, NEW l, RingOK(r, u, s, l), NEW x \in RawRecords,
         x.from = 1 + LastOf(r, u), x.from <= x.to, x.device # NoDevice,
         x.seq = s + Len(r) + 1, Says(x, l)
  PROVE  /\ RingOK(Append(r, x), u, s, l) /\ LastOf(Append(r, x), u) = x.to
         /\ Len(Append(r, x)) = Len(r) + 1
  <1> DEFINE y == Append(r, x)
  <1>1. /\ y \in Seq(RawRecords) /\ Len(y) = Len(r) + 1 /\ Len(r) \in Nat /\ y[Len(r) + 1] = x
        /\ \A i \in 1 .. Len(r) : y[i] = r[i]
    BY DEF RingOK
  <1>2. y # << >>
    BY <1>1
  <1>3. LastOf(y, u) = x.to
    BY <1>1, <1>2 DEF LastOf
  <1> HIDE DEF y
  <1>4. \A i \in 1 .. Len(y) : i \in 1 .. Len(r) \/ i = Len(r) + 1
    BY <1>1
  <1>5. r = << >> <=> Len(r) = 0
    BY DEF RingOK
  <1>5a. /\ \A i \in 1 .. Len(r) : r[i].from = 1 + (IF i = 1 THEN u ELSE r[i - 1].to)
         /\ \A i, j \in 1 .. Len(r) : i <= j => r[j].to >= r[i].from + (j - i)
    BY ZenonT(30) DEF RingOK, Contiguous, Spread
  <1>6. \A i \in 1 .. Len(y) : y[i].from = 1 + (IF i = 1 THEN u ELSE y[i - 1].to)
    <2> SUFFICES ASSUME NEW i \in 1 .. Len(y) PROVE y[i].from = 1 + (IF i = 1 THEN u ELSE y[i - 1].to)
      OBVIOUS
    <2>1. CASE i \in 1 .. Len(r)
      <3>1. i # 1 => i - 1 \in 1 .. Len(r)
        BY <2>1, <1>1
      <3> QED BY <2>1, <3>1, <1>1, <1>5a, ZenonT(30)
    <2>2. CASE i = Len(r) + 1 /\ Len(r) = 0
      BY <2>2, <1>1, <1>5 DEF LastOf
    <2>3. CASE i = Len(r) + 1 /\ Len(r) # 0
      <3>1. Len(r) \in 1 .. Len(r) /\ i # 1 /\ i - 1 = Len(r) /\ r # << >>
        BY <2>3, <1>1, <1>5
      <3> QED BY <2>3, <3>1, <1>1 DEF LastOf
    <2> QED BY <2>1, <2>2, <2>3, <1>4
  <1>7. \A i \in 1 .. Len(y) : y[i].device # NoDevice /\ y[i].seq = s + i /\ Says(y[i], l)
    <2>1. \A i \in 1 .. Len(r) : r[i].device # NoDevice /\ r[i].seq = s + i /\ Says(r[i], l)
      BY ZenonT(30) DEF RingOK, Numbered
    <2>2. x.seq = s + (Len(r) + 1)
      BY <1>1 DEF RingOK
    <2> QED BY <1>1, <1>4, <2>1, <2>2, ZenonT(30)
  <1>8. \A i, j \in 1 .. Len(y) : i <= j => y[j].to >= y[i].from + (j - i)
    <2> SUFFICES ASSUME NEW i \in 1 .. Len(y), NEW j \in 1 .. Len(y), i <= j
                 PROVE  y[j].to >= y[i].from + (j - i)
      OBVIOUS
    <2>1. CASE j \in 1 .. Len(r)
      BY <2>1, <1>1, <1>5a
    <2>2. CASE j = Len(r) + 1 /\ i = j
      BY <2>2, <1>1 DEF RawRecords
    <2>3. CASE j = Len(r) + 1 /\ i # j
      <3>1. i \in 1 .. Len(r) /\ Len(r) \in 1 .. Len(r) /\ y[i] = r[i] /\ y[j] = x /\ r # << >>
        BY <2>3, <1>1, <1>5
      <3>2. r[Len(r)].to >= r[i].from + (Len(r) - i)
        BY <3>1, <1>1, <1>5a
      <3>3. x.from = 1 + r[Len(r)].to
        BY <3>1 DEF LastOf
      <3>4. r[i].from \in Int /\ r[Len(r)].to \in Int /\ x.to \in Int
        BY <3>1, RingBounds, ZenonT(30) DEF RawRecords
      <3> QED BY <2>3, <3>1, <3>2, <3>3, <3>4, <1>1
    <2> QED BY <2>1, <2>2, <2>3, <1>4
  <1>9. RingOK(y, u, s, l)
    BY <1>1, <1>6, <1>7, <1>8 DEF RingOK, Contiguous, Numbered, Spread
  <1> QED BY <1>1, <1>3, <1>9 DEF y

(* Reading k records *)
LEMMA RingPop ==
  ASSUME NEW r, NEW u, NEW s, NEW l, RingOK(r, u, s, l), NEW k \in 1 .. Len(r)
  PROVE  LET y == SubSeq(r, k + 1, Len(r))
         IN  /\ RingOK(y, r[k].to, s + k, l) /\ LastOf(y, r[k].to) = LastOf(r, u)
             /\ Len(y) = Len(r) - k
  <1> DEFINE y == SubSeq(r, k + 1, Len(r))
  <1>1. /\ Len(r) \in Nat /\ (\A i \in 1 .. Len(r) : r[i] \in RawRecords) /\ s \in Int /\ u \in Nat
        /\ r[k].to \in Nat /\ (r = << >> <=> Len(r) = 0)
    BY RingBounds DEF RingOK
  <1>2. y \in Seq(RawRecords) /\ Len(y) = Len(r) - k /\ \A i \in 1 .. Len(y) : y[i] = r[i + k]
    BY <1>1 DEF RingOK
  <1> HIDE DEF y
  <1>3. y = << >> <=> Len(y) = 0
    BY <1>2
  <1>4. \A i \in 1 .. Len(y) : i + k \in 1 .. Len(r) /\ i + k # 1
    BY <1>1, <1>2
  <1>5. /\ \A i \in 1 .. Len(r) : r[i].from = 1 + (IF i = 1 THEN u ELSE r[i - 1].to)
        /\ \A i, j \in 1 .. Len(r) : i <= j => r[j].to >= r[i].from + (j - i)
        /\ \A i \in 1 .. Len(r) : r[i].device # NoDevice /\ r[i].seq = s + i /\ Says(r[i], l)
    BY ZenonT(30) DEF RingOK, Contiguous, Spread, Numbered
  <1>6. Contiguous(y, r[k].to)
    <2> SUFFICES ASSUME NEW i \in 1 .. Len(y)
                 PROVE  y[i].from = 1 + (IF i = 1 THEN r[k].to ELSE y[i - 1].to)
      BY ZenonT(30) DEF Contiguous
    <2>1. y[i].from = 1 + r[i + k - 1].to
      <3>1. y[i] = r[i + k] /\ i + k \in 1 .. Len(r) /\ i + k # 1
        BY <1>2, <1>4, ZenonT(30)
      <3>2. \A j \in 1 .. Len(r) : j # 1 => r[j].from = 1 + r[j - 1].to
        BY DEF RingOK, Contiguous
      <3>3. r[i + k].from = 1 + r[i + k - 1].to
        BY <3>1, <3>2
      <3> QED BY <3>1, <3>3, ZenonT(30)
    <2>2. CASE i = 1
      BY <2>1, <2>2, <1>1
    <2>3. CASE i # 1
      <3>1. i - 1 \in 1 .. Len(y) /\ i - 1 + k = i + k - 1
        BY <2>3, <1>2
      <3> QED BY <2>1, <2>3, <3>1, <1>2, ZenonT(30)
    <2> QED BY <2>2, <2>3
  <1>7. Numbered(y, s + k, l)
    <2> SUFFICES ASSUME NEW i \in 1 .. Len(y)
                 PROVE  y[i].device # NoDevice /\ y[i].seq = s + k + i /\ Says(y[i], l)
      BY ZenonT(30) DEF Numbered
    <2>1. s + k + i = s + (i + k)
      BY <1>1, <1>2
    <2> QED BY <2>1, <1>2, <1>4, <1>5, ZenonT(30)
  <1>8. Spread(y)
    <2> SUFFICES ASSUME NEW i \in 1 .. Len(y), NEW j \in 1 .. Len(y), i <= j
                 PROVE  y[j].to >= y[i].from + (j - i)
      BY ZenonT(30) DEF Spread
    <2>1. i + k <= j + k /\ (j + k) - (i + k) = j - i
      BY <1>1, <1>2
    <2>2. r[j + k].to >= r[i + k].from + ((j + k) - (i + k))
      BY <2>1, <1>4, <1>5
    <2> QED BY <2>1, <2>2, <1>2, ZenonT(30)
  <1>9. LastOf(y, r[k].to) = LastOf(r, u)
    <2>1. CASE Len(y) = 0
      BY <2>1, <1>1, <1>2, <1>3 DEF LastOf
    <2>2. CASE Len(y) # 0
      BY <2>2, <1>1, <1>2, <1>3 DEF LastOf
    <2> QED BY <2>1, <2>2
  <1>10. RingOK(y, r[k].to, s + k, l)
    BY <1>1, <1>2, <1>6, <1>7, <1>8 DEF RingOK
  <1> QED BY <1>2, <1>9, <1>10 DEF y

(* Merging one more motion into the last record *)
LEMMA RingMerge ==
  ASSUME NEW r, NEW u, NEW s, NEW l, RingOK(r, u, s, l), NEW n, r # << >>,
         r[Len(r)].kind = "RelMotion", n = 1 + LastOf(r, u), l[n] = "RelMotion"
  PROVE  LET y == [r EXCEPT ![Len(r)].to = n]
         IN  RingOK(y, u, s, l) /\ LastOf(y, u) = n /\ Len(y) = Len(r)
  <1> DEFINE y == [r EXCEPT ![Len(r)].to = n]
             x == r[Len(r)]
             z == [x EXCEPT !.to = n]
  <1>1. /\ Len(r) \in Nat \ {0} /\ (\A i \in 1 .. Len(r) : r[i] \in RawRecords) /\ s \in Int /\ u \in Nat
        /\ n \in Int /\ n = 1 + x.to /\ x.from <= x.to /\ x.from \in Int /\ x.to \in Int
    BY RingBounds DEF RingOK, LastOf
  <1>2. z \in RawRecords /\ z.to = n /\ z.from = x.from /\ z.kind = x.kind /\ z.seq = x.seq /\ z.device = x.device
    BY <1>1 DEF RawRecords
  <1>3. /\ y \in Seq(RawRecords) /\ Len(y) = Len(r) /\ y[Len(r)] = z
        /\ \A i \in 1 .. Len(r) : i # Len(r) => y[i] = r[i]
    BY <1>1, <1>2 DEF RingOK
  <1>4. y # << >>
    BY <1>1, <1>3
  <1> HIDE DEF y, z, x
  <1>5. /\ \A i \in 1 .. Len(r) : r[i].from = 1 + (IF i = 1 THEN u ELSE r[i - 1].to)
        /\ \A i, j \in 1 .. Len(r) : i <= j => r[j].to >= r[i].from + (j - i)
        /\ \A i \in 1 .. Len(r) : r[i].device # NoDevice /\ r[i].seq = s + i /\ Says(r[i], l)
    BY ZenonT(30) DEF RingOK, Contiguous, Spread, Numbered
  <1>5a. Len(r) \in 1 .. Len(r)
    BY <1>1
  <1>6. \A i \in 1 .. Len(r) : y[i].from = r[i].from /\ y[i].seq = r[i].seq /\ y[i].device = r[i].device
    BY <1>2, <1>3, ZenonT(30) DEF x
  <1>7. Contiguous(y, u)
    <2> SUFFICES ASSUME NEW i \in 1 .. Len(r)
                 PROVE  y[i].from = 1 + (IF i = 1 THEN u ELSE y[i - 1].to)
      BY <1>3, ZenonT(30) DEF Contiguous
    <2>1. i # 1 => i - 1 \in 1 .. Len(r) /\ i - 1 # Len(r)
      BY <1>1
    <2> QED BY <2>1, <1>3, <1>5, <1>6, ZenonT(30)
  <1>8. Says(z, l)
    <2>1. Says(x, l)
      BY <1>5, <1>5a, ZenonT(30) DEF x
    <2>2. \A e \in x.from .. n : e \in x.from .. x.to \/ e = n
      BY <1>1
    <2>3. x.kind = "RelMotion"
      BY DEF x
    <2> QED BY <2>1, <2>2, <2>3, <1>2 DEF Says, Tells
  <1>9. Numbered(y, s, l)
    BY <1>3, <1>5, <1>6, <1>8, ZenonT(30) DEF Numbered
  <1>10. Spread(y)
    <2> SUFFICES ASSUME NEW i \in 1 .. Len(r), NEW j \in 1 .. Len(r), i <= j
                 PROVE  y[j].to >= y[i].from + (j - i)
      BY <1>3, ZenonT(30) DEF Spread
    <2>1. r[j].to >= r[i].from + (j - i) /\ r[i].from \in Int /\ r[j].to \in Int
      BY <1>1, <1>5, ZenonT(30) DEF RawRecords
    <2>2. y[j].to >= r[j].to
      <3>1. CASE j = Len(r)
        BY <3>1, <1>1, <1>2, <1>3 DEF x
      <3>2. CASE j # Len(r)
        BY <3>2, <2>1, <1>3
      <3> QED BY <3>1, <3>2
    <2>3. y[j].to \in Int
      <3>1. y[j] \in RawRecords
        BY <1>1, <1>2, <1>3
      <3> QED BY <3>1 DEF RawRecords
    <2>4. y[i].from = r[i].from
      BY <1>6, ZenonT(30)
    <2> QED BY <2>1, <2>2, <2>3, <2>4
  <1>11. LastOf(y, u) = n
    BY <1>2, <1>3, <1>4 DEF LastOf
  <1>12. RingOK(y, u, s, l)
    BY <1>1, <1>3, <1>7, <1>9, <1>10 DEF RingOK
  <1> QED BY <1>3, <1>11, <1>12 DEF y

(* The ring does not reach beyond the log. *)
LEMMA QueueBounds ==
  ASSUME NEW q, NEW u, NEW l, QueueOK(q, u, l)
  PROVE  /\ Len(l) \in Nat /\ Len(q.ring) \in Nat /\ u \in Nat /\ LastOf(q.ring, u) \in Int
         /\ u <= LastOf(q.ring, u) /\ LastOf(q.ring, u) <= Len(l)
         /\ u + Len(q.ring) <= LastOf(q.ring, u)
         /\ q.dropped = 0 => q.lostFrom = 0 /\ LastOf(q.ring, u) = Len(l)
         /\ q.dropped # 0 => q.lostFrom = LastOf(q.ring, u) + 1
  <1>1. RingOK(q.ring, u, Base(q), l) /\ l \in Seq(Events) /\ LossOK(q, u, l) /\ q.dropped \in Nat
    BY DEF QueueOK
  <1>2. /\ Len(q.ring) \in Nat /\ LastOf(q.ring, u) \in Int /\ u \in Nat
        /\ LastOf(q.ring, u) >= u + Len(q.ring)
    BY <1>1, RingBounds DEF RingOK
  <1>3. Len(l) \in Nat
    BY <1>1
  <1> QED BY <1>1, <1>2, <1>3 DEF LossOK

(* The log grows by one event: what the ring says stays true. *)
LEMMA RingLogGrows ==
  ASSUME NEW q, NEW u, NEW l, QueueOK(q, u, l), NEW e \in Events
  PROVE  /\ RingOK(q.ring, u, Base(q), Append(l, e)) /\ Append(l, e) \in Seq(Events)
         /\ Len(Append(l, e)) = Len(l) + 1 /\ Append(l, e)[Len(l) + 1] = e
  <1>1. /\ Len(l) \in Nat /\ u \in Nat /\ LastOf(q.ring, u) \in Int /\ LastOf(q.ring, u) <= Len(l)
        /\ RingOK(q.ring, u, Base(q), l) /\ l \in Seq(Events)
    BY QueueBounds DEF QueueOK
  <1>2. /\ Append(l, e) \in Seq(Events) /\ Len(Append(l, e)) = Len(l) + 1 /\ Append(l, e)[Len(l) + 1] = e
        /\ \A i \in 1 .. Len(l) : Append(l, e)[i] = l[i]
    BY <1>1
  <1>3. \A i \in u + 1 .. LastOf(q.ring, u) : Append(l, e)[i] = l[i]
    BY <1>1, <1>2
  <1>4. RingOK(q.ring, u, Base(q), Append(l, e))
    BY <1>1, <1>3, RingLog, ZenonT(30)
  <1> QED BY <1>2, <1>4

(* A queue without a pending loss that has room, and a record that comes next *)
Room(q, u, l) ==
  /\ DOMAIN q = QueueFields /\ q.nextSeq \in Int /\ l \in Seq(Events)
  /\ RingOK(q.ring, u, Base(q), l) /\ Len(q.ring) < QueueDepth
  /\ q.dropped = 0 /\ q.first = NoDevice /\ q.lostFrom = 0

ComesNext(q, u, l, id, kind, from, to, dropped) ==
  /\ id \in DeviceIds /\ id # NoDevice /\ kind \in Kinds /\ dropped \in Nat
  /\ to = Len(l) /\ from = 1 + LastOf(q.ring, u) /\ from <= to
  /\ Tells(kind, from, to, dropped, l)

(* push_record *)
LEMMA PushRecordOK ==
  ASSUME NEW q, NEW u, NEW l, Room(q, u, l), NEW id, NEW kind, NEW from, NEW to, NEW dropped,
         ComesNext(q, u, l, id, kind, from, to, dropped)
  PROVE  /\ QueueOK(PushRecord(q, id, kind, from, to, dropped), u, l)
         /\ Base(PushRecord(q, id, kind, from, to, dropped)) = Base(q)
         /\ PushRecord(q, id, kind, from, to, dropped).gens = q.gens
         /\ PushRecord(q, id, kind, from, to, dropped).dropped = 0
  <1> DEFINE m == PushRecord(q, id, kind, from, to, dropped)
             x == [seq |-> q.nextSeq, device |-> id, kind |-> kind, from |-> from, to |-> to, dropped |-> dropped]
  <1>1. /\ DOMAIN m = QueueFields /\ m.ring = Append(q.ring, x) /\ m.nextSeq = q.nextSeq + 1
        /\ m.dropped = 0 /\ m.first = NoDevice /\ m.lostFrom = 0 /\ m.gens = q.gens
    BY ZenonT(30) DEF PushRecord, QueueFields, Room
  <1>2. /\ Len(q.ring) \in Nat /\ LastOf(q.ring, u) \in Int /\ Len(l) \in Nat /\ l \in Seq(Events)
        /\ q.nextSeq \in Int /\ RingOK(q.ring, u, Base(q), l) /\ Len(q.ring) < QueueDepth
    BY RingBounds DEF Room
  <1>2a. /\ id \in DeviceIds /\ id # NoDevice /\ kind \in Kinds /\ dropped \in Nat
         /\ to = Len(l) /\ from = 1 + LastOf(q.ring, u) /\ from <= to
         /\ Tells(kind, from, to, dropped, l)
    BY ZenonT(30) DEF ComesNext
  <1>3. x \in RawRecords
    BY <1>2, <1>2a DEF RawRecords
  <1>4. Says(x, l)
    BY <1>2a DEF Says
  <1>5. x.seq = Base(q) + Len(q.ring) + 1 /\ x.from = 1 + LastOf(q.ring, u) /\ x.from <= x.to /\ x.device # NoDevice /\ x.to = to
    <2>1. /\ x.seq = q.nextSeq /\ x.from = from /\ x.to = to /\ x.device = id
      OBVIOUS
    <2> HIDE DEF x, m
    <2>2. q.nextSeq = Base(q) + Len(q.ring) + 1
      BY <1>2 DEF Base
    <2> QED BY <1>2a, <2>1, <2>2, ZenonT(30)
  <1> HIDE DEF x, m
  <1>6. /\ RingOK(m.ring, u, Base(q), l) /\ LastOf(m.ring, u) = to /\ Len(m.ring) = Len(q.ring) + 1
    BY <1>1, <1>2, <1>3, <1>4, <1>5, RingAppend
  <1>7. Base(m) = Base(q)
    BY <1>1, <1>2, <1>6 DEF Base
  <1>8. LossOK(m, u, l)
    BY <1>1, <1>2a, <1>6 DEF LossOK
  <1>9. NoDevice \in DeviceIds
    BY ZenonT(30) DEF NoDevice, DeviceIds
  <1>10. Len(m.ring) <= QueueDepth
    BY <1>2, <1>6, InputAssumption
  <1>11. QueueOK(m, u, l)
    BY <1>1, <1>2, <1>6, <1>7, <1>8, <1>9, <1>10 DEF QueueOK
  <1> QED BY <1>1, <1>7, <1>11 DEF m

(* materialize_pending_overflow: the loss becomes a record as soon as it fits. *)
LEMMA MaterializeOK ==
  ASSUME NEW q, NEW u, NEW l, QueueOK(q, u, l)
  PROVE  /\ QueueOK(Materialize(q, Len(l)), u, l) /\ Base(Materialize(q, Len(l))) = Base(q)
         /\ Materialize(q, Len(l)).gens = q.gens
         /\ Materialize(q, Len(l)).dropped = 0 \/ ~(Len(Materialize(q, Len(l)).ring) < QueueDepth)
  <1>1. CASE ~(q.dropped > 0 /\ Len(q.ring) < QueueDepth)
    BY <1>1 DEF Materialize, QueueOK
  <1>2. CASE q.dropped > 0 /\ Len(q.ring) < QueueDepth
    <2> DEFINE n == NoLoss(q)
    <2>1. /\ DOMAIN n = QueueFields /\ n.ring = q.ring /\ n.nextSeq = q.nextSeq /\ n.gens = q.gens
          /\ n.dropped = 0 /\ n.first = NoDevice /\ n.lostFrom = 0
      BY DEF NoLoss, QueueFields, QueueOK
    <2> HIDE DEF n
    <2>2. Base(n) = Base(q)
      BY <2>1 DEF Base
    <2>3. q.first \in DeviceIds /\ q.dropped \in Nat /\ q.nextSeq \in Int /\ q.dropped # 0 /\ LossOK(q, u, l)
      BY <1>2 DEF QueueOK
    <2>3a. /\ q.first # NoDevice /\ q.lostFrom = 1 + LastOf(q.ring, u) /\ q.lostFrom <= Len(l)
           /\ q.dropped \in 1 .. Len(l) - q.lostFrom + 1
      BY <2>3, QueueBounds DEF LossOK
    <2>3b. Tells("Overflow", q.lostFrom, Len(l), q.dropped, l)
      BY <2>3a DEF Tells
    <2>4. l \in Seq(Events) /\ RingOK(q.ring, u, Base(q), l)
      BY DEF QueueOK
    <2>5. Materialize(q, Len(l)) = PushRecord(n, q.first, "Overflow", q.lostFrom, Len(l), q.dropped)
      BY <1>2 DEF Materialize, n
    <2>6. Room(n, u, l)
      BY <1>2, <2>1, <2>2, <2>3, <2>4 DEF Room
    <2>7. ComesNext(n, u, l, q.first, "Overflow", q.lostFrom, Len(l), q.dropped)
      <3>1. "Overflow" \in Kinds /\ LastOf(n.ring, u) = LastOf(q.ring, u)
        BY <2>1 DEF Kinds
      <3> QED BY <2>3, <2>3a, <2>3b, <3>1, ZenonT(30) DEF ComesNext
    <2> DEFINE m == PushRecord(n, q.first, "Overflow", q.lostFrom, Len(l), q.dropped)
    <2>8. QueueOK(m, u, l) /\ Base(m) = Base(n) /\ m.gens = n.gens /\ m.dropped = 0
      BY <2>6, <2>7, PushRecordOK
    <2> QED BY <2>1, <2>2, <2>5, <2>8, ZenonT(30)
  <1> QED BY <1>1, <1>2, ZenonT(30)

(* A loss of one more event, reported once there is room *)
LEMMA LoseOK ==
  ASSUME NEW q, NEW u, NEW l, QueueOK(q, u, l), NEW e \in Events, NEW id \in DeviceIds, id # NoDevice
  PROVE  /\ QueueOK(Lose(q, 1, id, Len(l) + 1), u, Append(l, e))
         /\ Base(Lose(q, 1, id, Len(l) + 1)) = Base(q) /\ Lose(q, 1, id, Len(l) + 1).gens = q.gens
  <1> DEFINE m == Lose(q, 1, id, Len(l) + 1)
  <1>1. /\ DOMAIN m = QueueFields /\ m.ring = q.ring /\ m.nextSeq = q.nextSeq /\ m.gens = q.gens
        /\ m.dropped = q.dropped + 1 /\ m.first = (IF q.first = NoDevice THEN id ELSE q.first)
        /\ m.lostFrom = (IF q.lostFrom = 0 THEN Len(l) + 1 ELSE Lesser(q.lostFrom, Len(l) + 1))
    BY ZenonT(30) DEF Lose, QueueFields, QueueOK
  <1> HIDE DEF m
  <1>2. Base(m) = Base(q)
    BY <1>1 DEF Base
  <1>3. m.lostFrom = LastOf(q.ring, u) + 1
    <2>1. CASE q.dropped = 0
      BY <1>1, <2>1, QueueBounds
    <2>2. CASE q.dropped # 0
      <3>1. q.lostFrom = LastOf(q.ring, u) + 1 /\ q.lostFrom # 0 /\ q.lostFrom <= Len(l) + 1 /\ Len(l) + 1 \in Int /\ q.lostFrom \in Int
        BY <2>2, QueueBounds
      <3> QED BY <1>1, <3>1 DEF Lesser
    <2> QED BY <2>1, <2>2
  <1>4. /\ RingOK(q.ring, u, Base(q), Append(l, e)) /\ Append(l, e) \in Seq(Events)
        /\ Len(Append(l, e)) = Len(l) + 1
    BY RingLogGrows
  <1>5. q.dropped \in Nat /\ q.first \in DeviceIds /\ q.nextSeq \in Int /\ Len(q.ring) <= QueueDepth /\ LossOK(q, u, l)
    BY ZenonT(30) DEF QueueOK
  <1>6. LossOK(m, u, Append(l, e))
    BY <1>1, <1>3, <1>4, <1>5, QueueBounds DEF LossOK
  <1>7. m.dropped \in Nat /\ m.first \in DeviceIds /\ m.lostFrom \in Nat
    BY <1>1, <1>3, <1>5, QueueBounds
  <1>8. QueueOK(m, u, Append(l, e))
    BY <1>1, <1>2, <1>4, <1>5, <1>6, <1>7 DEF QueueOK
  <1> QED BY <1>1, <1>2, <1>8 DEF m

(* push: merged, appended, or lost when the ring is full *)
LEMMA PushOK ==
  ASSUME NEW q, NEW u, NEW l, QueueOK(q, u, l), NEW kind \in {"Key", "RelMotion"},
         NEW id \in DeviceIds, id # NoDevice
  PROVE  /\ QueueOK(Push(q, id, kind, Len(l) + 1), u, Append(l, kind))
         /\ Base(Push(q, id, kind, Len(l) + 1)) = Base(q)
         /\ Push(q, id, kind, Len(l) + 1).gens = q.gens
  <1> DEFINE m == Materialize(q, Len(l))
             k == Append(l, kind)
             p == Push(q, id, kind, Len(l) + 1)
  <1>1. /\ QueueOK(m, u, l) /\ Base(m) = Base(q) /\ m.gens = q.gens
        /\ m.dropped = 0 \/ ~(Len(m.ring) < QueueDepth)
    BY MaterializeOK
  <1>2. Len(l) + 1 - 1 = Len(l) /\ Len(l) \in Nat
    BY QueueBounds
  <1>3. p = IF Coalesces(m, id, kind) THEN [m EXCEPT !.ring[Len(m.ring)].to = Len(l) + 1]
            ELSE IF Len(m.ring) < QueueDepth THEN PushRecord(m, id, kind, Len(l) + 1, Len(l) + 1, 0)
            ELSE Lose(m, 1, id, Len(l) + 1)
    BY <1>2 DEF Push
  <1>4. kind \in Events /\ kind \in Kinds /\ kind # "Overflow"
    BY DEF Events, Kinds
  <1> HIDE DEF m, p, k
  <1>5. RingOK(m.ring, u, Base(m), k) /\ k \in Seq(Events) /\ Len(k) = Len(l) + 1 /\ k[Len(l) + 1] = kind
    BY <1>1, <1>4, RingLogGrows, ZenonT(30) DEF k
  <1>6. /\ DOMAIN m = QueueFields /\ m.nextSeq \in Int /\ m.dropped \in Nat /\ m.first \in DeviceIds
        /\ m.lostFrom \in Nat /\ LossOK(m, u, l) /\ Len(m.ring) <= QueueDepth
    BY <1>1 DEF QueueOK
  <1>7. CASE Coalesces(m, id, kind)
    <2>1. p = [m EXCEPT !.ring[Len(m.ring)].to = Len(l) + 1]
      BY <1>3, <1>7, ZenonT(30)
    <2> DEFINE y == [m.ring EXCEPT ![Len(m.ring)].to = Len(l) + 1]
    <2>2. /\ DOMAIN p = QueueFields /\ p.ring = y /\ p.nextSeq = m.nextSeq /\ p.dropped = m.dropped
          /\ p.first = m.first /\ p.lostFrom = m.lostFrom /\ p.gens = m.gens
      BY <2>1, <1>6 DEF QueueFields
    <2>3. kind = "RelMotion" /\ m.dropped = 0 /\ Len(m.ring) >= HighWater /\ m.ring[Len(m.ring)].kind = "RelMotion"
      BY <1>7, ZenonT(30) DEF Coalesces
    <2>4. m.ring # << >> /\ Len(l) + 1 = 1 + LastOf(m.ring, u) /\ m.first = NoDevice /\ m.lostFrom = 0
      <3>1. m.ring # << >>
        BY <2>3, InputAssumption
      <3>2. Len(l) + 1 = 1 + LastOf(m.ring, u) /\ m.first = NoDevice /\ m.lostFrom = 0
        BY <2>3, <1>2, <1>6 DEF LossOK
      <3> QED BY <3>1, <3>2
    <2>5. RingOK(y, u, Base(m), k) /\ LastOf(y, u) = Len(l) + 1 /\ Len(y) = Len(m.ring)
      <3>1. k[Len(l) + 1] = "RelMotion" /\ RingOK(m.ring, u, Base(m), k)
        BY <2>3, <1>5, ZenonT(30)
      <3> QED BY <3>1, <2>3, <2>4, RingMerge
    <2> HIDE DEF y
    <2>6. Base(p) = Base(m) /\ LossOK(p, u, k) /\ Len(p.ring) <= QueueDepth
      BY <2>2, <2>3, <2>4, <2>5, <1>5, <1>6 DEF Base, LossOK
    <2>7. QueueOK(p, u, k)
      BY <2>2, <2>5, <2>6, <1>5, <1>6, ZenonT(30) DEF QueueOK
    <2> QED BY <2>2, <2>6, <2>7, <1>1, ZenonT(30) DEF k, p
  <1>8. CASE ~Coalesces(m, id, kind) /\ Len(m.ring) < QueueDepth
    <2>1. p = PushRecord(m, id, kind, Len(l) + 1, Len(l) + 1, 0)
      BY <1>3, <1>8, ZenonT(30)
    <2>2. m.dropped = 0 /\ Len(l) + 1 = 1 + LastOf(m.ring, u) /\ m.first = NoDevice /\ m.lostFrom = 0
      BY <1>1, <1>2, <1>6, <1>8 DEF LossOK
    <2>3. Room(m, u, k)
      BY <2>2, <1>5, <1>6, <1>8, ZenonT(30) DEF Room
    <2>4. Tells(kind, Len(l) + 1, Len(l) + 1, 0, k)
      BY <1>2, <1>4, <1>5 DEF Tells
    <2>5. ComesNext(m, u, k, id, kind, Len(l) + 1, Len(l) + 1, 0)
      BY <2>2, <2>4, <1>2, <1>4, <1>5 DEF ComesNext
    <2>6. QueueOK(p, u, k) /\ Base(p) = Base(m) /\ p.gens = m.gens
      BY <2>1, <2>3, <2>5, PushRecordOK
    <2> QED BY <2>6, <1>1, ZenonT(30) DEF k, p
  <1>9. CASE ~Coalesces(m, id, kind) /\ ~(Len(m.ring) < QueueDepth)
    <2>1. p = Lose(m, 1, id, Len(l) + 1)
      BY <1>3, <1>9, ZenonT(30)
    <2>2. QueueOK(p, u, k) /\ Base(p) = Base(m) /\ p.gens = m.gens
      BY <2>1, <1>1, <1>4, LoseOK, ZenonT(30) DEF k
    <2> QED BY <2>2, <1>1, ZenonT(30) DEF k, p
  <1> QED BY <1>7, <1>8, <1>9

(* clear_into_loss: what was unread is lost, from the first unread event on. *)
LEMMA ClearOK ==
  ASSUME NEW q, NEW u, NEW l, QueueOK(q, u, l)
  PROVE  QueueOK(ClearIntoLoss(q), u, l) /\ ClearIntoLoss(q).gens = q.gens
  <1>1. CASE q.ring = << >>
    BY <1>1 DEF ClearIntoLoss
  <1>2. CASE q.ring # << >>
    <2> DEFINE r == q.ring
               m == ClearIntoLoss(q)
    <2>1. /\ DOMAIN m = QueueFields /\ m.ring = << >> /\ m.nextSeq = q.nextSeq /\ m.gens = q.gens
          /\ m.dropped = q.dropped + Len(r) /\ m.first = (IF q.first = NoDevice THEN r[1].device ELSE q.first)
          /\ m.lostFrom = (IF q.lostFrom = 0 THEN r[1].from ELSE Lesser(q.lostFrom, r[1].from))
      BY <1>2 DEF ClearIntoLoss, Lose, QueueFields, QueueOK
    <2> HIDE DEF m
    <2>2. RingOK(r, u, Base(q), l) /\ u \in Nat /\ l \in Seq(Events)
      BY DEF QueueOK, RingOK
    <2>3. Len(r) \in Nat \ {0}
      BY <1>2, <2>2 DEF RingOK
    <2>4. 1 \in 1 .. Len(r)
      BY <2>3
    <2>5. r[1].from = 1 + u /\ r[1].device # NoDevice /\ r[1].device \in DeviceIds
      <3>1. r[1] \in RawRecords /\ Contiguous(r, u) /\ Numbered(r, Base(q), l)
        BY <2>2, <2>4, RingBounds DEF RingOK
      <3>2. r[1].from = 1 + u
        BY <2>4, <3>1 DEF Contiguous
      <3>3. r[1].device # NoDevice
        BY <2>4, <3>1, ZenonT(30) DEF Numbered
      <3> QED BY <3>1, <3>2, <3>3 DEF RawRecords
    <2>6. m.lostFrom = u + 1
      <3>1. CASE q.dropped = 0
        BY <3>1, <2>1, <2>5, <2>2, QueueBounds
      <3>2. CASE q.dropped # 0
        <4>1. q.lostFrom # 0 /\ q.lostFrom \in Int /\ 1 + u \in Int /\ 1 + u <= q.lostFrom
          BY <3>2, <2>2, QueueBounds
        <4>2. Lesser(q.lostFrom, 1 + u) = 1 + u
          BY <4>1 DEF Lesser
        <4> QED BY <4>1, <4>2, <2>1, <2>5, <2>2
      <3> QED BY <3>1, <3>2, ZenonT(30)
    <2>7. q.dropped \in Nat /\ q.first \in DeviceIds /\ q.nextSeq \in Int /\ LossOK(q, u, l)
      BY DEF QueueOK
    <2>8. LastOf(m.ring, u) = u /\ Len(m.ring) = 0
      BY <2>1, ZenonT(30) DEF LastOf
    <2>9. LossOK(m, u, l)
      BY <2>1, <2>3, <2>5, <2>6, <2>7, <2>8, QueueBounds DEF LossOK
    <2>10. RingOK(m.ring, u, Base(m), l)
      <3>1. m.ring \in Seq(RawRecords) /\ Base(m) \in Int /\ u \in Nat
        BY <2>1, <2>2, <2>7, <2>8 DEF Base
      <3> QED BY <2>1, <3>1, EmptyRing, ZenonT(30)
    <2>11. QueueOK(m, u, l)
      <3>1. m.dropped \in Nat /\ m.lostFrom \in Nat /\ Len(m.ring) <= QueueDepth
        BY <2>1, <2>2, <2>3, <2>6, <2>7, <2>8, InputAssumption
      <3>2. m.first \in DeviceIds
        BY <2>1, <2>5, <2>7, ZenonT(30)
      <3> QED BY <2>1, <2>2, <2>7, <2>9, <2>10, <3>1, <3>2, ZenonT(30) DEF QueueOK
    <2> QED BY <2>1, <2>11 DEF m
  <1> QED BY <1>1, <1>2

(* What is unread is the ring and, after it, the pending loss. *)
LEMMA UnreadOK ==
  ASSUME QueueOK(input, seen.upto, log)
  PROVE  /\ RingOK(Unread(input), seen.upto, Base(input), log)
         /\ LastOf(Unread(input), seen.upto) = Len(log)
         /\ input.dropped = 0 => Unread(input) = input.ring
         /\ input.dropped # 0 => /\ Len(Unread(input)) = Len(input.ring) + 1
                                /\ Unread(input)[Len(input.ring) + 1].to = Len(log)
                                /\ Unread(input)[Len(input.ring) + 1].seq = input.nextSeq
                                /\ \A i \in 1 .. Len(input.ring) : Unread(input)[i] = input.ring[i]
  <1> DEFINE r == input.ring
             u == seen.upto
             x == [seq |-> input.nextSeq, device |-> input.first, kind |-> "Overflow",
                   from |-> input.lostFrom, to |-> Len(log), dropped |-> input.dropped]
  <1>1. /\ RingOK(r, u, Base(input), log) /\ LossOK(input, u, log) /\ input.nextSeq \in Int
        /\ input.dropped \in Nat /\ input.first \in DeviceIds /\ DOMAIN input = QueueFields
    BY DEF QueueOK
  <1>2. CASE input.dropped = 0
    BY <1>1, <1>2 DEF Unread, LossOK
  <1>3. CASE input.dropped # 0
    <2>1. Unread(input) = Append(r, x)
      BY <1>1, <1>3 DEF Unread, PushRecord, QueueFields
    <2>2. /\ Len(r) \in Nat /\ Len(log) \in Nat /\ input.lostFrom = 1 + LastOf(r, u) /\ input.lostFrom \in Int
          /\ input.first # NoDevice /\ input.lostFrom <= Len(log) /\ input.dropped \in 1 .. Len(log) - input.lostFrom + 1
      BY <1>1, <1>3, QueueBounds DEF LossOK
    <2>3. x \in RawRecords
      BY <1>1, <2>2 DEF RawRecords, Kinds
    <2>4. Says(x, log)
      BY <2>2 DEF Says, Tells
    <2>5. x.from = 1 + LastOf(r, u) /\ x.from <= x.to /\ x.device # NoDevice /\ x.seq = Base(input) + Len(r) + 1
      BY <1>1, <2>2 DEF Base
    <2>5a. x.to = Len(log) /\ x.seq = input.nextSeq
      OBVIOUS
    <2> HIDE DEF x
    <2>6. /\ RingOK(Append(r, x), u, Base(input), log) /\ LastOf(Append(r, x), u) = x.to
          /\ Len(Append(r, x)) = Len(r) + 1
      BY <1>1, <2>3, <2>4, <2>5, RingAppend
    <2>7. r \in Seq(RawRecords)
      BY <1>1 DEF RingOK
    <2>8. Append(r, x)[Len(r) + 1] = x /\ \A i \in 1 .. Len(r) : Append(r, x)[i] = r[i]
      BY <2>2, <2>3, <2>7
    <2> QED BY <1>3, <2>1, <2>5a, <2>6, <2>8, ZenonT(30)
  <1> QED BY <1>2, <1>3, ZenonT(30)

(* What the invariant says of the unread records is what a reader relies on. *)
LEMMA InputInvImplies == InputInv => LossesInOrder
  <1> SUFFICES ASSUME InputInv PROVE LossesInOrder
    OBVIOUS
  <1> DEFINE v == Unread(input)
             u == seen.upto
  <1>1. /\ QueueOK(input, u, log) /\ seen.seq \in Int /\ (seen.seq # 0 => seen.seq = Base(input))
        /\ Len(input.ring) <= QueueDepth
    BY ZenonT(30) DEF InputInv, QueueOK
  <1>2. RingOK(v, u, Base(input), log) /\ LastOf(v, u) = Len(log)
    BY <1>1, UnreadOK, ZenonT(30)
  <1> HIDE DEF v
  <1>3. /\ Len(v) \in Nat /\ Contiguous(v, u) /\ Numbered(v, Base(input), log) /\ Base(input) \in Int
        /\ (v = << >> <=> Len(v) = 0)
    BY <1>2 DEF RingOK
  <1>4. ASSUME NEW i \in 1 .. Len(v)
        PROVE  /\ v[i].from = 1 + (IF i = 1 THEN seen.upto ELSE v[i - 1].to)
               /\ IF v[i].kind = "Overflow"
                    THEN v[i].device # NoDevice /\ v[i].dropped \in 1 .. v[i].to - v[i].from + 1
                    ELSE /\ \A e \in v[i].from .. v[i].to : log[e] = v[i].kind
                         /\ v[i].kind = "Key" => v[i].from = v[i].to
               /\ i > 1 => v[i].seq = v[i - 1].seq + 1
    <2>1. v[i].from = 1 + (IF i = 1 THEN seen.upto ELSE v[i - 1].to)
      BY <1>3, ZenonT(30) DEF Contiguous
    <2>2. v[i].device # NoDevice /\ v[i].seq = Base(input) + i /\ Says(v[i], log)
      BY <1>3, ZenonT(30) DEF Numbered
    <2>3. ASSUME i > 1 PROVE v[i].seq = v[i - 1].seq + 1
      <3>1. i - 1 \in 1 .. Len(v)
        BY <1>3, <2>3
      <3>2. v[i - 1].seq = Base(input) + (i - 1)
        BY <1>3, <3>1, ZenonT(30) DEF Numbered
      <3> QED BY <2>2, <3>2, <1>3
    <2> QED BY <2>1, <2>2, <2>3, ZenonT(30) DEF Says, Tells
  <1>5. (IF v = << >> THEN seen.upto ELSE v[Len(v)].to) = Len(log)
    BY <1>2 DEF LastOf
  <1>6. ASSUME v # << >> /\ seen.seq # 0 PROVE v[1].seq = seen.seq + 1
    <2>1. 1 \in 1 .. Len(v)
      BY <1>3, <1>6
    <2>2. v[1].seq = Base(input) + 1
      BY <1>3, <2>1, ZenonT(30) DEF Numbered
    <2> QED BY <1>1, <1>6, <2>2, ZenonT(30)
  <1> QED BY <1>1, <1>4, <1>5, <1>6, ZenonT(30) DEF LossesInOrder, v

(* The state the queue is in after k records were read *)
LEMMA PopsOK ==
  ASSUME QueueOK(input, seen.upto, log), NEW k \in 1 .. Len(Unread(input))
  PROVE  /\ QueueOK(AfterPops(input, k), Unread(input)[k].to, log)
         /\ Base(AfterPops(input, k)) = Unread(input)[k].seq
         /\ AfterPops(input, k).gens = input.gens
         /\ Unread(input)[k].to \in Nat /\ Unread(input)[k].seq \in Int
  <1> DEFINE r == input.ring
             u == seen.upto
             v == Unread(input)
             m == AfterPops(input, k)
  <1> HIDE DEF v, m
  <1>1. /\ RingOK(r, u, Base(input), log) /\ LossOK(input, u, log) /\ input.nextSeq \in Int
        /\ input.dropped \in Nat /\ input.first \in DeviceIds /\ DOMAIN input = QueueFields
        /\ input.lostFrom \in Nat /\ Len(r) <= QueueDepth /\ log \in Seq(Events)
    BY DEF QueueOK
  <1>2. /\ RingOK(v, u, Base(input), log) /\ LastOf(v, u) = Len(log)
        /\ input.dropped = 0 => v = r
        /\ input.dropped # 0 => /\ Len(v) = Len(r) + 1 /\ v[Len(r) + 1].to = Len(log)
                               /\ v[Len(r) + 1].seq = input.nextSeq
                               /\ \A i \in 1 .. Len(r) : v[i] = r[i]
    BY UnreadOK, ZenonT(30) DEF v
  <1>3. Len(r) \in Nat /\ Len(log) \in Nat /\ u \in Nat /\ Base(input) \in Int /\ k \in Nat \ {0}
        /\ k \in 1 .. Len(v) /\ QueueDepth \in Nat
    <2>1. k \in 1 .. Len(v)
      BY ZenonT(30) DEF v
    <2>2. Len(r) \in Nat /\ u \in Nat /\ Base(input) \in Int /\ Len(v) \in Nat
      BY <1>1, <1>2, RingBounds, ZenonT(30) DEF RingOK
    <2>3. Len(log) \in Nat /\ QueueDepth \in Nat
      BY <1>1, InputAssumption
    <2> QED BY <2>1, <2>2, <2>3
  <1>4. v[k].to \in Nat /\ v[k].seq \in Int
    <2>1. v[k] \in RawRecords /\ v[k].from \in Int /\ v[k].to \in Int /\ u < v[k].from /\ v[k].from <= v[k].to
      BY <1>2, <1>3, RingBounds, ZenonT(30)
    <2>2. v[k].seq \in Int
      BY <2>1, ZenonT(30) DEF RawRecords
    <2> QED BY <2>1, <2>2, <1>3
  <1>5. CASE k <= Len(r)
    <2>1. k \in 1 .. Len(r) /\ v[k] = r[k]
      BY <1>1, <1>2, <1>3, <1>5
    <2>2. m = [input EXCEPT !.ring = SubSeq(r, k + 1, Len(r))]
      BY <1>5 DEF AfterPops, m
    <2> DEFINE y == SubSeq(r, k + 1, Len(r))
    <2>3. /\ DOMAIN m = QueueFields /\ m.ring = y /\ m.nextSeq = input.nextSeq /\ m.dropped = input.dropped
          /\ m.first = input.first /\ m.lostFrom = input.lostFrom /\ m.gens = input.gens
      BY <2>2, <1>1, ZenonT(30) DEF QueueFields
    <2>4. /\ RingOK(y, r[k].to, Base(input) + k, log) /\ LastOf(y, r[k].to) = LastOf(r, u)
          /\ Len(y) = Len(r) - k
      BY <1>1, <2>1, RingPop
    <2> HIDE DEF y
    <2>5. Base(m) = Base(input) + k /\ Len(m.ring) <= QueueDepth
      <3>1. Len(m.ring) = Len(r) - k /\ m.nextSeq = input.nextSeq
        BY <2>3, <2>4
      <3>2. /\ Len(r) \in Nat /\ Len(r) <= QueueDepth /\ k \in Int /\ QueueDepth \in Nat
            /\ input.nextSeq \in Int
        BY <1>1, <1>3
      <3> QED BY <3>1, <3>2 DEF Base
    <2>6. v[k].seq = Base(input) + k
      BY <1>2, <1>3, ZenonT(30) DEF RingOK, Numbered
    <2>7. LossOK(m, v[k].to, log)
      BY <1>1, <2>1, <2>3, <2>4 DEF LossOK
    <2>8. QueueOK(m, v[k].to, log)
      BY <1>1, <2>1, <2>3, <2>4, <2>5, <2>7, ZenonT(30) DEF QueueOK
    <2> QED BY <1>4, <2>3, <2>5, <2>6, <2>8, ZenonT(30) DEF m, v
  <1>6. CASE ~(k <= Len(r))
    <2>1. input.dropped # 0 /\ k = Len(r) + 1
      BY <1>2, <1>3, <1>6
    <2>2. v[k].to = Len(log) /\ v[k].seq = input.nextSeq
      BY <1>2, <2>1, ZenonT(30)
    <2>3. /\ DOMAIN m = QueueFields /\ m.ring = << >> /\ m.nextSeq = input.nextSeq + 1 /\ m.dropped = 0
          /\ m.first = NoDevice /\ m.lostFrom = 0 /\ m.gens = input.gens
      BY <1>1, <1>6 DEF AfterPops, NoLoss, QueueFields, m
    <2>4. Base(m) = input.nextSeq /\ Len(m.ring) <= QueueDepth /\ LastOf(m.ring, v[k].to) = Len(log)
      <3>1. Len(m.ring) = 0 /\ LastOf(m.ring, v[k].to) = v[k].to
        <4>1. Len(<< >>) = 0 /\ LastOf(<< >>, v[k].to) = v[k].to
          BY <1>3, <1>4, EmptyRing, ZenonT(30)
        <4> QED BY <2>3, <4>1, ZenonT(30)
      <3>2. input.nextSeq \in Int /\ m.nextSeq = input.nextSeq + 1
        BY <1>1, <2>3, ZenonT(30)
      <3>3. Base(m) = input.nextSeq
        BY <3>1, <3>2 DEF Base
      <3> QED BY <1>3, <2>2, <3>1, <3>3
    <2>5. RingOK(m.ring, v[k].to, Base(m), log) /\ 0 \in Nat
      BY <1>1, <1>4, <2>3, <2>4, EmptyRing, ZenonT(30)
    <2>6. NoDevice \in DeviceIds
      BY ZenonT(30) DEF NoDevice, DeviceIds
    <2>7. QueueOK(m, v[k].to, log)
      <3>1. LossOK(m, v[k].to, log)
        BY <2>3, <2>4, ZenonT(30) DEF LossOK
      <3>2. m.nextSeq \in Int
        BY <1>1, <2>3
      <3> QED BY <1>1, <2>3, <2>4, <2>5, <2>6, <3>1, <3>2, ZenonT(30) DEF QueueOK
    <2> QED BY <1>4, <2>2, <2>3, <2>4, <2>7, ZenonT(30) DEF m, v
  <1> QED BY <1>5, <1>6

(* The invariant only reads these parts of the queue. *)
LEMMA QueueOnly ==
  ASSUME NEW q, NEW m, NEW u, NEW l, QueueOK(q, u, l), DOMAIN m = DOMAIN q, m.ring = q.ring,
         m.nextSeq = q.nextSeq, m.dropped = q.dropped, m.first = q.first, m.lostFrom = q.lostFrom
  PROVE  QueueOK(m, u, l) /\ Base(m) = Base(q)
  <1>1. Base(m) = Base(q)
    BY ZenonT(30) DEF Base
  <1>2. LossOK(m, u, l)
    BY ZenonT(30) DEF QueueOK, LossOK
  <1> QED BY <1>1, <1>2 DEF QueueOK

(* A device that reports is one: its identifier is not the null one. *)
LEMMA DeviceIdOK ==
  ASSUME InputInv, NEW d \in Devices
  PROVE  DeviceId(input, d) \in DeviceIds /\ DeviceId(input, d) # NoDevice
  BY DEF InputInv, DeviceId, DeviceIds, NoDevice, Devices, Keyboard, Mouse

(* The interrupt handlers keep the invariant. *)
LEMMA DeviceStepInv ==
  ASSUME InputInv, NEW d \in Devices,
         InputRecord(d) \/ InputLoss(d) \/ DeviceLost(d) \/ DeviceReady(d)
  PROVE  InputInv'
  <1> DEFINE id == DeviceId(input, d)
             u == seen.upto
  <1>1. /\ QueueOK(input, u, log) /\ input.gens \in [Devices -> Nat] /\ seen \in [upto : Nat, seq : Int]
        /\ (seen.seq # 0 => seen.seq = Base(input)) /\ DOMAIN input = QueueFields /\ log \in Seq(Events)
    BY DEF InputInv, QueueOK
  <1>2. id \in DeviceIds /\ id # NoDevice
    BY DeviceIdOK
  <1> HIDE DEF id
  <1>3. ASSUME NEW m, NEW l, QueueOK(m, u, l), Base(m) = Base(input), m.gens \in [Devices -> Nat],
               input' = m, log' = l, seen' = seen
        PROVE  InputInv'
    BY <1>1, <1>3, ZenonT(30) DEF InputInv
  <1>4. ASSUME NEW e \in Events, log' = Append(log, e) PROVE Len(log') = Len(log) + 1
    BY <1>1, <1>4
  <1>5. CASE InputRecord(d)
    <2>1. KindOf(d) \in {"Key", "RelMotion"} /\ KindOf(d) \in Events
      BY DEF KindOf, Events
    <2>2. log' = Append(log, KindOf(d)) /\ seen' = seen
      BY <1>5 DEF InputRecord, Produces
    <2>3. input' = Push(input, id, KindOf(d), Len(log) + 1)
      <3>1. Len(log') = Len(log) + 1
        BY <1>4, <2>1, <2>2, ZenonT(30)
      <3> QED BY <1>5, <3>1, ZenonT(30) DEF InputRecord, id
    <2>4. /\ QueueOK(input', u, log') /\ Base(input') = Base(input) /\ input'.gens = input.gens
      <3> DEFINE p == Push(input, id, KindOf(d), Len(log) + 1)
      <3>1. QueueOK(p, u, Append(log, KindOf(d))) /\ Base(p) = Base(input) /\ p.gens = input.gens
        <4>1. QueueOK(input, u, log) /\ KindOf(d) \in {"Key", "RelMotion"}
          BY <1>1, <2>1, ZenonT(30)
        <4> HIDE DEF u
        <4> QED BY <1>2, <4>1, PushOK, ZenonT(30)
      <3> QED BY <2>2, <2>3, <3>1, ZenonT(30)
    <2> QED BY <1>1, <1>3, <2>2, <2>4, ZenonT(30)
  <1>6. "Loss" \in Events
    BY DEF Events
  <1> DEFINE k == Lose(input, 1, id, Len(log) + 1)
  <1>7. /\ QueueOK(k, u, Append(log, "Loss")) /\ Base(k) = Base(input) /\ k.gens = input.gens
        /\ DOMAIN k = QueueFields
    <2>1. QueueOK(k, u, Append(log, "Loss")) /\ Base(k) = Base(input) /\ k.gens = input.gens
      BY <1>1, <1>2, <1>6, LoseOK
    <2> QED BY <2>1, ZenonT(30) DEF QueueOK
  <1> HIDE DEF k
  <1>8. CASE InputLoss(d)
    <2>1. log' = Append(log, "Loss") /\ seen' = seen
      BY <1>8 DEF InputLoss, Produces
    <2>2. input' = k
      BY <1>4, <1>6, <1>8, <2>1, ZenonT(30) DEF InputLoss, id, k
    <2> QED BY <1>1, <1>3, <1>7, <2>1, <2>2, ZenonT(30)
  <1>9. ASSUME NEW q, DOMAIN q = QueueFields, q.gens \in [Devices -> Nat], NEW present
        PROVE  LET m == Publish(q, d, present)
               IN  /\ DOMAIN m = DOMAIN q /\ m.ring = q.ring /\ m.nextSeq = q.nextSeq /\ m.dropped = q.dropped
                   /\ m.first = q.first /\ m.lostFrom = q.lostFrom /\ m.gens \in [Devices -> Nat]
    <2>1. NextGeneration(q.gens[d]) \in Nat /\ q.gens[d] \in Nat
      BY <1>9, InputAssumption DEF NextGeneration
    <2> QED BY <1>9, <2>1, ZenonT(30) DEF Publish, QueueFields
  <1>10. CASE DeviceLost(d)
    <2>1. log' = Append(log, "Loss") /\ seen' = seen
      BY <1>10 DEF DeviceLost, Produces
    <2>2. input' = Publish(k, d, FALSE)
      BY <1>4, <1>6, <1>10, <2>1, ZenonT(30) DEF DeviceLost, id, k
    <2>3. /\ DOMAIN input' = DOMAIN k /\ input'.ring = k.ring /\ input'.nextSeq = k.nextSeq
          /\ input'.dropped = k.dropped /\ input'.first = k.first /\ input'.lostFrom = k.lostFrom
          /\ input'.gens \in [Devices -> Nat]
      BY <1>1, <1>7, <1>9, <2>2, ZenonT(30)
    <2>4. QueueOK(input', u, log') /\ Base(input') = Base(k)
      BY <1>7, <2>1, <2>3, QueueOnly, ZenonT(30)
    <2> QED BY <1>3, <1>7, <2>1, <2>3, <2>4, ZenonT(30)
  <1>11. CASE DeviceReady(d)
    <2>1. log' = log /\ seen' = seen /\ input' = Publish(input, d, TRUE)
      BY <1>11 DEF DeviceReady
    <2>2. /\ DOMAIN input' = DOMAIN input /\ input'.ring = input.ring /\ input'.nextSeq = input.nextSeq
          /\ input'.dropped = input.dropped /\ input'.first = input.first /\ input'.lostFrom = input.lostFrom
          /\ input'.gens \in [Devices -> Nat]
      BY <1>1, <1>9, <2>1, ZenonT(30)
    <2>3. QueueOK(input', u, log') /\ Base(input') = Base(input)
      BY <1>1, <2>1, <2>2, QueueOnly, ZenonT(30)
    <2> QED BY <1>3, <2>1, <2>2, <2>3, ZenonT(30)
  <1> QED BY <1>5, <1>8, <1>10, <1>11, ZenonT(30)

(* READ_BATCH keeps the invariant: the reader has got everything up to its last record. *)
LEMMA ReadBatchInv ==
  ASSUME InputInv, NEW p, NEW n \in 1 .. QueueDepth, ReadBatch(p, n)
  PROVE  InputInv'
  <1> DEFINE v == Unread(input)
             k == Lesser(n, Len(v))
             m == AfterPops(input, k)
  <1>1. /\ QueueOK(input, seen.upto, log) /\ input.gens \in [Devices -> Nat] /\ seen \in [upto : Nat, seq : Int]
        /\ (seen.seq # 0 => seen.seq = Base(input)) /\ DOMAIN input = QueueFields /\ log \in Seq(Events)
    BY DEF InputInv, QueueOK
  <1>2. /\ input' = [m EXCEPT !.consumer = {p}]
        /\ seen' = (IF k = 0 THEN seen ELSE [upto |-> v[k].to, seq |-> v[k].seq])
        /\ log' = [e \in DOMAIN log |-> IF e <= seen'.upto THEN "Read" ELSE log[e]]
    BY ZenonT(30) DEF ReadBatch
  <1> HIDE DEF v, k, m
  <1>3. RingOK(v, seen.upto, Base(input), log) /\ (input.dropped = 0 => v = input.ring)
        /\ (input.dropped # 0 => Len(v) = Len(input.ring) + 1)
    BY <1>1, UnreadOK, ZenonT(30) DEF v
  <1>4. Len(v) \in Nat /\ n \in Nat /\ n >= 1 /\ k = (IF n <= Len(v) THEN n ELSE Len(v))
    <2>1. Len(v) \in Nat /\ n \in Nat /\ n >= 1
      BY <1>3, InputAssumption DEF RingOK
    <2> QED BY <2>1, ZenonT(30) DEF Lesser, k
  <1>5. /\ QueueOK(m, seen'.upto, log) /\ seen' \in [upto : Nat, seq : Int] /\ m.gens = input.gens
        /\ (seen'.seq # 0 => seen'.seq = Base(m))
    <2>1. CASE k # 0
      <3>1. k \in 1 .. Len(v)
        BY <1>4, <2>1
      <3>2. /\ QueueOK(m, v[k].to, log) /\ Base(m) = v[k].seq /\ m.gens = input.gens
            /\ v[k].to \in Nat /\ v[k].seq \in Int
        BY <1>1, <3>1, PopsOK, ZenonT(30) DEF v, m
      <3> QED BY <1>2, <2>1, <3>2
    <2>2. CASE k = 0
      <3>1. Len(v) = 0 /\ seen' = seen
        BY <1>2, <1>4, <2>2
      <3>2. input.dropped = 0 /\ Len(input.ring) = 0 /\ input.ring = << >>
        BY <1>1, <1>3, <3>1, QueueBounds DEF QueueOK, RingOK
      <3>3. SubSeq(input.ring, k + 1, Len(input.ring)) = << >>
        BY <2>2, <3>2
      <3>4. m = [input EXCEPT !.ring = << >>]
        BY <2>2, <3>2, <3>3 DEF AfterPops, m
      <3>5. /\ DOMAIN m = DOMAIN input /\ m.ring = input.ring /\ m.nextSeq = input.nextSeq
            /\ m.dropped = input.dropped /\ m.first = input.first /\ m.lostFrom = input.lostFrom
            /\ m.gens = input.gens
        BY <1>1, <3>2, <3>4 DEF QueueFields
      <3>6. QueueOK(m, seen.upto, log) /\ Base(m) = Base(input)
        BY <1>1, <3>5, QueueOnly, ZenonT(30)
      <3> QED BY <1>1, <3>1, <3>5, <3>6, ZenonT(30)
    <2> QED BY <2>1, <2>2
  <1>6. /\ DOMAIN input' = DOMAIN m /\ input'.ring = m.ring /\ input'.nextSeq = m.nextSeq
        /\ input'.dropped = m.dropped /\ input'.first = m.first /\ input'.lostFrom = m.lostFrom
        /\ input'.gens = m.gens
    BY <1>2, <1>5 DEF QueueOK, QueueFields
  <1>7. QueueOK(input', seen'.upto, log) /\ Base(input') = Base(m)
    BY <1>5, <1>6, QueueOnly, ZenonT(30)
  <1>8. log' \in Seq(Events) /\ Len(log') = Len(log) /\ \A e \in 1 .. Len(log) : e > seen'.upto => log'[e] = log[e]
    <2>1. log \in Seq(Events) /\ seen'.upto \in Nat /\ DOMAIN log = 1 .. Len(log) /\ Len(log) \in Nat
      BY <1>1, <1>5
    <2>2. /\ DOMAIN log' = 1 .. Len(log)
          /\ \A e \in 1 .. Len(log) : log'[e] = IF e <= seen'.upto THEN "Read" ELSE log[e]
          /\ log' = [e \in 1 .. Len(log) |-> log'[e]]
      BY <1>2, <2>1, ZenonT(30)
    <2>3. \A e \in 1 .. Len(log) : log'[e] \in Events
      BY <2>1, <2>2 DEF Events
    <2>4. log' \in Seq(Events) /\ Len(log') = Len(log)
      BY <2>1, <2>2, <2>3
    <2> QED BY <2>1, <2>2, <2>4
  <1>9. QueueOK(input', seen'.upto, log')
    <2>1. \A e \in seen'.upto + 1 .. LastOf(input'.ring, seen'.upto) : log'[e] = log[e]
      <3>1. /\ seen'.upto \in Nat /\ LastOf(input'.ring, seen'.upto) \in Int /\ Len(log) \in Nat
            /\ LastOf(input'.ring, seen'.upto) <= Len(log)
        BY <1>7, QueueBounds
      <3> QED BY <1>8, <3>1
    <2>2. RingOK(input'.ring, seen'.upto, Base(input'), log)
      BY <1>7 DEF QueueOK
    <2>3. RingOK(input'.ring, seen'.upto, Base(input'), log')
      BY <2>1, <2>2, RingLog, ZenonT(30)
    <2>4. LossOK(input', seen'.upto, log')
      BY <1>7, <1>8 DEF QueueOK, LossOK
    <2> QED BY <1>7, <1>8, <2>3, <2>4, ZenonT(30) DEF QueueOK
  <1> QED BY <1>1, <1>5, <1>6, <1>7, <1>9, ZenonT(30) DEF InputInv

(* The exit of the consumer, or of another process, keeps the invariant. *)
LEMMA ReleaseConsumerInv ==
  ASSUME InputInv, NEW p, ReleaseConsumer(p)
  PROVE  InputInv'
  <1>1. /\ QueueOK(input, seen.upto, log) /\ input.gens \in [Devices -> Nat] /\ seen \in [upto : Nat, seq : Int]
    BY DEF InputInv
  <1>2. CASE input.consumer # {p}
    BY <1>2, ZenonT(30) DEF ReleaseConsumer, InputInv
  <1>3. CASE input.consumer = {p}
    <2> DEFINE m == ClearIntoLoss(input)
    <2>1. QueueOK(m, seen.upto, log) /\ m.gens = input.gens
      BY <1>1, ClearOK
    <2>2. input' = [m EXCEPT !.consumer = {}] /\ seen' = [seen EXCEPT !.seq = 0] /\ log' = log
      BY <1>3 DEF ReleaseConsumer
    <2> HIDE DEF m
    <2>3. /\ DOMAIN input' = DOMAIN m /\ input'.ring = m.ring /\ input'.nextSeq = m.nextSeq
          /\ input'.dropped = m.dropped /\ input'.first = m.first /\ input'.lostFrom = m.lostFrom
          /\ input'.gens = m.gens
      BY <2>1, <2>2 DEF QueueOK, QueueFields
    <2>4. QueueOK(input', seen.upto, log)
      BY <2>1, <2>3, QueueOnly, ZenonT(30)
    <2>5. seen'.upto = seen.upto /\ seen'.seq = 0 /\ seen' \in [upto : Nat, seq : Int]
      BY <1>1, <2>2
    <2> QED BY <1>1, <2>1, <2>2, <2>3, <2>4, <2>5, ZenonT(30) DEF InputInv
  <1> QED BY <1>2, <1>3, ZenonT(30)

(* A queue that nothing has happened to satisfies the invariant. *)
LEMMA InputInitInv == InputInit => InputInv
  <1> SUFFICES ASSUME InputInit PROVE InputInv
    BY ZenonT(30)
  <1>1. /\ input.ring = << >> /\ input.nextSeq = 1 /\ input.dropped = 0 /\ input.first = NoDevice
        /\ input.lostFrom = 0 /\ input.gens \in [Devices -> Nat] /\ DOMAIN input = QueueFields
        /\ log = << >> /\ seen.upto = 0 /\ seen.seq = 0 /\ seen \in [upto : Nat, seq : Int]
    <2>1. seen = [upto |-> 0, seq |-> 0] /\ log = << >>
      BY DEF InputInit
    <2>2. seen.upto = 0 /\ seen.seq = 0 /\ seen \in [upto : Nat, seq : Int]
      BY <2>1
    <2> QED BY <2>1, <2>2, ZenonT(30) DEF InputInit, QueueFields
  <1>2. Base(input) = 0 /\ NoDevice \in DeviceIds /\ Len(input.ring) = 0 /\ Len(log) = 0 /\ log \in Seq(Events)
    <2>1. Len(input.ring) = 0 /\ Len(log) = 0 /\ log \in Seq(Events)
      <3>1. input.ring = << >> /\ log = << >>
        BY <1>1, ZenonT(30)
      <3> QED BY <3>1
    <2>2. NoDevice \in DeviceIds
      BY DEF NoDevice, DeviceIds
    <2>3. Base(input) = 0
      <3>1. input.nextSeq = 1 /\ Len(input.ring) = 0
        BY <1>1, <2>1, ZenonT(30)
      <3> QED BY <3>1 DEF Base
    <2> QED BY <2>1, <2>2, <2>3, ZenonT(30)
  <1>3. RingOK(input.ring, seen.upto, Base(input), log)
    BY <1>1, <1>2 DEF RingOK, Contiguous, Numbered, Spread
  <1>4. LossOK(input, seen.upto, log)
    BY <1>1, <1>2 DEF LossOK, LastOf
  <1> QED BY <1>1, <1>2, <1>3, <1>4, InputAssumption DEF InputInv, QueueOK

(* The devices and a reader, whoever may read, keep it. *)
LEMMA InputStepInv ==
  ASSUME InputInv, NEW readers, InputStep(readers)
  PROVE  InputInv'
  BY DeviceStepInv, ReadBatchInv, ZenonT(30) DEF InputStep
=============================================================================
