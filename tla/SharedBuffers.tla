---------------------------- MODULE SharedBuffers ----------------------------
(***************************************************************************)
(* Shared user buffers (kernel/src/mm/shared_buffer): a bounded table of    *)
(* buffers made of physical frames, named by capabilities and mapped into   *)
(* per-process windows through private page tables.  Buffers that the       *)
(* kernel owns are mapped without a capability and pinned for devices.      *)
(* Whoever revokes a capability reconciles the buffer with the capability   *)
(* table; frames released then wait in a queue until an operation that      *)
(* can borrow the frame allocator drains it.  Every operation runs with     *)
(* interrupts off, so each is one action.  Frames are counted, not named.   *)
(***************************************************************************)
EXTENDS CapabilityTable, FiniteSetsExt

CONSTANTS
  Pids,
  BufferSlots,     \* 0 .. MAX_SHARED_BUFFERS - 1
  MaxBufferGen,    \* u32::MAX: a slot at this generation is retired
  Sizes,           \* page counts that are asked for
  PagesPerTable,   \* PAGES_PER_TABLE
  MaxAttachments,  \* MAX_ATTACHMENTS_PER_BUFFER
  Rows,            \* rows of a window, MAX_SHARED_MAPPINGS_PER_PROCESS
  MaxOwnerBuffers, \* MAX_SHARED_BUFFERS_PER_OWNER
  MaxOwnerPages,   \* MAX_SHARED_PAGES_PER_OWNER
  TotalFrames,     \* frames the allocator has for shared buffers
  MaxPins          \* bound on the pins of a buffer

ASSUME BufferAssumption ==
  /\ BufferSlots \subseteq Nat /\ Rows \subseteq Nat
  /\ Sizes \subseteq Nat \ {0} /\ PagesPerTable \in Nat \ {0}
  /\ {MaxBufferGen, MaxAttachments, MaxOwnerBuffers, MaxOwnerPages, TotalFrames, MaxPins}
       \subseteq Nat
  /\ {"read", "write", "delegate", "revoke"} = Rights
  /\ RootOnly = Rights \ {"read"}

VARIABLES
  caps,     \* CAPABILITY_SPACE
  shared,   \* SharedBufferState: buffers, windows and frames waiting to be freed
  free,     \* number of frames the allocator holds
  pinned,   \* the PinTokens that exist
  procs     \* processes that have not exited

bufferVars == <<caps, shared, free, pinned, procs>>

Kernel == "kernel"            \* BufferOwner::Kernel
KernelGrant == NoHandle       \* MappingAuthority::KernelGrant
NoBuffer == [slot |-> -1, gen |-> 0]

(* BufferRecord::FREE with generation g, MappingRow::EMPTY, and no window *)
FreeRecord(g) ==
  [state |-> "Free", gen |-> g, owner |-> Kernel, pages |-> 0, root |-> NoHandle,
   attachments |-> {}, pins |-> 0]
EmptyRow ==
  [state |-> "Empty", buffer |-> NoBuffer, access |-> "Read", authority |-> KernelGrant,
   tables |-> 0]
NoWindow == [directory |-> 0, rows |-> [r \in Rows |-> EmptyRow]]

-----------------------------------------------------------------------------
(* SharedBufferTable::live and ::holds *)
IsLive(m, id) ==
  id.slot \in BufferSlots /\ m.buffers[id.slot].state = "Live" /\ m.buffers[id.slot].gen = id.gen
Holds(m, id) ==
  id.slot \in BufferSlots /\ m.buffers[id.slot].state # "Free" /\ m.buffers[id.slot].gen = id.gen

IdAt(m, b) == [slot |-> b, gen |-> m.buffers[b].gen]
RowOf(m, a) == m.windows[a.pid].rows[a.row]

CapabilityLive(t, h) == Resolves(t, h) /\ t[h.slot].state = "Live"

(* reclaim_if_eligible: the only transition that gives up a buffer's frames *)
ReclaimIfEligible(m, b) ==
  LET r == m.buffers[b]
  IN  IF r.state = "Dying" /\ r.attachments = {} /\ r.pins = 0
        THEN [m EXCEPT !.pending = @ + r.pages, !.buffers[b] = FreeRecord(r.gen)]
        ELSE m

MarkDying(m, b) ==
  ReclaimIfEligible([m EXCEPT !.buffers[b].state = "Dying", !.buffers[b].root = NoHandle], b)

(* detach, for a set of attachments of the buffer id *)
Detach(m, id, A) ==
  IF Holds(m, id)
    THEN ReclaimIfEligible([m EXCEPT !.buffers[id.slot].attachments = @ \ A], id.slot)
    ELSE m

Tables(m, A) == MapThenSumSet(LAMBDA a : RowOf(m, a).tables, A)

(* orphan_row: the row reads as zeros from now on. *)
Orphaned(row) == [row EXCEPT !.state = "Orphaned", !.tables = 0]

(* orphan, for the rows of A, whose page tables are queued for freeing *)
OrphanRows(m, A) ==
  [m EXCEPT
     !.pending = @ + Tables(m, A),
     !.windows = [p \in Pids |-> [@[p] EXCEPT !.rows = [r \in Rows |->
        IF [pid |-> p, row |-> r] \in A THEN Orphaned(@[r]) ELSE @[r]]]]]

(* Mutation: only the death of the buffer orphans a mapping. *)
MappingDeadWithBuffer(t, m, b, row) == row.state = "Live" /\ m.buffers[b].state # "Live"

(* The buffer or the authority of a Live row is gone. *)
MappingDead(t, m, b, row) ==
  /\ row.state = "Live"
  /\ \/ m.buffers[b].state # "Live"
     \/ row.authority # KernelGrant /\ ~CapabilityLive(t, row.authority)

(* reconcile_slot *)
Reconcile(t, m, b) ==
  LET r  == m.buffers[b]
      m1 == IF r.state = "Live" /\ r.owner # Kernel /\ ~CapabilityLive(t, r.root)
              THEN MarkDying(m, b) ELSE m
      dead == {a \in r.attachments : MappingDead(t, m1, b, RowOf(m1, a))}
  IN  IF m1.buffers[b].state = "Free" THEN m1
      ELSE Detach(OrphanRows(m1, dead), IdAt(m1, b), dead)

(* RevokedBuffers::reconcile *)
ReconcileAll(t, m, B) == FoldSet(LAMBDA b, n : Reconcile(t, n, b), m, B)

(* drain_pending: frames reach the allocator only here *)
Drained(m) == [m EXCEPT !.pending = 0]

-----------------------------------------------------------------------------
(* The operations of system call 16 drain the queue before anything else, so
   they work on this number of free frames. *)
Available == free + shared.pending

Lowest(S) == {x \in S : \A y \in S : x <= y}

FreeSlots(m) == {b \in BufferSlots : m.buffers[b].state = "Free" /\ m.buffers[b].gen < MaxBufferGen}

Owned(m, owner) == {b \in BufferSlots : m.buffers[b].state # "Free" /\ m.buffers[b].owner = owner}

(* check_quota, whose limit on all pages is the number of frames here *)
WithinQuota(m, owner, n) ==
  owner # Kernel =>
    /\ Cardinality(Owned(m, owner)) < MaxOwnerBuffers
    /\ n + MapThenSumSet(LAMBDA b : m.buffers[b].pages, Owned(m, owner)) <= MaxOwnerPages

(* SharedBufferTable::allocate of n pages in slot b *)
CanAllocate(owner, n, b) ==
  b \in Lowest(FreeSlots(shared)) /\ WithinQuota(shared, owner, n) /\ Available >= n

Allocated(m, owner, n, b, root) ==
  [Drained(m) EXCEPT !.buffers[b] =
     [FreeRecord(@.gen + 1) EXCEPT
        !.state = "Live", !.owner = owner, !.pages = n, !.root = root]]

(* allocate_client: the buffer, then its root capability *)
Allocate(p, n) ==
  /\ p \in procs
  /\ \E b \in BufferSlots, s \in Slots :
       /\ CanAllocate(p, n, b)
       /\ IsFirstUsable(GrantRetry(caps), s)
       /\ LET id == [slot |-> b, gen |-> shared.buffers[b].gen + 1]
          IN  caps' = Install(GrantRetry(caps), s, Record(p, id, Rights, NoHandle, 0))
       /\ shared' = Allocated(shared, p, n, b, HandleAt(caps', s))
  /\ free' = Available - n
  /\ UNCHANGED <<pinned, procs>>

(* grant_root fails: abort_allocation gives the frames back; the generation of
   the slot is used up. *)
AllocateAborted(p, n) ==
  /\ p \in procs
  /\ Usable(GrantRetry(caps)) = {}
  /\ caps' = Sweep(GrantRetry(caps), Slots)
  /\ \E b \in BufferSlots :
       /\ CanAllocate(p, n, b)
       /\ shared' = [Drained(shared) EXCEPT !.buffers[b] = FreeRecord(@.gen + 1)]
  /\ free' = Available
  /\ UNCHANGED <<pinned, procs>>

(* Everything map_into_root checks: the buffer is live, the process has no row
   for it, and the buffer has an attachment, the window a row and the allocator
   the frames left. *)
TableCount(pages) == (pages + PagesPerTable - 1) \div PagesPerTable
FramesToMap(p, b) ==
  TableCount(shared.buffers[b].pages) + (2 - shared.windows[p].directory)
HasRow(p, id) ==
  \E r \in Rows : shared.windows[p].rows[r].state # "Empty" /\ shared.windows[p].rows[r].buffer = id
EmptyRows(p) == {r \in Rows : shared.windows[p].rows[r].state = "Empty"}

CanMap(p, id, r) ==
  /\ p \in procs
  /\ IsLive(shared, id) /\ ~HasRow(p, id)
  /\ Cardinality(shared.buffers[id.slot].attachments) < MaxAttachments
  /\ r \in Lowest(EmptyRows(p))
  /\ Available >= FramesToMap(p, id.slot)

(* map_into_root: claim a window if there is none, build the row, attach. *)
MapInto(p, id, r, access, authority) ==
  /\ shared' = [Drained(shared) EXCEPT
       !.windows[p].directory = 2,
       !.windows[p].rows[r] =
         [state |-> "Live", buffer |-> id, access |-> access, authority |-> authority,
          tables |-> TableCount(shared.buffers[id.slot].pages)],
       !.buffers[id.slot].attachments = @ \cup {[pid |-> p, row |-> r]}]
  /\ free' = Available - FramesToMap(p, id.slot)
  /\ UNCHANGED <<caps, pinned, procs>>

AccessRights(access) == IF access = "Read" THEN {"read"} ELSE {"read", "write"}

Map(p, h, access) ==
  /\ Authorized(caps, p, h, AccessRights(access))
  /\ \E r \in Rows :
       /\ CanMap(p, caps[h.slot].resource, r)
       /\ MapInto(p, caps[h.slot].resource, r, access, h)

(* An operation that ends in drain_pending, with the state m *)
Settle(m) == \E n \in {m} : shared' = Drained(n) /\ free' = free + n.pending

(* WindowPool::unmap and ::remove_process: the rows of R are cleared and detached
   from their buffers; a window without rows gives up its directory. *)
RemoveRows(m, p, R) ==
  LET w    == m.windows[p]
      live == {r \in R : w.rows[r].state = "Live"}
      rows == [r \in Rows |-> IF r \in R THEN EmptyRow ELSE w.rows[r]]
      last == \A r \in Rows : rows[r].state = "Empty"
      m1   == [m EXCEPT
                 !.windows[p] = IF last THEN NoWindow ELSE [w EXCEPT !.rows = rows],
                 !.pending = @ + Tables(m, {[pid |-> p, row |-> r] : r \in live})
                               + (IF last THEN w.directory ELSE 0)]
  IN  FoldSet(LAMBDA r, n : Detach(n, w.rows[r].buffer, {[pid |-> p, row |-> r]}), m1, live)

UsedRows(m, p) == {r \in Rows : m.windows[p].rows[r].state # "Empty"}

(* unmap_at *)
Unmap(p, r) ==
  /\ p \in procs /\ r \in UsedRows(shared, p)
  /\ Settle(RemoveRows(shared, p, {r}))
  /\ UNCHANGED <<caps, pinned, procs>>

(* A call that only drains the queue: QUERY, or one that is refused. *)
Refused ==
  /\ shared.pending > 0 /\ procs # {}
  /\ Settle(shared)
  /\ UNCHANGED <<caps, pinned, procs>>

(* The records that name a buffer, as revoke_resource_tree selects them *)
Naming(t, id) == {s \in Slots : t[s].state \in {"Live", "Revoked"} /\ t[s].resource = id}

(* RELEASE: the owner must have unmapped the buffer; readers lose theirs. *)
Release(p, h) ==
  /\ p \in procs /\ Authorized(caps, p, h, {"revoke"})
  /\ LET id == caps[h.slot].resource
     IN  /\ IsLive(shared, id) /\ caps[h.slot].depth = 0
         /\ shared.buffers[id.slot].owner = p /\ ~HasRow(p, id)
         /\ caps' = RevokeTreesOf(caps, Naming(caps, id))
         /\ Settle(Reconcile(caps', shared, id.slot))
  /\ UNCHANGED <<pinned, procs>>

-----------------------------------------------------------------------------
(* Capability operations.  A child of a buffer's root capability is made by the
   DELEGATE call or by a port SEND and can only read. *)
Delegate(p, h, target) ==
  /\ {p, target} \subseteq procs
  /\ CanDelegate(caps, p, h, {"read"})
  /\ \E s \in Slots :
       /\ IsFirstUsable(caps, s)
       /\ caps' = Install(caps, s, ChildOf(caps, h.slot, target, {"read"}))
  /\ UNCHANGED <<shared, free, pinned, procs>>

(* handle_revoke *)
Revoke(p, h) ==
  /\ p \in procs /\ CanRevoke(caps, p, h)
  /\ caps' = RevokeSubtree(caps, {h.slot})
  /\ Settle(Reconcile(caps', shared, caps[h.slot].resource.slot))
  /\ UNCHANGED <<pinned, procs>>

(* A port drops a request whose transfer was not received (release_child); the
   port operations reconcile but do not drain the queue. *)
PortReleases(s) ==
  /\ s \in LiveSlots(caps) /\ caps[s].parent # NoHandle
  /\ caps' = ReleaseSlots(RevokeSlots(caps, {s}), {s})
  /\ shared' = Reconcile(caps', shared, caps[s].resource.slot)
  /\ UNCHANGED <<free, pinned, procs>>

(* Mutation: the mappings of the process are left to the revocation. *)
TeardownWithoutRows(p) ==
  /\ caps' = RevokeTreesOf(caps, HeldBy(caps, p))
  /\ Settle(ReconcileAll(caps', shared,
                         {caps[s].resource.slot : s \in LiveSlots(caps) \cap HeldBy(caps, p)}))

(* The teardown hooks RevokeHolderCapabilities (revoke_for_holder) and, after
   it, SharedMappings (teardown_process) *)
Teardown(p) ==
  /\ caps' = RevokeTreesOf(caps, HeldBy(caps, p))
  /\ \E m \in {ReconcileAll(caps', shared,
                 {caps[s].resource.slot : s \in LiveSlots(caps) \cap HeldBy(caps, p)})} :
       Settle(RemoveRows(m, p, UsedRows(m, p)))

-----------------------------------------------------------------------------
(* Buffers owned by the kernel (kernel_owned.rs) *)
LiveKernelOwned(b) == shared.buffers[b].state = "Live" /\ shared.buffers[b].owner = Kernel

AllocateKernelOwned(n) ==
  /\ \E b \in BufferSlots :
       CanAllocate(Kernel, n, b) /\ shared' = Allocated(shared, Kernel, n, b, NoHandle)
  /\ free' = Available - n
  /\ UNCHANGED <<caps, pinned, procs>>

MapKernelOwned(p, b, access) ==
  /\ LiveKernelOwned(b)
  /\ \E r \in Rows :
       CanMap(p, IdAt(shared, b), r) /\ MapInto(p, IdAt(shared, b), r, access, KernelGrant)

(* unmap_kernel_grants_for *)
UnmapKernelGrants(p) ==
  /\ p \in procs
  /\ LET R == {r \in UsedRows(shared, p) : shared.windows[p].rows[r].authority = KernelGrant}
     IN  R # {} /\ Settle(RemoveRows(shared, p, R))
  /\ UNCHANGED <<caps, pinned, procs>>

Pin(b) ==
  /\ LiveKernelOwned(b) /\ shared.buffers[b].pins < MaxPins
  /\ shared' = [shared EXCEPT !.buffers[b].pins = @ + 1]
  /\ pinned' = pinned \cup {[id |-> IdAt(shared, b), n |-> shared.buffers[b].pins + 1]}
  /\ UNCHANGED <<caps, free, procs>>

(* unpin consumes one of the tokens of a buffer. *)
Unpin(id) ==
  /\ \E k \in pinned : k.id = id /\ pinned' = pinned \ {k}
                       /\ \A j \in pinned : j.id = id => j.n <= k.n
  /\ Settle(ReclaimIfEligible([shared EXCEPT !.buffers[id.slot].pins = @ - 1], id.slot))
  /\ UNCHANGED <<caps, procs>>

ReleaseKernelOwned(b) ==
  /\ LiveKernelOwned(b)
  /\ Settle(Reconcile(caps, MarkDying(shared, b), b))
  /\ UNCHANGED <<caps, pinned, procs>>

-----------------------------------------------------------------------------
(* The tables at boot, or later with nothing in them: c and b are the
   generations their slots have reached. *)
BufferInit(c, b) ==
  /\ free = TotalFrames /\ pinned = {} /\ procs = Pids
  /\ caps = [s \in Slots |->
              [EmptyRecord(c[s]) EXCEPT !.state = IF c[s] = MaxGen THEN "Retired" ELSE "Empty"]]
  /\ shared = [buffers |-> [s \in BufferSlots |-> FreeRecord(b[s])],
               windows |-> [p \in Pids |-> NoWindow], pending |-> 0]

ClientStep ==
  \/ \E p \in Pids, n \in Sizes : Allocate(p, n) \/ AllocateAborted(p, n)
  \/ \E p \in Pids, r \in Rows : Unmap(p, r)
  \/ \E h \in {HandleAt(caps, s) : s \in Slots}, p \in Pids :
       \/ \E access \in {"Read", "ReadWrite"} : Map(p, h, access)
       \/ Release(p, h) \/ Revoke(p, h)
       \/ \E target \in Pids : Delegate(p, h, target)
  \/ \E s \in Slots : PortReleases(s)
  \/ Refused

KernelStep ==
  \/ \E n \in Sizes : AllocateKernelOwned(n)
  \/ \E p \in Pids : UnmapKernelGrants(p)
  \/ \E b \in BufferSlots :
       \/ Pin(b) \/ ReleaseKernelOwned(b)
       \/ \E p \in Pids, access \in {"Read", "ReadWrite"} : MapKernelOwned(p, b, access)
  \/ \E id \in {k.id : k \in pinned} : Unpin(id)

(* A process exits. *)
ExitBuffers(p) ==
  /\ p \in procs /\ procs' = procs \ {p}
  /\ Teardown(p)
  /\ UNCHANGED pinned

-----------------------------------------------------------------------------
(* Properties. *)

Attachable == [pid : Pids, row : Rows]

(* The frames of the allocator, those waiting to be freed, and those of buffers
   and page tables add up, so no operation leaks a frame when it fails or undoes
   another, and drain_pending never frees a frame twice, at which free_run would
   stop the kernel.  And none is kept without a reason: a Dying buffer waits for a
   pin and nothing else, and a process that has exited owns no buffer and has no
   window. *)
FramesAccounted ==
  /\ TotalFrames =
       free + shared.pending + Tables(shared, Attachable)
         + MapThenSumSet(LAMBDA b : shared.buffers[b].pages, BufferSlots)
         + MapThenSumSet(LAMBDA p : shared.windows[p].directory, Pids)
  /\ \A b \in BufferSlots :
       LET r == shared.buffers[b]
       IN  /\ r.state = "Dying" => r.pins > 0
           /\ r.state = "Live" /\ r.owner # Kernel => r.owner \in procs
  /\ \A p \in Pids \ procs : shared.windows[p] = NoWindow

(* A process reaches the frames of a buffer only through a Live row that the
   buffer has recorded, while the buffer is Live and the capability it was mapped
   with has not been revoked (or the kernel granted it on a buffer of its own);
   only the owner can write to a client's buffer; no buffer is attached to a row
   that is not its own; and while a PinToken exists, its buffer keeps its frames.
   Each revocation, by whichever caller, must have reconciled the rows for this. *)
MappingsAuthorised ==
  /\ \A a \in Attachable : RowOf(shared, a).state = "Live" =>
       LET row == RowOf(shared, a)
           buffer == shared.buffers[row.buffer.slot]
       IN  /\ IsLive(shared, row.buffer) /\ a \in buffer.attachments
           /\ IF buffer.owner = Kernel THEN row.authority = KernelGrant
              ELSE /\ Authorized(caps, a.pid, row.authority, AccessRights(row.access))
                   /\ row.access = "ReadWrite" => buffer.owner = a.pid
  /\ \A b \in BufferSlots : \A a \in shared.buffers[b].attachments :
       RowOf(shared, a).state = "Live" /\ RowOf(shared, a).buffer = IdAt(shared, b)
  /\ \A k \in pinned : Holds(shared, k.id)
=============================================================================
