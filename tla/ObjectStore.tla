---------------------------- MODULE ObjectStore ----------------------------
(***************************************************************************)
(* clean_slate_store::ObjectStore (src/store/src/lib.rs): a copy-on-write  *)
(* object store with two superblock slots (LBA 0 and 1) and one data arena *)
(* per slot.  commit writes object data into the inactive arena, then the  *)
(* superblock of the inactive slot, then flushes.  Every device call of    *)
(* format and commit is a step of its own, so that write-back by the       *)
(* device, I/O errors, power loss and a crash of the process that owns the *)
(* store fall between any two of them.                                     *)
(*                                                                         *)
(* A payload is a sequence of whole blocks; BlockSum gives the sum of a    *)
(* block's bytes, so that the checksum of a payload is the sum over its    *)
(* blocks (checksum() is a wrapping byte sum).                             *)
(***************************************************************************)
EXTENDS BlockDevice, Sequences, FiniteSets

CONSTANTS
  Ids, Names,     \* object identities and names that clients use
  Blocks,         \* contents of a data block
  BlockSum,       \* BlockSum[b]: the byte sum of block content b
  Payloads,       \* the payloads that clients write
  MaxObjects,     \* MAX_OBJECTS
  MaxGeneration,  \* the largest generation (u64::MAX in the code)
  MaxFaults,      \* bound on device errors, process crashes and power losses
  ProcessCrash,   \* may the owning process crash while the device keeps power?
  ReadFaults      \* may reads fail at mount?

SUPERBLOCK_SLOTS == 2
DATA_START_LBA == 2

ASSUME StoreAssumption ==
  /\ BlockCount >= DATA_START_LBA + SUPERBLOCK_SLOTS
  /\ BlockSum \in [Blocks -> Nat]
  /\ Payloads \subseteq Seq(Blocks)
  /\ MaxObjects \in Nat \ {0} /\ MaxGeneration \in Nat /\ MaxFaults \in Nat
  /\ ProcessCrash \in BOOLEAN /\ ReadFaults \in BOOLEAN

VARIABLES
  mode,        \* "down", "mounted", "format", "commit", or "done": the flush
               \* of a format or commit has returned, its caller has not
  generation,  \* ObjectStore.generation
  activeSlot,  \* ObjectStore.active_slot
  objects,     \* ObjectStore.objects: staged and committed objects
  todo,        \* device writes the running format or commit has still to make
  faults,      \* device errors, crashes and power losses so far
  acked,       \* history: objects of the last commit whose Ok was returned
  tried,       \* history: objects of the commits tried since then
  abandoned    \* history: those of them that a power loss has undone

historyVars == <<acked, tried, abandoned>>
storeVars == <<mode, generation, activeSlot, objects, todo, faults, historyVars>>
vars == <<deviceVars, storeVars>>

Slots == 0 .. SUPERBLOCK_SLOTS - 1

data_arena_blocks == (BlockCount - DATA_START_LBA) \div SUPERBLOCK_SLOTS

(* Mutation: both slots share one arena. *)
SharedArena(slot) == DATA_START_LBA

ArenaStart(slot) == DATA_START_LBA + slot * data_arena_blocks
ArenaEnd(slot) == ArenaStart(slot) + data_arena_blocks

(* Sum of the first n values of a sequence of numbers. *)
SumPrefix(seq, n) ==
  LET sum[i \in 0 .. n] == IF i = 0 THEN 0 ELSE sum[i-1] + seq[i] IN sum[n]

checksum(data) ==
  SumPrefix([i \in 1 .. Len(data) |->
               IF data[i] \in Blocks THEN BlockSum[data[i]] ELSE 0], Len(data))

-----------------------------------------------------------------------------
(* build_object_layout: extents are handed out in table order. *)
Lengths(objs) == [i \in 1 .. Len(objs) |-> Len(objs[i].data)]

RequiredBlocks(objs) == SumPrefix(Lengths(objs), Len(objs))

build_object_layout(slot, objs) ==
  [i \in 1 .. Len(objs) |->
     [id |-> objs[i].id, name |-> objs[i].name,
      start |-> ArenaStart(slot) + SumPrefix(Lengths(objs), i - 1),
      count |-> Len(objs[i].data), sum |-> checksum(objs[i].data)]]

(* Mutation: a generation counter that saturates too early. *)
SaturatedSuperblock(gen, layouts) ==
  [generation |-> IF gen > 1 THEN 1 ELSE gen, objects |-> layouts]

Superblock(gen, layouts) == [generation |-> gen, objects |-> layouts]

(* The device writes of commit before its flush, in order: the data of every
   object, block by block, then the superblock. *)
CommitWrites(slot, gen, objs) ==
  LET layouts == build_object_layout(slot, objs)
      w[i \in 0 .. Len(objs)] ==
        IF i = 0 THEN << >>
        ELSE w[i-1] \o [k \in 1 .. layouts[i].count |->
                          <<layouts[i].start + k - 1, objs[i].data[k]>>]
  IN  Append(w[Len(objs)], <<slot, Superblock(gen, layouts)>>)

-----------------------------------------------------------------------------
(* decode_superblock and validate_layouts.  A superblock block holds either a
   complete superblock, or zeroes (BadMagic), or a torn sector (Corrupt). *)
Decodes(img, slot) == img[slot] \notin {Blank, Torn}

ReadData(img, layout) == [k \in 1 .. layout.count |-> img[layout.start + k - 1]]

(* load_objects / read_object_data: every payload must match its checksum. *)
Loads(img, slot) ==
  \A i \in 1 .. Len(img[slot].objects) :
    LET layout == img[slot].objects[i]
        data == ReadData(img, layout)
    IN  /\ \A k \in 1 .. layout.count : data[k] # Torn
        /\ checksum(data) = layout.sum

LoadObjects(img, slot) ==
  [i \in 1 .. Len(img[slot].objects) |->
     LET layout == img[slot].objects[i]
     IN  [id |-> layout.id, name |-> layout.name, data |-> ReadData(img, layout)]]

(* select_committed_state: the slot with the highest generation that decodes
   and whose payloads all load; a tie goes to the lower slot.  A slot in
   failed is one whose superblock or payload read returned an I/O error: the
   code notes the error and goes on with the other slot. *)
Candidates(img, failed) ==
  {s \in Slots \ failed : Decodes(img, s) /\ Loads(img, s)}

Preferred(img, s, t) ==
  \/ img[s].generation > img[t].generation
  \/ img[s].generation = img[t].generation /\ s <= t

SelectSlot(img, failed) ==
  CHOOSE s \in Candidates(img, failed) :
    \A t \in Candidates(img, failed) : Preferred(img, s, t)

(* The error priority at the end of select_committed_state: BadMagic is
   reported when no candidate is left, no read failed and a slot is blank. *)
BadMagic(img, failed) ==
  /\ failed = {}
  /\ Candidates(img, failed) = {}
  /\ \E s \in Slots : img[s] = Blank

(* What a mount of image img finds when all reads succeed, as a set of at
   most one table of objects. *)
Recovered(img) ==
  IF Candidates(img, {}) = {} THEN {}
  ELSE {LoadObjects(img, SelectSlot(img, {}))}

-----------------------------------------------------------------------------
Init ==
  /\ DeviceInit
  /\ mode = "down" /\ generation = 0 /\ activeSlot = 0
  /\ objects = << >> /\ todo = << >> /\ faults = 0
  /\ acked = {} /\ tried = {} /\ abandoned = {}

(* ObjectStore::mount *)
Mount(failed) ==
  /\ mode = "down"
  /\ Candidates(live, failed) # {}
  /\ LET s == SelectSlot(live, failed)
     IN  /\ activeSlot' = s
         /\ generation' = live[s].generation
         /\ objects' = LoadObjects(live, s)
  /\ mode' = "mounted"
  /\ UNCHANGED <<deviceVars, todo, faults, historyVars>>

(* ObjectStore::format, called by run_object_service when mount reports
   BadMagic: an empty generation 0 in both slots, then a flush. *)
FormatStart ==
  /\ mode = "down"
  /\ BadMagic(live, {})
  /\ mode' = "format"
  /\ todo' = << <<0, Superblock(0, << >>)>>, <<1, Superblock(0, << >>)>> >>
  /\ objects' = << >> /\ generation' = 0 /\ activeSlot' = 0
  /\ tried' = tried \cup {<< >>}
  /\ UNCHANGED <<deviceVars, faults, acked, abandoned>>

(* Mutation: an object of the same name but another id is not found. *)
MatchesById(id, name) == {i \in 1 .. Len(objects) : objects[i].id = id}

(* ObjectStore::write_object: staged in memory only.  An entry that matches
   the id or the name is replaced; two different matches are an error. *)
Matches(id, name) ==
  {i \in 1 .. Len(objects) : objects[i].id = id \/ objects[i].name = name}

WriteObject(id, name, data) ==
  /\ mode = "mounted"
  /\ \/ /\ Cardinality(Matches(id, name)) = 1
        /\ objects' = [objects EXCEPT ![CHOOSE i \in Matches(id, name) : TRUE] =
                         [id |-> id, name |-> name, data |-> data]]
     \/ /\ Matches(id, name) = {}
        /\ Len(objects) < MaxObjects
        /\ objects' = Append(objects, [id |-> id, name |-> name, data |-> data])
  /\ UNCHANGED <<deviceVars, mode, generation, activeSlot, todo, faults, historyVars>>

(* Mutation: the active slot is overwritten. *)
NextSlotSame == activeSlot

NextSlot == (activeSlot + 1) % SUPERBLOCK_SLOTS

(* The start of ObjectStore::commit: GenerationExhausted and StorageFull are
   returned before the device is touched. *)
CommitStart ==
  /\ mode = "mounted"
  /\ generation < MaxGeneration
  /\ RequiredBlocks(objects) <= data_arena_blocks
  /\ mode' = "commit"
  /\ todo' = CommitWrites(NextSlot, generation + 1, objects)
  /\ tried' = tried \cup {objects}
  /\ UNCHANGED <<deviceVars, generation, activeSlot, objects, faults, acked, abandoned>>

(* The next write_blocks call of a running format or commit. *)
DeviceWrite ==
  /\ mode \in {"format", "commit"}
  /\ todo # << >>
  /\ WriteBlock(Head(todo)[1], Head(todo)[2])
  /\ todo' = Tail(todo)
  /\ UNCHANGED <<mode, generation, activeSlot, objects, faults, historyVars>>

(* The flush that ends a format or commit.  The caller learns of it later. *)
DeviceFlush ==
  /\ mode \in {"format", "commit"}
  /\ todo = << >>
  /\ FlushDevice
  /\ IF mode = "commit"
       THEN activeSlot' = NextSlot /\ generation' = generation + 1
       ELSE UNCHANGED <<activeSlot, generation>>
  /\ mode' = "done"
  /\ UNCHANGED <<objects, todo, faults, historyVars>>

(* format or commit returns Ok. *)
ReturnOk ==
  /\ mode = "done"
  /\ mode' = "mounted"
  /\ acked' = {objects} /\ tried' = {} /\ abandoned' = {}
  /\ UNCHANGED <<deviceVars, generation, activeSlot, objects, todo, faults>>

Fault == faults < MaxFaults /\ faults' = faults + 1

(* A write or flush fails: commit returns the error, keeps the staged objects
   and stays on its generation; a failed format leaves no store. *)
DeviceError ==
  /\ Fault
  /\ mode \in {"format", "commit"}
  /\ mode' = IF mode = "commit" THEN "mounted" ELSE "down"
  /\ todo' = << >>
  /\ UNCHANGED <<deviceVars, generation, activeSlot, objects, historyVars>>

(* The process that owns the store dies; the device keeps its live image. *)
Down == mode' = "down" /\ generation' = 0 /\ activeSlot' = 0 /\ objects' = << >> /\ todo' = << >>

CrashProcess ==
  /\ ProcessCrash /\ mode # "down"
  /\ Fault /\ Down
  /\ UNCHANGED <<deviceVars, historyVars>>

(* Power is lost.  What a mount now finds is what the next owner builds on. *)
PowerLoss ==
  /\ Fault /\ Down
  /\ LosePower
  /\ acked' = IF Recovered(durable') = {} THEN acked ELSE Recovered(durable')
  /\ tried' = {}
  /\ abandoned' = (abandoned \cup tried) \ Recovered(durable')

WriteBack == \E lba \in LBAs : PersistBlock(lba) /\ UNCHANGED storeVars

Next ==
  \/ \E failed \in IF ReadFaults THEN SUBSET Slots ELSE {{}} : Mount(failed)
  \/ FormatStart
  \/ \E id \in Ids, name \in Names, data \in Payloads : WriteObject(id, name, data)
  \/ CommitStart \/ DeviceWrite \/ DeviceFlush \/ ReturnOk \/ DeviceError
  \/ CrashProcess \/ PowerLoss \/ WriteBack

Spec == Init /\ [][Next]_vars

-----------------------------------------------------------------------------
(* Properties *)

(* At every moment a power loss would expose the last acknowledged commit or
   one that was tried since and never acknowledged: commit's order of data,
   superblock and flush, and its choice of the inactive slot, with
   select_committed_state. *)
RecoverySafe ==
  acked # {} => /\ Recovered(durable) # {}
                /\ Recovered(durable) \subseteq acked \cup tried \cup abandoned

(* What validate_layouts accepts: ids and names are unique, extents lie in the
   slot's own arena and do not overlap *)
ValidLayouts(slot, layouts) ==
  \A i \in 1 .. Len(layouts) :
    /\ layouts[i].start >= ArenaStart(slot)
    /\ layouts[i].start + layouts[i].count <= ArenaEnd(slot)
    /\ \A j \in 1 .. i - 1 :
         /\ layouts[i].id # layouts[j].id
         /\ layouts[i].name # layouts[j].name
         /\ layouts[j].start + layouts[j].count <= layouts[i].start

(* No superblock that format or commit writes is one that a mount refuses
   (write_object, build_object_layout), and the two slots never hold different
   tables under one generation, on either image, so select_committed_state's
   choice is determined by the generation alone (commit's next_slot and
   next_generation, also after a mount that fell back to the older slot and
   numbers its commits from there). *)
SuperblocksConsistent ==
  /\ \A s \in Slots : Decodes(live, s) => ValidLayouts(s, live[s].objects)
  /\ todo # << >> =>
       LET last == todo[Len(todo)] IN ValidLayouts(last[1], last[2].objects)
  /\ \A img \in {live, durable} :
       Decodes(img, 0) /\ Decodes(img, 1) /\ img[0].generation = img[1].generation
         => img[0].objects = img[1].objects

(* "A newer generation never overwrites payload blocks still referenced by the
   currently committed superblock": while a store is mounted no device write
   touches the active slot or its arena. *)
ActiveSlotUntouched ==
  [][(mode \in {"mounted", "commit", "done"} /\ mode' # "down") =>
       \A b \in {activeSlot} \cup (ArenaStart(activeSlot) .. ArenaEnd(activeSlot) - 1) :
         live'[b] = live[b] ]_vars

(* The store implements the crash-atomic cell: what a mount of the durable
   image finds changes only as CrashAtomicCell allows. *)
Cell == INSTANCE CrashAtomicCell WITH
          stable <- Recovered(durable), acked <- acked,
          tried <- tried \cup abandoned

=============================================================================
