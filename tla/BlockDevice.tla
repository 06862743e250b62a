---------------------------- MODULE BlockDevice ----------------------------
(***************************************************************************)
(* The contract of clean_slate_block::BlockDevice (src/block/src/lib.rs):  *)
(* a completed write is visible to later reads but becomes durable only    *)
(* with a later successful flush.  Before that flush the backend may       *)
(* persist any written block on its own account (the early_persist_writes  *)
(* of src/block/src/fault.rs).  live is what reads return; durable is what *)
(* a power loss leaves behind (the two images of src/block/src/fake.rs).   *)
(* One block is the unit of writing and of persistence; a multi-block      *)
(* transfer is a sequence of one-block writes.                             *)
(***************************************************************************)
EXTENDS Naturals

CONSTANTS
  BlockCount,   \* number of logical blocks
  Blank,        \* content of a block that was never written (all zeroes)
  Torn          \* content of a sector interrupted by a power loss

ASSUME BlockCountAssumption == BlockCount \in Nat \ {0}

VARIABLES live, durable

deviceVars == <<live, durable>>

LBAs == 0 .. BlockCount - 1

DeviceInit ==
  /\ live = [b \in LBAs |-> Blank]
  /\ durable = live

(* FakeBlockDevice::write_blocks: only the live image changes. *)
WriteBlock(lba, content) ==
  /\ live' = [live EXCEPT ![lba] = content]
  /\ UNCHANGED durable

(* Mutation: the flush returns before anything is durable. *)
FlushDropped == UNCHANGED deviceVars

(* FakeBlockDevice::flush: every earlier write becomes durable. *)
FlushDevice ==
  /\ durable' = live
  /\ UNCHANGED live

Dirty == {b \in LBAs : live[b] # durable[b]}

(* FakeBlockDevice::persist_blocks: the backend writes one block back early. *)
PersistBlock(lba) ==
  /\ lba \in Dirty
  /\ durable' = [durable EXCEPT ![lba] = live[lba]]
  /\ UNCHANGED live

(* FaultInjectingBlockDevice power loss followed by FakeBlockDevice::rebooted:
   the durable image is all that is left.  One block that was on its way to
   the medium may be torn. *)
LosePower ==
  \E torn \in {{}} \cup {{b} : b \in Dirty} :
    /\ durable' = [b \in LBAs |-> IF b \in torn THEN Torn ELSE durable[b]]
    /\ live' = durable'

=============================================================================
