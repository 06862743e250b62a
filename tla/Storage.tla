------------------------------- MODULE Storage -------------------------------
(***************************************************************************)
(* Persistent objects end to end: client processes, the kernel's request    *)
(* queue, the storage service (run_object_service in                        *)
(* store/src/bin/userspace.rs) and the block transport below it, with the   *)
(* teardown of each process and restarts of the service.                    *)
(*                                                                         *)
(* Mount, format and commit are the block requests that the object store     *)
(* makes, each of which may fail; what power loss and torn sectors do to the *)
(* medium is ObjectStore's.  The payloads of a table are one request, and    *)
(* every entry carries `at`, the order in which the writes were carried out. *)
(***************************************************************************)
EXTENDS BlockBridge, ObjectQueue

CONSTANTS Clients,
          Holds,      \* client -> what its capabilities allow: pairs of op and object
          MaxRequests, MaxInstances  \* bounds: requests submitted, service instances

VARIABLES service,    \* the storage service process
          polling,    \* client -> request its poll is about, 0 when none
          sleeping,   \* client -> blocked in that poll
          exited,     \* clients whose process is gone
          writes,     \* history: writes carried out so far
          acked,      \* history: order of the last acknowledged write
          answered,   \* history: requests whose write was acknowledged
          passedOver  \* history: since then a mount took the older table, because
                      \* the newest one could not be read

clientVars == <<polling, sleeping, exited>>
historyVars == <<writes, acked, answered, passedOver>>
vars == <<bridgeVars, queueVars, service, clientVars, historyVars>>

Request(op, s, generation, objects) ==
    [op |-> op, slot |-> s, generation |-> generation, objects |-> objects]

Geometry == Request("geometry", 0, 0, {})
ReadSuperblock(s) == Request("readSuperblock", s, 0, {})
ReadPayloads(s) == Request("readPayloads", s, 0, {})
WriteSuperblock(s, generation, objects) == Request("superblock", s, generation, objects)
WritePayloads(s, objects) == Request("payloads", s, 0, objects)
Flush == Request("flush", 0, 0, {})

\* store is the ObjectStore of the service: generation, active_slot and objects.  While
\* it mounts, candidates and failed are those of select_committed_state: the slots
\* whose superblock decodes, and whether a read failed.
NoStore == [generation |-> 0, active |-> 0, objects |-> {}]
Table(store, objects) ==
    [generation |-> store.generation, active |-> store.active, objects |-> objects]

Stopped(gen) == [gen |-> gen, pc |-> "stopped", waits |-> "no", commands |-> <<>>,
                 store |-> NoStore, candidates |-> {}, failed |-> FALSE,
                 slot |-> FreeSlot, status |-> "none"]

Live == IF service.pc = "stopped" THEN {} ELSE {service.gen}

\* wake_all on the work key or on BLOCK_COMPLETION_KEY.
Woken(key) == IF service.waits = key THEN [service EXCEPT !.waits = "no"] ELSE service

-----------------------------------------------------------------------------
(* The storage service: its own steps. *)

\* write_object with the name the service gives every object, "object": each entry
\* matches by name, and the entry that matches is replaced, id and all.
SameName(objects) == objects
WriteObject(objects, o, request, at) ==
    (objects \ ({e \in objects : e.id = o} \cup SameName(objects)))
      \cup {[id |-> o, request |-> request, at |-> at]}

Find(objects, o) == {e \in objects : e.id = o}

\* A supervisor starts an instance, which attaches and mounts.
StartService ==
    /\ service.pc = "stopped"
    /\ service.gen < MaxInstances
    /\ service' = [Stopped(service.gen + 1) EXCEPT
                     !.pc = "mount", !.commands = <<Geometry, ReadSuperblock(0), ReadSuperblock(1)>>]
    /\ UNCHANGED <<bridgeVars, queueVars, clientVars, historyVars>>

\* Mutant: the role is looked up after the exiting service's capabilities are gone.
TeardownQueueLate == UNCHANGED queueVars

\* TeardownHook::ObjectQueues for the service: it holds the service role until
\* RevokeHolderCapabilities, a later hook.
TeardownQueue ==
    /\ slots' = Requeue(slots)
    /\ UNCHANGED nextRequest

\* The service is killed at any point but for its last instance.
Crash ==
    /\ service.pc # "stopped"
    /\ service.gen < MaxInstances
    /\ TeardownQueue
    /\ service' = Stopped(service.gen)
    /\ UNCHANGED <<bridgeVars, clientVars, historyVars>>

-----------------------------------------------------------------------------
(* select_committed_state, format and commit: where the service goes on      *)
(* when the first of its block requests is answered.                         *)

\* decode_superblock: without the magic a slot is incompatible.
Decodes(s) == media[s].generation >= 0

\* load_objects: the checksums only match payloads that are all there.
Loadable(s) == Payloads(media[s].objects) \subseteq media[s].payloads

Preferred(s, t) ==
    \/ media[s].generation > media[t].generation
    \/ media[s].generation = media[t].generation /\ s <= t

\* The slot that a mount takes if it can read everything.
Newest(s) ==
    /\ Decodes(s) /\ Loadable(s)
    /\ \A t \in StoreSlots : Decodes(t) /\ Loadable(t) => Preferred(s, t)

Rest == [service EXCEPT !.commands = Tail(@)]
LastCommand == Len(service.commands) = 1

Serving(store) ==
    [service EXCEPT !.pc = "next", !.commands = <<>>, !.store = store, !.candidates = {}, !.failed = FALSE]

Mounted(s) ==
    Serving([generation |-> media[s].generation, active |-> s, objects |-> media[s].objects])

\* The candidates are tried from the newest on; a table without objects has no
\* payload to read.  When none is left a failed read comes before a missing magic,
\* which run_object_service takes for a medium to format, and any other error is
\* an exit.
Select(candidates, failed) ==
    LET s == CHOOSE x \in candidates : \A y \in candidates : Preferred(x, y)
    IN CASE candidates # {} /\ media[s].objects = {} -> Mounted(s)
         [] candidates # {} /\ media[s].objects # {} ->
              [service EXCEPT !.pc = "load", !.commands = <<ReadPayloads(s)>>,
                              !.candidates = candidates, !.failed = failed]
         [] candidates = {} /\ ~failed /\ (\E t \in StoreSlots : ~Decodes(t)) ->
              [service EXCEPT !.pc = "format", !.candidates = {},
                 !.commands = <<Geometry, WriteSuperblock(0, 0, {}), WriteSuperblock(1, 0, {}), Flush>>]
         [] OTHER -> Stopped(service.gen)

\* read_superblock_slot: a failed read is noted, and the mount goes on without the slot.
AfterSuperblock(status) ==
    LET s == Head(service.commands).slot
        candidates == service.candidates \cup {t \in {s} : status = "Ok" /\ Decodes(t)}
        failed == service.failed \/ status # "Ok"
    IN IF LastCommand THEN Select(candidates, failed)
       ELSE [Rest EXCEPT !.candidates = candidates, !.failed = failed]

\* A candidate whose payloads fail to read or to match is passed over.
AfterPayloads(status) ==
    LET s == Head(service.commands).slot
    IN IF status = "Ok" /\ Loadable(s) THEN Mounted(s)
       ELSE Select(service.candidates \ {s}, service.failed \/ status # "Ok")

AfterFormat(status) ==
    CASE status # "Ok" -> Stopped(service.gen)
      [] status = "Ok" /\ LastCommand -> Serving(NoStore)
      [] OTHER -> Rest

NextSlot == (service.store.active + 1) % 2
NextGeneration == service.store.generation + 1

\* A failed commit leaves the changed table in memory, under the old generation.
AfterCommit(status) ==
    CASE status # "Ok" ->
           [service EXCEPT !.commands = <<>>, !.pc = "complete", !.status = "StoreError"]
      [] status = "Ok" /\ LastCommand ->
           [Rest EXCEPT !.pc = "complete", !.status = "Ok",
              !.store = [generation |-> NextGeneration, active |-> NextSlot, objects |-> @.objects]]
      [] OTHER -> Rest

AfterCommand(status) ==
    CASE service.pc = "mount" /\ Head(service.commands) = Geometry -> Rest  \* never fails
      [] service.pc = "mount" /\ Head(service.commands) # Geometry -> AfterSuperblock(status)
      [] service.pc = "load" -> AfterPayloads(status)
      [] service.pc = "format" -> AfterFormat(status)
      [] service.pc = "commit" -> AfterCommit(status)

\* After a read that failed, the service starts to serve a table that is not the newest
\* on the medium.
PassesOver(status) ==
    /\ service.failed \/ status # "Ok"
    /\ service.pc \in {"mount", "load"} /\ service'.pc = "next" /\ ~Newest(service'.store.active)

Commanding == service.commands # <<>> /\ service.waits = "no"

BlockCall ==
    /\ Commanding
    /\ \E status \in {"Ok", "Fault"} :
        /\ \/ Harvest(service.gen, Head(service.commands), status)
           \/ GiveUp(service.gen, Head(service.commands), status)
           \/ Respond(service.gen, Head(service.commands), Live, status)
        /\ service' = AfterCommand(status)
        /\ passedOver' = (passedOver \/ PassesOver(status))
    /\ UNCHANGED <<queueVars, clientVars, writes, acked, answered>>

BlockStart ==
    /\ Commanding
    /\ SubmitBlock(service.gen, Head(service.commands), Live)
    /\ service' = [service EXCEPT !.waits = "block"]
    /\ UNCHANGED <<queueVars, clientVars, historyVars>>

BlockWait ==
    /\ Commanding
    /\ MustWait(service.gen, Head(service.commands), Live)
    /\ service' = [service EXCEPT !.waits = "block"]
    /\ UNCHANGED <<bridgeVars, queueVars, clientVars, historyVars>>

\* OBJECT_SUBOP_SERVICE_NEXT
ServiceNext ==
    /\ service.pc = "next"
    /\ service.waits = "no"
    /\ \E i \in SlotIndices :
        /\ Dequeue(i)
        /\ service' = [service EXCEPT !.pc = "execute", !.slot = slots[i]]
    /\ UNCHANGED <<bridgeVars, clientVars, historyVars>>

ServiceWait ==
    /\ service.pc = "next"
    /\ service.waits = "no"
    /\ InState("Pending") = {}
    /\ service' = [service EXCEPT !.waits = "work"]
    /\ UNCHANGED <<bridgeVars, queueVars, clientVars, historyVars>>

ExecuteRead ==
    /\ service.pc = "execute"
    /\ service.slot.op = "read"
    /\ service' = [service EXCEPT !.pc = "complete",
                     !.status = IF Find(service.store.objects, service.slot.object) = {}
                                THEN "NotFound" ELSE "Ok"]
    /\ UNCHANGED <<bridgeVars, queueVars, clientVars, historyVars>>

\* write_object and the start of commit: the table in memory changes first.
ExecuteWrite ==
    /\ service.pc = "execute"
    /\ service.slot.op = "write"
    /\ writes' = writes + 1
    /\ LET objects == WriteObject(service.store.objects, service.slot.object, service.slot.id, writes')
       IN service' = [service EXCEPT !.pc = "commit", !.store = Table(@, objects),
                        !.commands = <<WritePayloads(NextSlot, objects),
                                       WriteSuperblock(NextSlot, NextGeneration, objects), Flush>>]
    /\ UNCHANGED <<bridgeVars, queueVars, clientVars, acked, answered, passedOver>>

\* object_service_complete_or_abandon; the client asleep in its poll is woken.
Complete ==
    /\ service.pc = "complete"
    /\ LET id == service.slot.id IN
        /\ slots' = Answered(id, service.status)
        /\ sleeping' = [c \in Clients |->
                          sleeping[c] /\ ~(Completable(id) # {} /\ polling[c] = id)]
        /\ IF service.slot.op = "write" /\ Completable(id) # {} /\ service.status = "Ok"
           THEN acked' = writes /\ answered' = answered \cup {id} /\ passedOver' = FALSE
           ELSE UNCHANGED <<acked, answered, passedOver>>
    /\ service' = [service EXCEPT !.pc = "next", !.slot = FreeSlot, !.status = "none"]
    /\ UNCHANGED <<bridgeVars, nextRequest, polling, exited, writes>>

-----------------------------------------------------------------------------
(* The device and the clock wake the service. *)

DeviceStep ==
    /\ \E result \in {"ok", "fault", "malformed"} : DeviceCompletes(result)
    /\ UNCHANGED <<service, queueVars, clientVars, historyVars>>

InterruptStep ==
    /\ Interrupt
    /\ service' = Woken("block")
    /\ UNCHANGED <<queueVars, clientVars, historyVars>>

DeadlineStep ==
    /\ DeadlinePasses
    /\ service' = Woken("block")
    /\ UNCHANGED <<queueVars, clientVars, historyVars>>

-----------------------------------------------------------------------------
(* Clients. *)

Runs(c) == c \notin exited /\ ~sleeping[c]

\* OBJECT_SUBOP_SUBMIT
ClientSubmit(c, op, o) ==
    /\ Runs(c)
    /\ polling[c] = 0
    /\ nextRequest <= MaxRequests
    /\ Enqueue(c, op, o)
    /\ service' = Woken("work")
    /\ UNCHANGED <<bridgeVars, clientVars, historyVars>>

\* OBJECT_SUBOP_POLL, also when a wake restarts it.
ClientPoll(c, i) ==
    /\ Runs(c)
    /\ slots[i].client = c
    /\ polling[c] \in {0, slots[i].id}
    /\ IF slots[i].state = "Done"
       THEN /\ slots' = Consumed(i)
            /\ polling' = [polling EXCEPT ![c] = 0]
            /\ UNCHANGED sleeping
       ELSE /\ polling' = [polling EXCEPT ![c] = slots[i].id]
            /\ sleeping' = [sleeping EXCEPT ![c] = TRUE]
            /\ UNCHANGED slots
    /\ UNCHANGED <<bridgeVars, nextRequest, service, exited, historyVars>>

\* A client exits or is killed, awake or asleep.
ClientExit(c) ==
    /\ c \notin exited
    /\ exited' = exited \cup {c}
    /\ slots' = Reclaim(slots, c)
    /\ polling' = [polling EXCEPT ![c] = 0]
    /\ sleeping' = [sleeping EXCEPT ![c] = FALSE]
    /\ UNCHANGED <<bridgeVars, nextRequest, service, historyVars>>

-----------------------------------------------------------------------------
Init ==
    /\ BridgeInit
    /\ QueueInit
    /\ service = Stopped(0)
    /\ polling = [c \in Clients |-> 0]
    /\ sleeping = [c \in Clients |-> FALSE]
    /\ exited = {}
    /\ writes = 0
    /\ acked = 0
    /\ answered = {}
    /\ passedOver = FALSE

ServiceStep == BlockCall \/ BlockStart \/ BlockWait \/ ServiceNext \/ ServiceWait
                 \/ ExecuteRead \/ ExecuteWrite \/ Complete

ClientStep(c) ==
    \/ \E right \in Holds[c] : ClientSubmit(c, right[1], right[2])
    \/ \E i \in SlotIndices : ClientPoll(c, i)
    \/ ClientExit(c)

Next ==
    \/ ServiceStep \/ StartService \/ Crash
    \/ DeviceStep \/ InterruptStep \/ DeadlineStep
    \/ \E c \in Clients : ClientStep(c)

\* The service is scheduled and restarted; interrupts and deadlines arrive.  The
\* device need not answer.
Fairness ==
    /\ WF_vars(ServiceStep)
    /\ WF_vars(StartService)
    /\ WF_vars(InterruptStep)
    /\ WF_vars(DeadlineStep)

Spec == Init /\ [][Next]_vars /\ Fairness

-----------------------------------------------------------------------------
(* Properties. *)

\* While the device owns the shared descriptors nothing is written to them, even
\* if the request was given up (block.rs: "a second submission while the device
\* owns them would corrupt the in-flight one").
DescriptorsStable == [][device.owned => UNCHANGED descriptor]_vars

\* What is left of the newest acknowledged write: its entry, or that of a write which
\* was carried out after it and has not been acknowledged yet.
Kept(objects) ==
    \E e \in objects : e.at = acked \/ (e.at > acked /\ e.request \notin answered)

\* The newest write answered Ok is what the next mount finds and what the live table
\* holds, unless a write that is still unanswered was carried out after it: no late
\* write of a dead instance, no failed commit and no second execution of an answered
\* write brings an older table back.  Two things are not promised.  A mount that
\* cannot read the newest table serves the older one (select_committed_state), and
\* the acknowledged write is lost with the next commit.  And a write that a crash
\* interrupted is carried out again on retry: it counts as carried out after a write
\* that overtook it and was acknowledged meanwhile, and replaces it, although it may
\* have been on the medium before (ARCHITECTURE.md: "whole-object read/write
\* operations are retried idempotently at the store layer").  Nothing is said of the
\* older writes of other objects: all have the same name, so a write replaces the
\* entry of any other (WriteObject).
AcknowledgedKept ==
    acked > 0 /\ ~passedOver =>
        /\ \E s \in StoreSlots : Newest(s)
        /\ \A s \in StoreSlots : Newest(s) => Kept(media[s].objects)
        /\ service.pc \in {"next", "execute", "commit", "complete"} => Kept(service.store.objects)

\* A client asleep in a poll is woken by a completion or torn down, whatever
\* instance it waits for, unless the last instance has stopped.
PollReturns ==
    \A c \in Clients :
        []<>(~sleeping[c] \/ service = Stopped(MaxInstances))
=============================================================================
