----------------------------- MODULE BlockBridge -----------------------------
(***************************************************************************)
(* The kernel side of the storage service's block transport: one request   *)
(* at a time on the virtio-block queue (kernel/src/service/block_bridge.rs, *)
(* kernel/src/device/virtio/block.rs).                                     *)
(*                                                                         *)
(* The device reads the descriptors and the data from memory the driver    *)
(* shares with it and reuses for every request, so it carries out whatever *)
(* that memory holds when it gets to it.  A deadline is the flag `late` of *)
(* the request in flight: the clock passes it at any time.  A process that *)
(* blocks re-enters with the same request (BlockedResume::RetrySyscall),   *)
(* so the request's id is left out.                                        *)
(***************************************************************************)
EXTENDS Integers

CONSTANT Nothing  \* no request

VARIABLES inFlight,   \* KernelBlockBackend.in_flight
          driver,     \* VirtioBlockDevice: busy = in_flight.is_some(), poisoned
          descriptor, \* the shared descriptors, header and DMA buffer
          device,     \* external: owns the descriptors?, posted result, interrupt raised
          media       \* external: what the device stores

bridgeVars == <<inFlight, driver, descriptor, device, media>>

\* The object store's two halves of the medium: a superblock each, with the generation
\* and the table of the objects, and the arena of payloads that belongs to it.
StoreSlots == {0, 1}

\* A half that was never formatted has no generation.
Blank == [generation |-> -1, objects |-> {}, payloads |-> {}]

BridgeInit ==
    /\ inFlight = Nothing
    /\ driver = [busy |-> FALSE, poisoned |-> FALSE]
    /\ descriptor = Nothing
    /\ device = [owned |-> FALSE, used |-> Nothing, irq |-> FALSE]
    /\ media = [s \in StoreSlots |-> Blank]

Resuming(c, r) == inFlight # Nothing /\ inFlight.owner = c /\ inFlight.request = r

-----------------------------------------------------------------------------
(* The driver. *)

\* Mutant: an abandoned request does not keep the queue from the next one.
IgnoresPoison(d) == ~d.busy

\* ensure_queue_available
QueueAvailable(d) == ~d.poisoned /\ ~d.busy

\* submit_rw, submit_flush: request r is written to the shared descriptors, which
\* are handed to the device.
Submitted(d, r) ==
    /\ driver' = [d EXCEPT !.busy = TRUE]
    /\ descriptor' = r

Completed == driver.busy /\ device.used # Nothing

\* take_completion with check_completion: a malformed used element poisons the queue.
Taken == [busy |-> FALSE, poisoned |-> driver.poisoned \/ device.used = "malformed"]

CompletionStatus == IF device.used = "ok" THEN "Ok" ELSE "Fault"

\* abandon_in_flight
Abandoned == [busy |-> FALSE, poisoned |-> driver.poisoned \/ driver.busy]

-----------------------------------------------------------------------------
(* step_request: one entry of the block request syscall by process c.      *)
(* live are the process instances that are alive.                          *)

\* Nobody will harvest the request in flight.
Orphaned(c, live) ==
    inFlight # Nothing /\ (inFlight.owner = c \/ inFlight.owner \notin live)

\* The request in flight is nobody's and complete, so c drains it.
Drains(c, live) == Orphaned(c, live) /\ Completed

\* No request is in flight, or it is drained or abandoned now.
MayStart(c, live) == inFlight # Nothing => inFlight.late \/ Drains(c, live)

\* The driver once the request in flight is out of the way.
Cleared(c, live) ==
    CASE inFlight = Nothing -> driver
      [] Drains(c, live) -> Taken
      [] OTHER -> Abandoned

UsedAfter(c, live) == IF Drains(c, live) THEN Nothing ELSE device.used

\* A completion of c's own request is handed to c.
Harvest(c, r, status) ==
    /\ Resuming(c, r)
    /\ Completed
    /\ status = CompletionStatus
    /\ inFlight' = Nothing
    /\ driver' = Taken
    /\ device' = [device EXCEPT !.used = Nothing]
    /\ UNCHANGED <<descriptor, media>>

\* c's own request is past its deadline and not complete.
GiveUp(c, r, status) ==
    /\ Resuming(c, r)
    /\ ~Completed
    /\ inFlight.late
    /\ status = "Fault"
    /\ inFlight' = Nothing
    /\ driver' = Abandoned
    /\ UNCHANGED <<descriptor, device, media>>

\* start_request that ends at once: a geometry request needs no device, and an
\* unavailable queue refuses the others.
Respond(c, r, live, status) ==
    /\ ~Resuming(c, r)
    /\ MayStart(c, live)
    /\ \/ r.op = "geometry" /\ status = "Ok"
       \/ r.op # "geometry" /\ ~QueueAvailable(Cleared(c, live)) /\ status = "Fault"
    /\ driver' = Cleared(c, live)
    /\ device' = [device EXCEPT !.used = UsedAfter(c, live)]
    /\ inFlight' = Nothing
    /\ UNCHANGED <<descriptor, media>>

\* start_request that submits: c waits for the completion or the deadline.
SubmitBlock(c, r, live) ==
    /\ ~Resuming(c, r)
    /\ MayStart(c, live)
    /\ r.op # "geometry"
    /\ QueueAvailable(Cleared(c, live))
    /\ Submitted(Cleared(c, live), r)
    /\ inFlight' = [owner |-> c, request |-> r, late |-> FALSE]
    /\ device' = [device EXCEPT !.owned = TRUE, !.used = UsedAfter(c, live)]
    /\ UNCHANGED media

\* Nothing to harvest and not late: c blocks.
MustWait(c, r, live) ==
    /\ inFlight # Nothing
    /\ ~inFlight.late
    /\ ~(Resuming(c, r) /\ Completed)
    /\ ~Drains(c, live)

-----------------------------------------------------------------------------
(* The clock and the device. *)

\* The deadline of the request in flight passes.
DeadlinePasses ==
    /\ inFlight # Nothing
    /\ ~inFlight.late
    /\ inFlight' = [inFlight EXCEPT !.late = TRUE]
    /\ UNCHANGED <<driver, descriptor, device, media>>

\* What a successful request leaves on the medium.  Payloads go by the request that
\* brought them.
Payloads(objects) == {e.request : e \in objects}

Stored(m, r) ==
    CASE r.op = "superblock" ->
           [m EXCEPT ![r.slot] = [generation |-> r.generation, objects |-> r.objects,
                                  payloads |-> m[r.slot].payloads]]
      [] r.op = "payloads" ->
           [m EXCEPT ![r.slot] = [generation |-> m[r.slot].generation, objects |-> m[r.slot].objects,
                                  payloads |-> Payloads(r.objects)]]
      [] OTHER -> m

\* The device carries out the request it finds in the shared memory, or fails it,
\* posts a used element and raises its interrupt.  Nobody ever takes the used
\* element of an abandoned request, so it is left out.
DeviceCompletes(result) ==
    /\ device.owned
    /\ device' = [owned |-> FALSE, used |-> IF driver.busy THEN result ELSE Nothing, irq |-> TRUE]
    /\ media' = IF result = "ok" THEN Stored(media, descriptor) ELSE media
    /\ UNCHANGED <<inFlight, driver, descriptor>>

\* The queue interrupt, whose handler wakes BLOCK_COMPLETION_KEY.
Interrupt ==
    /\ device.irq
    /\ device' = [device EXCEPT !.irq = FALSE]
    /\ UNCHANGED <<inFlight, driver, descriptor, media>>
=============================================================================
