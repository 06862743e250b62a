----------------------------- MODULE ObjectQueue -----------------------------
(***************************************************************************)
(* The kernel's queue of persistent-object requests between client          *)
(* processes and the storage service (ObjectRequestQueue in                 *)
(* kernel/src/capability/object.rs).  Operators of one queue value each;    *)
(* the authorization that precedes them is CapabilitySpace's.  The payload  *)
(* of a write is named by its request.                                      *)
(***************************************************************************)
EXTENDS Integers, Sequences, FiniteSetsExt

CONSTANTS SlotCount,  \* OBJECT_REQUEST_SLOTS
          NoClient

VARIABLES slots, nextRequest  \* ObjectRequestQueue

queueVars == <<slots, nextRequest>>

SlotIndices == 1 .. SlotCount

FreeSlot == [state |-> "Free", client |-> NoClient, id |-> 0, op |-> "none",
             object |-> 0, status |-> "none"]

QueueInit ==
    /\ slots = [i \in SlotIndices |-> FreeSlot]
    /\ nextRequest = 1

InState(state) == {i \in SlotIndices : slots[i].state = state}

\* submit: the first free slot, under an id that was never used.
Enqueue(c, op, o) ==
    /\ InState("Free") # {}
    /\ slots' = [slots EXCEPT ![Min(InState("Free"))] =
                   [state |-> "Pending", client |-> c, id |-> nextRequest, op |-> op,
                    object |-> o, status |-> "none"]]
    /\ nextRequest' = nextRequest + 1

SlotOf(id) == {i \in SlotIndices : slots[i].id = id}

\* service_next: the first pending slot, not the oldest request.
Dequeue(i) ==
    /\ i \in InState("Pending")
    /\ \A j \in InState("Pending") : i <= j
    /\ slots' = [slots EXCEPT ![i].state = "InService"]
    /\ UNCHANGED nextRequest

\* service_complete answers a request that is still in service under this id.
Completable(id) == SlotOf(id) \cap InState("InService")

Answered(id, status) ==
    [i \in SlotIndices |-> IF i \in Completable(id)
                           THEN [slots[i] EXCEPT !.state = "Done", !.status = status]
                           ELSE slots[i]]

\* poll of a finished request hands its status over and frees the slot.
Consumed(i) == [slots EXCEPT ![i] = FreeSlot]

\* Mutant: a request that was answered and not yet polled is handed out again.
RequeueAnswered(q) == [i \in SlotIndices |-> IF q[i].state \in {"InService", "Done"}
                                             THEN [q[i] EXCEPT !.state = "Pending"] ELSE q[i]]

\* requeue_in_service
Requeue(q) == [i \in SlotIndices |-> IF q[i].state = "InService"
                                     THEN [q[i] EXCEPT !.state = "Pending"] ELSE q[i]]

\* reclaim_for_holder
Reclaim(q, c) == [i \in SlotIndices |-> IF q[i].client = c THEN FreeSlot ELSE q[i]]
=============================================================================
