------------------------------ MODULE NetBridge ------------------------------
(***************************************************************************)
(* The kernel's queue of network requests between client processes and the  *)
(* network service, and its table of the callers the service keeps state    *)
(* for (NetBridge in kernel/src/service/net_bridge.rs).  Operators of one    *)
(* bridge value each: its request slots, its holder entries, the service    *)
(* generation it serves, whether the service is blocked on the work key and *)
(* whether the network device holds a frame.  Request ids come from a 64-bit *)
(* counter that never repeats; here an id nobody remembers may be issued    *)
(* again.                                                                   *)
(***************************************************************************)
EXTENDS Integers, SequencesExt

CONSTANTS Pids,         \* the client processes
          SlotCount,    \* NETWORK_REQUEST_SLOTS
          HolderCount,  \* NET_HOLDER_SLOTS
          NoPid

NoSession == [gen |-> 0, index |-> 0]
NoAnswer == [kind |-> "none", session |-> NoSession]
Answer(kind) == [kind |-> kind, session |-> NoSession]

FreeSlot == [state |-> "Free", client |-> NoPid, id |-> 0, op |-> "none",
             session |-> NoSession, answer |-> NoAnswer, discard |-> FALSE]
FreeHolder == [state |-> "Free", caller |-> NoPid]

NewBridge == [slots |-> [i \in 1 .. SlotCount |-> FreeSlot],
              holders |-> [h \in 1 .. HolderCount |-> FreeHolder],
              gen |-> 0, asleep |-> FALSE, frame |-> FALSE]

SlotsIn(b, states) == {i \in 1 .. SlotCount : b.slots[i].state \in states}
HoldersIn(b, state) == {h \in 1 .. HolderCount : b.holders[h].state = state}
SlotsOf(b, id) == {i \in 1 .. SlotCount : b.slots[i].state # "Free" /\ b.slots[i].id = id}
SlotOf(b, id) == CHOOSE i \in SlotsOf(b, id) : TRUE

\* wake_net_service_work: the submit, exit and device paths wake the work key.
WakeWork(b) == [b EXCEPT !.asleep = FALSE]

\* admit_holder: an entry of a live caller is found again, a new one needs room.
IsHolder(b, p) == \E h \in HoldersIn(b, "Live") : b.holders[h].caller = p
CanAdmit(b, p) == IsHolder(b, p) \/ HoldersIn(b, "Free") # {}
Admit(b, p) ==
    IF IsHolder(b, p) THEN b
    ELSE [b EXCEPT !.holders[Min(HoldersIn(b, "Free"))] = [state |-> "Live", caller |-> p]]

\* submit: refused with QueueFull, and then nothing has changed, when the slots or
\* the holder entries are used up.
CanSubmit(b, p) == SlotsIn(b, {"Free"}) # {} /\ CanAdmit(b, p)
Submit(b, p, id, op, session) ==
    WakeWork([Admit(b, p) EXCEPT !.slots[Min(SlotsIn(b, {"Free"}))] =
                [FreeSlot EXCEPT !.state = "Pending", !.client = p, !.id = id,
                                 !.op = op, !.session = session]])

Release(b, i) == [b EXCEPT !.slots[i] = FreeSlot]

\* poll: a finished request hands its answer over and frees its slot.
Finished(b, id) == \E i \in SlotsOf(b, id) : b.slots[i].state = "Done"
Result(b, id) == b.slots[SlotOf(b, id)].answer
Consume(b, id) == Release(b, SlotOf(b, id))

\* discard_result: what is finished is freed now, the rest when it is completed.
Discard(b, id) ==
    IF SlotsOf(b, id) = {} THEN b
    ELSE IF Finished(b, id) THEN Consume(b, id)
    ELSE [b EXCEPT !.slots[SlotOf(b, id)].discard = TRUE]

\* Mutant: only requests count as work.
HasRequest(b) == SlotsIn(b, {"Pending"}) # {}

\* has_work: a request to take or an exit to announce.
HasWork(b) == SlotsIn(b, {"Pending"}) # {} \/ HoldersIn(b, "ExitPending") # {}

\* net_work_ready, for the mask the service passes
WorkReady(b) == HasWork(b) \/ b.frame

\* service_next: the first pending slot, not the oldest request.
NextSlot(b) == Min(SlotsIn(b, {"Pending"}))
Take(b) == [b EXCEPT !.slots[NextSlot(b)].state = "InService"]

\* Mutant: the answer is kept though the client gave the request up.
CompleteKeeping(b, id, answer) ==
    [b EXCEPT !.slots[SlotOf(b, id)].state = "Done", !.slots[SlotOf(b, id)].answer = answer]

\* service_complete: only a request that is still in service has a result.
CanComplete(b, id) == \E i \in SlotsOf(b, id) : b.slots[i].state = "InService"
Complete(b, id, answer) ==
    LET i == SlotOf(b, id)
    IN  IF b.slots[i].discard THEN Release(b, i)
        ELSE [b EXCEPT !.slots[i].state = "Done", !.slots[i].answer = answer]

\* pop_holder_exit: an exit that was popped and not acknowledged comes again.
NextExit(b) ==
    IF HoldersIn(b, "ExitPopped") # {} THEN HoldersIn(b, "ExitPopped")
    ELSE IF HoldersIn(b, "ExitPending") # {} THEN {Min(HoldersIn(b, "ExitPending"))}
    ELSE {}
PopExit(b, h) == [b EXCEPT !.holders[h].state = "ExitPopped"]

\* ack_holder_exit
AckExit(b) == [b EXCEPT !.holders[Min(HoldersIn(b, "ExitPopped"))] = FreeHolder]

\* mark_holder_exit: the entry of the holder is reused, so no exit is dropped.
MarkExit(b, p) ==
    LET marked == {h \in HoldersIn(b, "Live") : b.holders[h].caller = p}
        b2 == [b EXCEPT !.holders = [h \in 1 .. HolderCount |->
                 IF h \in marked THEN [b.holders[h] EXCEPT !.state = "ExitPending"] ELSE b.holders[h]]]
    IN  IF marked = {} THEN b ELSE WakeWork(b2)

\* reclaim_for_holder
Reclaim(b, p) ==
    [b EXCEPT !.slots = [i \in 1 .. SlotCount |->
        IF b.slots[i].client = p THEN FreeSlot ELSE b.slots[i]]]

\* requeue_in_service, of the exit of the service process
Requeue(b) ==
    WakeWork([b EXCEPT !.slots = [i \in 1 .. SlotCount |->
        IF b.slots[i].state = "InService" THEN [b.slots[i] EXCEPT !.state = "Pending"]
        ELSE b.slots[i]]])

\* shutdown_service answers every outstanding request with Reset, or frees it.
Outstanding(b) == SlotsIn(b, {"Pending", "InService"})
Failed(b) == {b.slots[i].id : i \in {j \in Outstanding(b) : ~b.slots[j].discard}}
Shutdown(b) ==
    [b EXCEPT !.asleep = FALSE, !.frame = FALSE, !.slots = [i \in 1 .. SlotCount |->
        IF i \notin Outstanding(b) THEN b.slots[i]
        ELSE IF b.slots[i].discard THEN FreeSlot
        ELSE [b.slots[i] EXCEPT !.state = "Done", !.answer = Answer("Reset")]]]

\* register_service_instance: the new instance knows no caller but those whose
\* requests are still queued for it.
Register(b) ==
    LET reset == [b EXCEPT !.gen = @ + 1, !.frame = FALSE,
                           !.holders = [h \in 1 .. HolderCount |-> FreeHolder]]
        AdmitQueued(acc, slot) == IF slot.state = "Pending" THEN Admit(acc, slot.client) ELSE acc
    IN  FoldLeft(AdmitQueued, reset, b.slots)
=============================================================================
