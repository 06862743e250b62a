------------------------------- MODULE Network -------------------------------
(***************************************************************************)
(* Linux processes with stream sockets, the kernel's network bridge and the  *)
(* network service, which may crash, be restarted or terminated, and be      *)
(* started again.                                                            *)
(***************************************************************************)
EXTENDS LinuxSockets, NetService

CONSTANTS MaxIds,  \* request ids in use at one time
          Bounds   \* each a mix: the processes that are launched, the calls they make,
                   \* the number of service instances and whether frames arrive

VARIABLE bound     \* the mix of this behaviour

vars == <<bridge, sockets, procs, service>>

Init == ClientInit /\ service = FreshService /\ bound \in Bounds

\* The next request id: one that nothing remembers (the choice follows the slot, so
\* that states differ by less).
Remembered == {bridge.slots[i].id : i \in 1 .. SlotCount} \cup SocketIds \cup ServiceIds
FreshId ==
    LET i == Min(SlotsIn(bridge, {"Free"}) \cup {SlotCount})
    IN  i + SlotCount * Min({n \in 0 .. MaxIds \div SlotCount : i + SlotCount * n \notin Remembered})

Does(call) == call \in bound.calls

ClientStep(p) ==
    /\ \/ Socket(p, FreshId)
       \/ Does("connect") /\ (Connect(p, FreshId) \/ ConnectTimeout(p))
       \/ Does("send") /\ Send(p, FreshId)
       \/ Does("read") /\ \E nonblock \in BOOLEAN : Read(p, FreshId, nonblock)
       \/ Does("poll") /\ Poll(p, FreshId)
       \/ Does("close") /\ Close(p, FreshId)
    /\ UNCHANGED <<service, bound>>

ProcessStep(p) == p \in bound.pids /\ (Launch(p) \/ Exit(p, FreshId)) /\ UNCHANGED <<service, bound>>

Running(pc) == service.up /\ ~bridge.asleep /\ service.pc = pc /\ service.outbox = <<>>

\* NET_SUBOP_POP_HOLDER_EXIT and the cleanup for the caller it returns
DrainExit ==
    /\ Running("exits")
    /\ IF NextExit(bridge) = {}
       THEN service' = [service EXCEPT !.pc = "pump"] /\ UNCHANGED bridge
       ELSE \E h \in NextExit(bridge) :
              /\ bridge' = PopExit(bridge, h)
              /\ service' = [Forget(service, bridge.holders[h].caller) EXCEPT !.pc = "ack"]
    /\ UNCHANGED <<sockets, procs>>

\* NET_SUBOP_ACK_HOLDER_EXIT
AckHolderExit ==
    /\ Running("ack")
    /\ bridge' = AckExit(bridge)
    /\ service' = [service EXCEPT !.pc = "exits"]
    /\ UNCHANGED <<sockets, procs>>

\* drain_ingress and pump_parked_requests; the deadlines of some connects may have passed
Pump ==
    /\ Running("pump")
    /\ \E expired \in SUBSET {k \in 1 .. ParkedCount : service.parked[k].work = "connect"} :
       \E fed \in Fed(service, bridge.frame) :
         LET s == Pumped(fed, expired)
         IN  service' = [s EXCEPT !.pc = "next", !.progressed = (s.outbox # <<>>)]
    /\ bridge' = [bridge EXCEPT !.frame = FALSE]
    /\ UNCHANGED <<sockets, procs>>

\* Mutant: the prefetch moves and the poll(2) of its owner sleeps on.
DeliveredWithoutPoll(b, id) ==
    LET owning == {i \in 1 .. SocketCount : sockets[i].state # "Closed" /\ sockets[i].pendingRx = id}
        Moved(i) == CompletePrefetch(b, sockets[i])
    IN  IF owning = {}
        THEN bridge' = b /\ sockets' = sockets /\ procs' = Woken(procs, {ReqKey(id)})
        ELSE \E i \in owning :
               /\ bridge' = Moved(i).b
               /\ sockets' = [sockets EXCEPT ![i] = Moved(i).s]
               /\ procs' = Woken(procs, {ReqKey(id), SockKey(i)})

\* deliver_prefetch_receive: wakes who waits for the request; a prefetch moves into
\* its socket, whose reader and whose owner's poll(2) wake.
Delivered(b, id) ==
    LET owning == {i \in 1 .. SocketCount : sockets[i].state # "Closed" /\ sockets[i].pendingRx = id}
        Moved(i) == CompletePrefetch(b, sockets[i])
    IN  IF owning = {}
        THEN bridge' = b /\ sockets' = sockets /\ procs' = Woken(procs, {ReqKey(id)})
        ELSE \E i \in owning :
               /\ bridge' = Moved(i).b
               /\ sockets' = [sockets EXCEPT ![i] = Moved(i).s]
               /\ procs' = Woken(procs, {ReqKey(id), SockKey(i), PollKey(sockets[i].owner)})

\* NET_SUBOP_SERVICE_COMPLETE; the answer to a request whose client has exited is
\* refused, and the service does not ask.
ServiceComplete ==
    /\ service.up /\ ~bridge.asleep /\ service.outbox # <<>>
    /\ LET sent == Head(service.outbox)
       IN  IF CanComplete(bridge, sent.id)
           THEN Delivered(Complete(bridge, sent.id, sent.answer), sent.id)
           ELSE UNCHANGED clientVars
    /\ service' = [service EXCEPT !.outbox = Tail(@)]

\* NET_SUBOP_SERVICE_NEXT and the handling of the request it returns
ServiceNext ==
    /\ Running("next")
    /\ IF SlotsIn(bridge, {"Pending"}) = {}
       THEN /\ service' = [service EXCEPT !.pc = IF service.progressed THEN "exits" ELSE "wait"]
            /\ UNCHANGED bridge
       ELSE \E fails \in BOOLEAN :
              /\ service' = [Handle(service, bridge, bridge.slots[NextSlot(bridge)], fails)
                               EXCEPT !.pc = "exits"]
              /\ bridge' = Take(bridge)
    /\ UNCHANGED <<sockets, procs>>

\* NET_SUBOP_WAIT_WORK: the check and the block are one step.
ServiceWait ==
    /\ Running("wait")
    /\ bridge' = [bridge EXCEPT !.asleep = ~WorkReady(bridge)]
    /\ service' = [service EXCEPT !.pc = "exits"]
    /\ UNCHANGED <<sockets, procs>>

\* The deadline of the wait passes.
ServiceDeadline ==
    /\ service.up /\ bridge.asleep /\ HasDeadline
    /\ bridge' = WakeWork(bridge)
    /\ UNCHANGED <<sockets, procs, service>>

\* The receive interrupt of the network device wakes the work key.
FrameArrives ==
    /\ bound.frames /\ service.up /\ ~bridge.frame
    /\ bridge' = WakeWork([bridge EXCEPT !.frame = TRUE])
    /\ UNCHANGED <<sockets, procs, service>>

\* The service process ends by itself or is torn down by a Restart: its teardown puts
\* the requests it had taken back (recover_net_queue_for_service_holder_exit).
Crash ==
    /\ service.up /\ bridge.gen < bound.gens
    /\ service' = Down
    /\ bridge' = Requeue(bridge)
    /\ UNCHANGED <<sockets, procs>>

\* terminate_service, of the Stop and Terminate requests: every outstanding request
\* fails before the process is torn down, and only its request key is woken.
Terminate ==
    /\ service.up /\ bridge.gen < bound.gens
    /\ service' = Down
    /\ bridge' = Shutdown(bridge)
    /\ procs' = Woken(procs, {ReqKey(id) : id \in Failed(bridge)})
    /\ UNCHANGED sockets

\* spawn of a new instance
StartService ==
    /\ ~service.up
    /\ service' = FreshService
    /\ bridge' = Register(bridge)
    /\ UNCHANGED <<sockets, procs>>

ServiceStep == DrainExit \/ AckHolderExit \/ Pump \/ ServiceComplete \/ ServiceNext \/ ServiceWait

Next ==
    \/ \E p \in Pids : ClientStep(p) \/ ProcessStep(p)
    \/ /\ \/ ServiceStep \/ ServiceDeadline \/ FrameArrives
          \/ Crash \/ Terminate \/ StartService
       /\ UNCHANGED bound

\* The service is runnable and gets the processor again and again, and a new instance
\* is started: by the supervisor after a crash, on a Start request after a
\* termination, which the supervisor does not make up for by itself.
Spec == Init /\ [][Next]_<<vars, bound>> /\ WF_vars(ServiceStep) /\ WF_vars(StartService)
-----------------------------------------------------------------------------
(* Properties. *)

Awaited(p, id) ==
    \E i \in Outstanding(bridge) :
      bridge.slots[i].id = id /\ bridge.slots[i].client = p /\ ~bridge.slots[i].discard

\* The three ways in which a call sleeps on a stream and no prefetch will end it:
\* the stream is not connected (arm_receive does nothing), poll(2) could not arm one
\* (fd_readiness ignores the error), or shutdown_service failed the one there was
\* (terminate_service wakes request keys only).
NothingToAwait(p, s) ==
    \/ s.state # "Connected"
    \/ procs[p].unarmed
    \/ Finished(bridge, s.pendingRx) /\ Result(bridge, s.pendingRx).kind = "Reset"

\* A blocked call has something that will wake it: a request of its own that is
\* outstanding, or, for a reader and for a poller of a stream that has nothing to
\* read, an outstanding prefetch (tcp.rs:3-6, NETWORK.md:226).  The code does not
\* keep this in the three cases of NothingToAwait, whose sleeper nothing wakes.  The
\* service sleeps only while there is no request, exit or frame.
NoLostWakeup ==
    /\ \A p \in Pids :
         LET key == procs[p].on
             s == sockets[procs[p].sock]
         IN  /\ key[1] = "request" => Awaited(p, key[2])
             /\ key[1] \in {"socket", "poll"} =>
                  ~Readable(s) /\ (Awaited(p, s.pendingRx) \/ NothingToAwait(p, s))
    /\ bridge.asleep => service.up /\ ~WorkReady(bridge)

\* Whatever the service holds for a caller, a session or a parked request, the
\* kernel has the caller on record, so that its exit will reach the service
\* (admit_holder, mark_holder_exit, register_service_instance).
CallersOnRecord ==
    \A p \in Pids :
      (\/ \E i \in 1 .. SessionCount : service.sessions[i].owner = p
       \/ \E k \in 1 .. ParkedCount : service.parked[k].caller = p) =>
        \E h \in 1 .. HolderCount : bridge.holders[h].state # "Free" /\ bridge.holders[h].caller = p

\* No request slot is lost: each belongs to a live process and is either awaited
\* by a socket of it or freed on completion, so never kept with its answer; every request a socket awaits has its
\* slot, and a request in service is one the service still remembers.
RequestsAccounted ==
    /\ \A i \in SlotsIn(bridge, {"Pending", "InService", "Done"}) :
         LET slot == bridge.slots[i]
         IN  /\ procs[slot.client].state = "live"
             /\ slot.discard = ~\E k \in 1 .. SocketCount :
                  sockets[k].owner = slot.client /\ slot.id \in {sockets[k].inflight, sockets[k].pendingRx}
             /\ slot.state = "Done" => ~slot.discard
             /\ slot.state = "InService" => service.up /\ slot.id \in ServiceIds
    /\ \A k \in 1 .. SocketCount : \A id \in {sockets[k].inflight, sockets[k].pendingRx} \ {0} :
         procs[sockets[k].owner].state = "live" => SlotsOf(bridge, id) # {}

\* The books of the bridge, of the sockets and of the service agree, through crashes,
\* terminations and exits at any moment: the two facts above.
BridgeAccounted == CallersOnRecord /\ RequestsAccounted

Kept(p) ==
    \/ \E h \in 1 .. HolderCount : bridge.holders[h].caller = p
    \/ \E i \in 1 .. SessionCount : service.sessions[i].owner = p

\* The service learns of every exit and lets go of all the process had: again and
\* again there is a state in which it keeps nothing of an exited process.
ExitReclaimed == []<>(\A p \in Pids : procs[p].state = "gone" => ~Kept(p))
=============================================================================
