-------------------------- MODULE ServiceLifecycle --------------------------
(***************************************************************************)
(* The lifecycle rules that the kernel and the supervisor share            *)
(* (service-lifecycle/src/state.rs).  A record has at least the fields     *)
(* state and gen; an instance of a service is identified by the generation *)
(* it was started under, since every successful spawn bumps it.            *)
(***************************************************************************)
EXTENDS Integers

CONSTANT MaxGeneration   \* u32::MAX

States == {"Declared", "Starting", "Running", "Stopping", "Exited", "Faulted", "RestartPending"}

(* Stop and Terminate are requests no component modelled here issues. *)
ControlTable ==
  [Start   |-> [from |-> {"Declared", "Exited", "Faulted", "RestartPending"}, to |-> "Starting"],
   Restart |-> [from |-> {"Faulted", "Exited", "Running"}, to |-> "RestartPending"]]

EventTable ==
  [InstanceSpawned |-> [from |-> {"Starting"}, to |-> "Starting"],
   Ready           |-> [from |-> {"Starting"}, to |-> "Running"],
   Faulted         |-> [from |-> {"Starting", "Running"}, to |-> "Faulted"],
   Exited          |-> [from |-> {"Starting", "Running", "Stopping"}, to |-> "Exited"]]

Terminal == {"Faulted", "Exited"}

AcceptsControl(r, kind) ==
  /\ r.state \in ControlTable[kind].from
  /\ kind = "Start" => r.gen < MaxGeneration

ApplyControl(r, kind) ==
  [r EXCEPT !.state = ControlTable[kind].to,
            !.gen = IF kind = "Start" THEN @ + 1 ELSE @]

AcceptsEvent(r, gen, kind) == gen = r.gen /\ r.state \in EventTable[kind].from

ApplyEvent(r, kind) == [r EXCEPT !.state = EventTable[kind].to]
=============================================================================
