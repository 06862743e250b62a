------------------------ MODULE LifecycleController ------------------------
(***************************************************************************)
(* The kernel's lifecycle controller (kernel/src/service/control.rs): one  *)
(* record per service and a fixed array of events waiting to be polled.    *)
(* Its operations run with interrupts masked, so each is one step.         *)
(***************************************************************************)
EXTENDS ServiceLifecycle, Sequences, FiniteSetsExt

CONSTANTS
  Services,
  QueueSlots     \* SERVICE_PENDING_EVENTS

VARIABLES
  kern,    \* services: state, authoritative generation and live instance (0: none)
  queue    \* pending: an event or NoEvent in each slot

controllerVars == <<kern, queue>>

NoEvent == [service |-> "none", gen |-> 0, kind |-> "none"]
Event(s, gen, kind) == [service |-> s, gen |-> gen, kind |-> kind]

FreeIn(q) == {i \in DOMAIN q : q[i] = NoEvent}
EventsOf(q, s) == {i \in DOMAIN q : q[i].service = s}

ControllerInit ==
  /\ kern = [s \in Services |-> [state |-> "Declared", gen |-> 0, live |-> 0]]
  /\ queue = [i \in 1 .. QueueSlots |-> NoEvent]

(* push_pending: the first free slot, so a later event may sit before an
   earlier one. *)
Push(q, e) == [q EXCEPT ![Min(FreeIn(q))] = e]

(* The slots push_terminal_pending may overwrite when the queue is full. *)
Displaceable(q, e) ==
  {i \in DOMAIN q : q[i].service = e.service \/ q[i].kind \notin Terminal}

\* Mutant: a terminal event displaces whatever is in the first slot.
PushTerminalFirst(q, e) == IF FreeIn(q) # {} THEN Push(q, e) ELSE [q EXCEPT ![1] = e]

PushTerminal(q, e) ==
  IF FreeIn(q) # {} THEN Push(q, e)
  ELSE IF Displaceable(q, e) # {} THEN [q EXCEPT ![Min(Displaceable(q, e))] = e]
  ELSE [q EXCEPT ![1] = e]

(* notify_instance_ready, when the live instance reports in *)
NotifyReady(s) ==
  /\ kern[s].live # 0
  /\ AcceptsEvent(kern[s], kern[s].live, "Ready")
  /\ FreeIn(queue) # {}
  /\ queue' = Push(queue, Event(s, kern[s].live, "Ready"))
  /\ kern' = [kern EXCEPT ![s] = ApplyEvent(@, "Ready")]

(* notify_faulted_live_process and notify_exited_live_process, from the
   exception handler and the exit path of the live instance *)
NotifyTerminal(s, kind) ==
  /\ kern[s].live # 0
  /\ AcceptsEvent(kern[s], kern[s].live, kind)
  /\ queue' = PushTerminal(queue, Event(s, kern[s].live, kind))
  /\ kern' = [kern EXCEPT ![s] = [ApplyEvent(@, kind) EXCEPT !.live = 0]]

(* handle_control_request *)
CanStart(s) == AcceptsControl(kern[s], "Start") /\ kern[s].live = 0
Started(s) == LET r == ApplyControl(kern[s], "Start") IN [r EXCEPT !.live = r.gen]

(* Restart tears down the live instance, if any. *)
Restarted(s) == [ApplyControl(kern[s], "Restart") EXCEPT !.live = 0]
============================================================================
