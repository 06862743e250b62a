----------------------------- MODULE Supervisor -----------------------------
(***************************************************************************)
(* The userspace supervisor (supervisor/src/convergence.rs and the modules *)
(* it composes) over the kernel's lifecycle controller.  The supervisor is *)
(* one thread whose handlers call each other; its call stack is explicit,  *)
(* and a step runs from one system call to the next, so the services' own  *)
(* faults, exits and reports fall between any two of its system calls.     *)
(*                                                                         *)
(* stack holds the calls still to be made, the next one first:             *)
(*   "Service"  drain_service of the main loop, which ignores errors       *)
(*   "Drain"    drain_events; "DrainMore" its later iterations             *)
(*   "Fail"     on_health_failure                                          *)
(*   "Drive"    drive_pending_restarts, from index i on                    *)
(*   "Start"    issue_control(Start)                                       *)
(***************************************************************************)
EXTENDS LifecycleController, SequencesExt

CONSTANTS
  DependsOn,      \* service -> the services it needs Running
  StartTries,     \* how often the main program tries to start a blocked service (512)
  SpawnFails,     \* whether a spawn may fail
  Systems         \* the systems to check, each as variable system describes

ASSUME SupervisorConstants ==
  /\ DependsOn \in [Services -> SUBSET Services]
  /\ SpawnFails \in BOOLEAN /\ StartTries \in Nat \ {0}
  /\ \A y \in Systems :
       /\ IsInjective(y.order) /\ Range(y.order) \subseteq Services /\ DependsOn[y.order[1]] = {}
       /\ y.statuses \subseteq {"Ok", "Unknown", "Unhealthy"}

StableReports == 2   \* STABLE_HEALTH_REPORTS_REQUIRED

VARIABLES
  inbox,     \* SyscallLifecycleControl::pending: events returned by control calls
  reg,       \* ServiceRegistry: state, generation, active instance (0: none)
  health,    \* ServiceHealthTracker: watched instance, watch state, deadline
  rec,       \* RecoverySlot
  now,
  stack,
  started,   \* services of Order the main program has started
  tries,     \* attempts at the next one that found it blocked
  todo,      \* services the main program drains before it goes on
  dead,      \* the main program gave up (fail)
  launches,  \* history: instances started since the attempts were last reset
  system     \* the member of Systems that runs; it never changes

localVars == <<inbox, reg, health, rec>>
mainVars == <<now, started, tries, todo>>
vars == <<kern, queue, inbox, reg, health, rec, now, stack, started, tries, todo, dead, launches>>

Order == system.order            \* the services in registration order
MaxAttempts == system.attempts   \* BoundedRestart::max_attempts; 0 is RestartPolicy::Never
Backoff == system.backoff        \* BoundedRestart::backoff_base_ticks
Period == system.period          \* LivenessConfig::report_period_ticks
MaxTime == system.time           \* u64::MAX, where ticks_add saturates
Statuses == system.statuses      \* the statuses services report

Never == MaxTime + 1
ticks_add(base, delta) == Min({base + delta, MaxTime})

FailOf(s, gen) == [op |-> "Fail", service |-> s, index |-> gen]
Frame(op, s) == [op |-> op, service |-> s, index |-> 0]
DriveFrom(i) == [op |-> "Drive", service |-> Order[1], index |-> i]

Init ==
  /\ system \in Systems
  /\ ControllerInit
  /\ inbox = [i \in 1 .. Len(Order) |-> NoEvent]
  /\ reg = [s \in Services |-> [state |-> "Declared", gen |-> 0, active |-> 0]]
  /\ health = [s \in Services |-> [gen |-> 0, watch |-> "None", deadline |-> Never]]
  /\ rec = [s \in Services |-> [attempts |-> 0, pending |-> FALSE, notBefore |-> 0,
                                scheduled |-> 0, reports |-> 0, failed |-> 0]]
  /\ now = 0 /\ stack = << >> /\ started = 0 /\ tries = 0 /\ todo = << >> /\ dead = FALSE
  /\ launches = [s \in Services |-> 0]

-----------------------------------------------------------------------------
(* An error returns through every caller up to drain_service; without one the
   main program fails. *)
Raise ==
  LET C == {i \in DOMAIN stack : stack[i].op = "Service"}
  IN  IF C = {} THEN stack' = << >> /\ dead' = TRUE
                ELSE stack' = SubSeq(stack, Min(C), Len(stack)) /\ UNCHANGED dead

Call(frames) == stack' = frames \o Tail(stack) /\ UNCHANGED dead

(* evaluate_start_readiness *)
Blocked(s) ==
  \E d \in DependsOn[s] : reg[d].state # "Running" \/ health[d].watch = "Failed"

(* issue_control(Start): the kernel's reply goes to the inbox, then the
   registry follows. *)
StartService(s) ==
  \/ /\ CanStart(s)
     /\ kern' = [kern EXCEPT ![s] = Started(s)]
     /\ inbox' = Push(inbox, Event(s, kern[s].gen + 1, "InstanceSpawned"))
     /\ launches' = [launches EXCEPT ![s] = @ + 1]
     /\ IF AcceptsControl(reg[s], "Start")
        THEN /\ reg' = [reg EXCEPT ![s] = [ApplyControl(@, "Start") EXCEPT !.active = 0]]
             /\ Call(<< >>)
        ELSE Raise /\ UNCHANGED reg
     /\ UNCHANGED <<queue, health, rec>>
  \/ /\ ~CanStart(s) \/ SpawnFails
     /\ Raise
     /\ UNCHANGED <<controllerVars, localVars, launches>>

-----------------------------------------------------------------------------
(* RecoveryRuntime::on_failure, with the attempt on_health_failure records;
   failed stands for failed_pid *)
OnFailure(r, failed) ==
  IF r.attempts >= MaxAttempts
  THEN [r EXCEPT !.failed = failed, !.pending = FALSE]
  ELSE [r EXCEPT !.failed = failed, !.pending = TRUE, !.scheduled = r.attempts + 1,
                 !.notBefore = ticks_add(now, Backoff * r.attempts)]

\* Mutant: a failure leaves the restart it caused unscheduled.
FailUnscheduled(s, gen) ==
  /\ Call(<<DriveFrom(1)>>)
  /\ UNCHANGED <<controllerVars, localVars, launches>>

(* on_health_failure: without an explicit instance (gen 0) the one that failed
   is the active one of the registry *)
Fail(s, gen) ==
  /\ rec' = [rec EXCEPT ![s] = OnFailure(@, IF gen # 0 THEN gen ELSE reg[s].active)]
  /\ Call(<<DriveFrom(1)>>)
  /\ UNCHANGED <<controllerVars, inbox, reg, health, launches>>

Due(i) == rec[Order[i]].pending /\ now >= rec[Order[i]].notBefore /\ ~Blocked(Order[i])

\* Mutant: record_attempt_started is forgotten.
AttemptUncounted(r) == [r EXCEPT !.pending = FALSE]

\* Mutant: clear_pending_after_attempt is forgotten.
AttemptStaysPending(r) == [r EXCEPT !.attempts = r.scheduled]

(* record_attempt_started, clear_pending_after_attempt *)
Attempted(r) == [r EXCEPT !.attempts = r.scheduled, !.pending = FALSE]

(* drive_pending_restarts and try_execute_restart, up to the Restart request
   of issue_restart_sequence and the registry's copy of it *)
Drive(first) ==
  LET D == {i \in first .. Len(Order) : Due(i)} IN
  \/ /\ D = {}
     /\ Call(<< >>)
     /\ UNCHANGED <<controllerVars, localVars, launches>>
  \/ /\ D # {}
     /\ LET i == Min(D)
            s == Order[i]
        IN  /\ rec' = [rec EXCEPT ![s] = Attempted(@)]
            /\ IF AcceptsControl(kern[s], "Restart")
               THEN /\ kern' = [kern EXCEPT ![s] = Restarted(s)]
                    /\ IF AcceptsControl(reg[s], "Restart")
                       THEN /\ reg' = [reg EXCEPT ![s] = [ApplyControl(@, "Restart") EXCEPT !.active = 0]]
                            /\ Call(<<Frame("Start", s), Frame("Drain", s), DriveFrom(i + 1)>>)
                       ELSE Raise /\ UNCHANGED reg
               ELSE Raise /\ UNCHANGED <<kern, reg>>
     /\ UNCHANGED <<queue, inbox, health, launches>>
-----------------------------------------------------------------------------
(* ServiceLifecycleRecord::apply_event: an event of another instance is refused *)
RegistryAccepts(s, e) ==
  /\ reg[s].active \in {0, e.gen}
  /\ AcceptsEvent(reg[s], e.gen, e.kind)

(* handle_lifecycle_event, up to the calls it makes; rest is its caller.  An
   event the registry refuses changes nothing. *)
HandleEvent(s, e, rest) ==
  \/ /\ ~RegistryAccepts(s, e)
     /\ Call(rest)
     /\ UNCHANGED <<reg, health, rec>>
  \/ /\ RegistryAccepts(s, e)
     /\ e.kind = "InstanceSpawned"
     /\ reg' = [reg EXCEPT ![s] = [ApplyEvent(@, e.kind) EXCEPT !.active = e.gen]]
     /\ health' = [health EXCEPT ![s] = [gen |-> e.gen, watch |-> "None",
                                         deadline |-> ticks_add(now, Period)]]
     /\ rec' = [rec EXCEPT ![s].reports = 0]
     /\ Call(<<Frame("Drain", s), DriveFrom(1)>> \o rest)
  \/ /\ RegistryAccepts(s, e)
     /\ e.kind = "Ready"
     /\ reg' = [reg EXCEPT ![s] = ApplyEvent(@, e.kind)]
     /\ Call(<<DriveFrom(1)>> \o rest)
     /\ UNCHANGED <<health, rec>>
  \/ /\ RegistryAccepts(s, e)
     /\ e.kind \in Terminal
     /\ reg' = [reg EXCEPT ![s] = [ApplyEvent(@, e.kind) EXCEPT !.active = 0]]
     /\ rec' = [rec EXCEPT ![s].reports = 0]
     /\ IF health[s].gen = e.gen
        THEN /\ health' = [health EXCEPT ![s].watch = "Failed", ![s].deadline = Never]
             /\ Call(<<FailOf(s, e.gen), DriveFrom(1)>> \o rest)
        ELSE Call(<<DriveFrom(1)>> \o rest) /\ UNCHANGED health

(* poll_event: the inbox first, then the kernel; a full step of drain_events
   or drain_service *)
PollInbox(s, rest) ==
  /\ EventsOf(inbox, s) # {}
  /\ LET i == Min(EventsOf(inbox, s))
     IN  inbox' = [inbox EXCEPT ![i] = NoEvent] /\ HandleEvent(s, inbox[i], rest)
  /\ UNCHANGED <<controllerVars, launches>>

PollKernel(s, rest) ==
  /\ EventsOf(inbox, s) = {}
  /\ EventsOf(queue, s) # {}
  /\ LET i == Min(EventsOf(queue, s))
     IN  queue' = [queue EXCEPT ![i] = NoEvent] /\ HandleEvent(s, queue[i], rest)
  /\ UNCHANGED <<kern, inbox, launches>>

PollNothing(s) ==
  /\ EventsOf(inbox, s) \cup EventsOf(queue, s) = {}
  /\ Call(<< >>)
  /\ UNCHANGED <<controllerVars, localVars, launches>>

Poll(s, rest) == PollInbox(s, rest) \/ PollKernel(s, rest) \/ PollNothing(s)

(* drain_events stops early once the service is Running *)
DrainMore(s) ==
  \/ reg[s].state # "Running" /\ Poll(s, <<Frame("DrainMore", s)>>)
  \/ /\ reg[s].state = "Running"
     /\ Call(<< >>)
     /\ UNCHANGED <<controllerVars, localVars, launches>>

Step ==
  /\ stack # << >>
  /\ LET f == Head(stack)
         s == f.service
     IN  \/ f.op = "Service" /\ Poll(s, <<Frame("Service", s)>>)
         \/ f.op = "Drain" /\ Poll(s, <<Frame("DrainMore", s)>>)
         \/ f.op = "DrainMore" /\ DrainMore(s)
         \/ f.op = "Fail" /\ Fail(s, f.index)
         \/ f.op = "Drive" /\ Drive(f.index)
         \/ f.op = "Start" /\ StartService(s)
  /\ UNCHANGED mainVars
-----------------------------------------------------------------------------
(* The main program of recovery_userspace.rs: start the services in order,
   retrying a bounded number of times while a dependency blocks, then advance
   the clock and drain every
   service twice, over and over. *)
Idle == stack = << >> /\ ~dead

(* request_start, and the drain_service that follows it *)
MainStart ==
  /\ Idle /\ todo = << >> /\ started < Len(Order)
  /\ LET s == Order[started + 1]
     IN  \/ /\ Blocked(s)
            /\ tries' = tries + 1
            /\ dead' = (tries' = StartTries)
            /\ todo' = SubSeq(Order, 1, started)
            /\ UNCHANGED <<stack, started>>
         \/ /\ ~Blocked(s)
            /\ todo' = <<s>>
            /\ started' = started + 1
            /\ tries' = 0 /\ UNCHANGED dead
            /\ stack' = <<Frame("Start", s), Frame("Drain", s)>>
  /\ UNCHANGED <<controllerVars, localVars, launches, now>>

Late == {s \in Services : health[s].watch # "Failed" /\ health[s].deadline <= now'}

(* advance_ticks: poll_timeouts marks every late instance before the first
   failure is handled *)
MainAdvance ==
  /\ Idle /\ todo = << >> /\ started = Len(Order)
  /\ now' \in {now, Min({now + 1, MaxTime})}
  /\ todo' = Reverse(Order) \o Reverse(Order)
  /\ health' = [s \in Services |-> IF s \in Late
                                   THEN [health[s] EXCEPT !.watch = "Failed", !.deadline = Never]
                                   ELSE health[s]]
  /\ stack' = [i \in 1 .. Cardinality(Late) |->
                 Frame("Fail", SelectSeq(Order, LAMBDA s : s \in Late)[i])] \o <<DriveFrom(1)>>
  /\ UNCHANGED <<controllerVars, inbox, reg, rec, launches, started, tries, dead>>

MainDrain ==
  /\ Idle /\ todo # << >>
  /\ stack' = <<Frame("Service", Head(todo))>>
  /\ todo' = Tail(todo)
  /\ UNCHANGED <<controllerVars, localVars, launches, now, started, tries, dead>>

Main == Step \/ MainStart \/ MainAdvance \/ MainDrain

(* a report that counts: the second one resets the attempts *)
AfterReport(r) ==
  IF r.reports + 1 >= StableReports
  THEN [r EXCEPT !.reports = StableReports, !.attempts = 0, !.pending = FALSE,
                 !.notBefore = 0, !.scheduled = 0, !.failed = 0]
  ELSE [r EXCEPT !.reports = @ + 1]

(* apply_health_report, for a report of any instance started so far *)
Report(s, gen, status) ==
  /\ Idle
  /\ gen \in 1 .. kern[s].gen
  /\ gen = health[s].gen
  /\ IF status = "Unhealthy"
     THEN /\ health' = [health EXCEPT ![s].watch = "Failed", ![s].deadline = Never]
          /\ stack' = <<Frame("Fail", s)>>
          /\ UNCHANGED <<rec, launches>>
     ELSE /\ health' = [health EXCEPT ![s].deadline = ticks_add(now, Period),
                          ![s].watch = IF status = "Ok" \/ @ = "None" THEN "Healthy" ELSE @]
          /\ rec' = [rec EXCEPT ![s] = AfterReport(@)]
          /\ launches' = IF rec[s].reports + 1 >= StableReports
                         THEN [launches EXCEPT ![s] = 1] ELSE launches
          /\ UNCHANGED stack
  /\ UNCHANGED <<controllerVars, inbox, reg, now, started, tries, todo, dead>>

Instance(s) ==
  /\ NotifyReady(s) \/ \E kind \in Terminal : NotifyTerminal(s, kind)
  /\ UNCHANGED <<localVars, mainVars, stack, dead, launches>>

Next ==
  /\ UNCHANGED system
  /\ \/ Main
     \/ \E s \in Services : Instance(s) \/ \E g \in 1 .. MaxGeneration, st \in Statuses : Report(s, g, st)

(* The supervisor is an ordinary runnable thread, so the scheduler keeps
   running it: a handler returns, and reports do not keep the main program from
   its next statement.  Its clock follows real time. *)
Fairness ==
  /\ WF_vars(Step) /\ SF_vars(MainStart \/ MainDrain \/ MainAdvance)
  /\ SF_vars(MainAdvance /\ now' > now)

Spec == Init /\ [][Next]_<<vars, system>> /\ Fairness
-----------------------------------------------------------------------------
(* Properties. *)

(* The kernel has an instance on record only while that instance may fault or
   exit: publishing its end is a legal transition, which the exception handler
   relies on (it stops the kernel otherwise). *)
EndIsPublishable ==
  \A s \in Services : kern[s].live # 0 =>
    /\ kern[s].live = kern[s].gen
    /\ \A kind \in Terminal : AcceptsEvent(kern[s], kern[s].live, kind)

(* Whatever the order in which the fixed slots of the kernel queue hand out
   events, and however full they get, the supervisor can still learn that an
   instance it believes to be up has ended. *)
FailureQueued ==
  \A s \in Services :
    (~dead /\ kern[s].state \in Terminal /\ reg[s].state \in {"Starting", "Running"}) =>
      \E i \in EventsOf(queue, s) : queue[i].gen = kern[s].gen /\ queue[i].kind \in Terminal

(* The registry never runs ahead of the kernel: it follows the same instance,
   calls it Running only after the kernel did, and calls it ended only when the
   kernel has no instance left. *)
RegistryHonest ==
  \A s \in Services :
    /\ reg[s].gen = kern[s].gen
    /\ reg[s].state = "Running" => kern[s].state \notin {"Declared", "Starting"}
    /\ reg[s].state \in Terminal \cup {"RestartPending"} => kern[s].live = 0

(* The kernel, the queue between the two and the registry agree on every service
   as far as the supervisor's decisions need it, in every interleaving of ends,
   polls and restarts: the three facts above. *)
ViewsAgree == EndIsPublishable /\ FailureQueued /\ RegistryHonest

(* A restart decided for one instance never tears down its replacement: the
   instance it tears down is the one whose failure was recorded last
   (on_health_failure, try_execute_restart).  And between two resets by a stable
   instance a service is started at most once more than its restart policy allows
   attempts. *)
RestartsJustified ==
  [][\A s \in Services :
       /\ (kern[s].live # 0 /\ kern'[s].state = "RestartPending") =>
            rec[s].failed = kern[s].live
       /\ launches'[s] <= MaxAttempts + 1]_vars

(* The kernel has carried out the Restart request of s, and the Start request that
   should follow is not to come: the registry refused its copy of the former, or the
   kernel could not spawn the instance. *)
RestartBrokenOff(s) ==
  kern[s].state = "RestartPending" /\ \A i \in DOMAIN stack : stack[i] # Frame("Start", s)

(* A service that was started once and has no instance gets a new one, unless its
   attempts are used up, a dependency is down, the supervisor itself has failed, late
   reports of the ended instance pass for a recovery (apply_health_report does not
   ask whether the instance is still there), or the restart broke off between its two
   requests.  Nothing resumes one that broke off, even with attempts left: the
   pending restart is cleared (try_execute_restart), and the kernel takes no second
   Restart in that state, although a "Restart is terminate-then-launch"
   (ARCHITECTURE.md, M4.2). *)
FailureHandled ==
  \A s \in Services :
    []<>(\/ kern[s].gen = 0 \/ kern[s].live # 0
         \/ dead \/ Blocked(s) \/ RestartBrokenOff(s)
         \/ rec[s].attempts >= MaxAttempts \/ rec[s].reports >= StableReports)
=============================================================================
