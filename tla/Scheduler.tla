------------------------------ MODULE Scheduler ------------------------------
(***************************************************************************)
(* The kernel's single-CPU round-robin scheduler with its wait table, idle *)
(* thread and deadline expiry (kernel/src/sched/{mod,wait,idle}.rs), and    *)
(* the part of process teardown that touches them (process/domain.rs).      *)
(*                                                                         *)
(* A syscall or interrupt handler runs with interrupts masked, so each is   *)
(* one action.  Every userspace process has exactly one thread (no code     *)
(* path creates a second one).  `ready` abstracts the condition a blocking  *)
(* syscall waits for; producers make it true and then wake the key.         *)
(***************************************************************************)
EXTENDS Integers, FiniteSets

CONSTANTS TaskCount,       \* TASK_COUNT = MAX_WAITERS
          PendingKeys,     \* wait keys woken with wake_all
          RegisteredKeys,  \* wait keys woken with wake_all_registered
          MaxPid, MaxTime  \* bounds: processes ever created, clock

ASSUME SchedulerConstants ==
    /\ TaskCount \in Nat \ {0} /\ MaxPid \in Nat /\ MaxTime \in Nat
    /\ PendingKeys \cup RegisteredKeys # {}

Keys == PendingKeys \cup RegisteredKeys
Slots == 0 .. TaskCount - 1
IdleThread == TaskCount
NoThread == TaskCount + 1
Never == MaxTime + 1

VARIABLES threads,   \* scheduler slot -> thread
          current,   \* current_thread
          waiters,   \* WAIT_TABLE.slots
          pending,   \* WAIT_TABLE.pending_wake_keys, a set: records are unique
          resume,    \* BLOCKED_RESUME, per scheduler slot
          live,      \* pids in the process registry
          nextPid, now, ready,
          fatal      \* fatal_kernel_error was reached

vars == <<threads, current, waiters, pending, resume, live, nextPid, now, ready, fatal>>

EmptyThread == [state |-> "Empty", pid |-> 0, frame |-> FALSE, outcome |-> "Woken", until |-> Never]
EmptyWaiter == [active |-> FALSE, pid |-> 0, thread |-> 0, key |-> CHOOSE k \in Keys : TRUE, deadline |-> Never]

\* configure_thread: the slot is overwritten; BLOCKED_RESUME is not.
NewThread(pid) == [EmptyThread EXCEPT !.state = "Ready", !.pid = pid]

InSyscall(s) == current = s /\ s \in Slots /\ ~fatal

-----------------------------------------------------------------------------
(* Selecting the next thread. *)

Runnable(th) == {s \in Slots : th[s].state \in {"Ready", "Running"}}
HasBlocked(th) == \E s \in Slots : th[s].state = "Blocked"

Distance(from, s) == (s - from - 1 + TaskCount + 1) % (TaskCount + 1)
\* Mutant: the scan always restarts at slot 0.
LowestRunnable(th, from) == {s \in Runnable(th) : \A t \in Runnable(th) : s <= t}

\* next_runnable_from: first runnable slot after `from`, wrapping.
NextRunnable(th, from) ==
    {s \in Runnable(th) : \A t \in Runnable(th) : Distance(from, s) <= Distance(from, t)}

\* make_current, then dispatch; a thread blocked inside a syscall completes it
\* (clean_slate_complete_blocked_syscall_resume), which clears its frame and
\* resets its resume contract.
Dispatch(th, s) == [th EXCEPT ![s].state = "Running", ![s].frame = FALSE, ![s].until = Never]
ResumeTaken(rs, th, s) == IF th[s].frame THEN [rs EXCEPT ![s] = "Native"] ELSE rs

\* The switch away from slot `from` shared by the timer, blocking and exit
\* paths: the next runnable thread, else the idle thread while somebody is
\* blocked, else nothing is left to run.
Switched(th, rs, from) ==
    IF Runnable(th) # {}
    THEN {[threads |-> Dispatch(th, s), resume |-> ResumeTaken(rs, th, s), current |-> s] :
            s \in NextRunnable(th, from)}
    ELSE {[threads |-> th, resume |-> rs, current |-> IF HasBlocked(th) THEN IdleThread ELSE NoThread]}

SwitchFrom(th, rs, from) ==
    \E sw \in Switched(th, rs, from) :
        threads' = sw.threads /\ resume' = sw.resume /\ current' = sw.current

-----------------------------------------------------------------------------
(* Waking. *)

\* wake_thread_at_index on every thread of S
Wake(th, S, outcome) ==
    [s \in Slots |-> IF s \in S /\ th[s].state = "Blocked"
                     THEN [th[s] EXCEPT !.state = "Ready", !.outcome = outcome]
                     ELSE th[s]]

\* The content of an inactive waiter is never read.
Deactivate(ws, W) == [w \in Slots |-> IF w \in W THEN EmptyWaiter ELSE ws[w]]
ThreadsOf(ws, W) == {ws[w].thread : w \in W}

OnKey(ws, k) == {w \in Slots : ws[w].active /\ ws[w].key = k}

\* Mutant: only the first waiter is woken.
TakesOne(ws, k) == {w \in OnKey(ws, k) : \A v \in OnKey(ws, k) : w <= v}

\* take_registered: waiters of a process that is gone are skipped.
Takes(ws, k) == {w \in OnKey(ws, k) : ws[w].pid \in live}

\* record_pending_wake: unique keys, silently dropped when the table is full
RecordPending(k) ==
    IF k \in RegisteredKeys \/ OnKey(waiters, k) # {} \/ Cardinality(pending) = TaskCount
    THEN pending ELSE pending \cup {k}

\* The wake-up is guarded by the producer making its condition true first.
Produce(k) ==
    /\ ~fatal
    /\ current # NoThread
    /\ ready' = [ready EXCEPT ![k] = TRUE]
    /\ threads' = Wake(threads, ThreadsOf(waiters, Takes(waiters, k)), "Woken")
    /\ waiters' = Deactivate(waiters, Takes(waiters, k))
    /\ pending' = RecordPending(k)
    /\ UNCHANGED <<current, resume, live, nextPid, now, fatal>>

\* Mutant: a deadline fires one unit early.
DueEarly(t) == {w \in Slots : waiters[w].active /\ t + 1 >= waiters[w].deadline}

\* waiter_deadline_due, over the waiters `expire_deadlines` scans
Due(t) == {w \in Slots : waiters[w].active /\ t >= waiters[w].deadline}
\* Mutant: expiry drops the waiter without waking its thread.
ExpiredSilently(th, t) == th

Expired(th, t) == Wake(th, ThreadsOf(waiters, Due(t)), "TimedOut")

-----------------------------------------------------------------------------
(* Blocking syscalls. *)

FreeWaiters == {w \in Slots : ~waiters[w].active}

\* arm_current_waiter and enqueue_current_waiter, then
\* scheduler_block_and_switch.  An exhausted table is a fatal kernel error.
Block(s, k, deadline, how) ==
    IF FreeWaiters = {}
    THEN fatal' = TRUE /\ UNCHANGED <<threads, resume, current, waiters>>
    ELSE /\ \E w \in FreeWaiters :
              /\ \A v \in FreeWaiters : w <= v
              /\ waiters' = [waiters EXCEPT ![w] =
                               [active |-> TRUE, pid |-> threads[s].pid, thread |-> s,
                                key |-> k, deadline |-> deadline]]
         /\ SwitchFrom([threads EXCEPT ![s].state = "Blocked", ![s].frame = TRUE, ![s].until = deadline],
                       [resume EXCEPT ![s] = how], s)
         /\ fatal' = fatal

\* The condition already holds: the syscall completes without blocking.
WaitReady(s, k) ==
    /\ InSyscall(s)
    /\ ready[k]
    /\ ready' = [ready EXCEPT ![k] = FALSE]
    /\ UNCHANGED <<threads, current, waiters, pending, resume, live, nextPid, now, fatal>>

\* block_current_thread: a recorded pending wake completes the call as Woken.
WaitNative(s, k, deadline) ==
    /\ InSyscall(s)
    /\ k \in PendingKeys
    /\ ~ready[k]
    /\ pending' = pending \ {k}
    /\ IF k \in pending
       THEN /\ resume' = [resume EXCEPT ![s] = "Native"]
            /\ UNCHANGED <<threads, current, waiters, fatal>>
       ELSE Block(s, k, deadline, "Native")
    /\ UNCHANGED <<live, nextPid, now, ready>>

\* block_current_thread_with_resume with a restart contract: a pending wake is
\* consumed and ignored.
WaitRestart(s, k, deadline) ==
    /\ InSyscall(s)
    /\ k \in PendingKeys
    /\ ~ready[k]
    /\ pending' = pending \ {k}
    /\ Block(s, k, deadline, "Restart")
    /\ UNCHANGED <<live, nextPid, now, ready>>

\* block_current_thread_unless whose check says Block.
WaitUnless(s, k, deadline) ==
    /\ InSyscall(s)
    /\ k \in RegisteredKeys
    /\ ~ready[k]
    /\ Block(s, k, deadline, "Restart")
    /\ UNCHANGED <<pending, live, nextPid, now, ready>>

-----------------------------------------------------------------------------
(* Interrupts. *)

Advance(t) == IF t < MaxTime THEN t + 1 ELSE t

\* The timer interrupt: expire_deadlines, then on_timer_interrupt.
Tick ==
    /\ ~fatal
    /\ current # NoThread
    /\ now' = Advance(now)
    /\ waiters' = Deactivate(waiters, Due(Advance(now)))
    /\ \E th \in {Expired(threads, Advance(now))} :
       IF current = IdleThread
       THEN threads' = th /\ UNCHANGED <<resume, current>>
       ELSE SwitchFrom([th EXCEPT ![current].state = "Ready"], resume, current)
    /\ UNCHANGED <<pending, live, nextPid, ready, fatal>>

\* idle_thread_one_wait after the halt: expiry, then wake_from_idle_loop.
IdleLoop ==
    /\ ~fatal
    /\ current = IdleThread
    /\ \E th \in {Expired(threads, now)} :
       IF Runnable(th) = {}
       THEN threads' = th /\ UNCHANGED <<resume, current>>
       ELSE SwitchFrom(th, resume, IdleThread)
    /\ waiters' = Deactivate(waiters, Due(now))
    /\ UNCHANGED <<pending, live, nextPid, now, ready, fatal>>

-----------------------------------------------------------------------------
(* Process creation and teardown. *)

Spawn(s) ==
    /\ current \in Slots
    /\ ~fatal
    /\ nextPid <= MaxPid
    /\ threads[s].state = "Empty"
    /\ threads' = [threads EXCEPT ![s] = NewThread(nextPid)]
    /\ live' = live \cup {nextPid}
    /\ nextPid' = nextPid + 1
    /\ UNCHANGED <<current, waiters, pending, resume, now, ready, fatal>>

\* Mutant: teardown cancels no waiters.
OfNoProcess(ws, pid) == {}

\* cancel_waiters_for_process
OfProcess(ws, pid) == {w \in Slots : ws[w].active /\ ws[w].pid = pid}

\* reap_threads_for_process: waiters are cancelled while the process is still
\* registered, and the slot is cleared.
Reaped(th, pid) ==
    LET cancelled == Wake(th, ThreadsOf(waiters, OfProcess(waiters, pid)), "Cancelled")
    IN  [s \in Slots |-> IF th[s].pid = pid THEN EmptyThread ELSE cancelled[s]]

\* teardown_current_process: finish_current_thread picks the successor before
\* the teardown hooks run; a hook may wake the waiters of a key k the dying
\* process served (KeyWoken = {k}) or none.
ExitCurrent(s, KeyWoken) ==
    /\ InSyscall(s)
    /\ LET pid == threads[s].pid
           th == [threads EXCEPT ![s].state = "Exited"]
           woken == UNION {Takes(waiters, k) : k \in KeyWoken}
       IN  /\ \E sw \in Switched(th, resume, s) :
                /\ threads' = Reaped(Wake(sw.threads, ThreadsOf(waiters, woken), "Woken"), pid)
                /\ resume' = sw.resume
                /\ current' = sw.current
           /\ waiters' = Deactivate(waiters, woken \cup OfProcess(waiters, pid))
           /\ live' = live \ {pid}
    /\ ready' = [k \in Keys |-> ready[k] \/ k \in KeyWoken]
    /\ UNCHANGED <<pending, nextPid, now, fatal>>

\* teardown_process_by_id: force_exit_all_threads_for_process, the hooks, the
\* reap.  The target is never the running process.
TeardownOther(s, KeyWoken) ==
    /\ current \in Slots
    /\ ~fatal
    /\ s # current
    /\ threads[s].state \in {"Ready", "Blocked"}
    /\ LET pid == threads[s].pid
           th == [threads EXCEPT ![s].state = "Exited"]
           woken == UNION {Takes(waiters, k) : k \in KeyWoken}
       IN  /\ threads' = Reaped(Wake(th, ThreadsOf(waiters, woken), "Woken"), pid)
           /\ waiters' = Deactivate(waiters, woken \cup OfProcess(waiters, pid))
           /\ live' = live \ {pid}
    /\ ready' = [k \in Keys |-> ready[k] \/ k \in KeyWoken]
    /\ UNCHANGED <<current, pending, resume, nextPid, now, fatal>>

-----------------------------------------------------------------------------
Init ==
    /\ threads = [s \in Slots |-> IF s = 0 THEN [NewThread(1) EXCEPT !.state = "Running"] ELSE EmptyThread]
    /\ current = 0
    /\ waiters = [w \in Slots |-> EmptyWaiter]
    /\ pending = {}
    /\ resume = [s \in Slots |-> "Native"]
    /\ live = {1}
    /\ nextPid = 2
    /\ now = 0
    /\ ready = [k \in Keys |-> FALSE]
    /\ fatal = FALSE

Deadlines == now .. MaxTime \cup {Never}

Next ==
    \/ \E k \in Keys : Produce(k)
    \/ Tick
    \/ IdleLoop
    \/ \E s \in Slots :
        \/ Spawn(s)
        \/ \E k \in Keys : WaitReady(s, k)
        \/ \E k \in Keys, d \in Deadlines :
             WaitNative(s, k, d) \/ WaitRestart(s, k, d) \/ WaitUnless(s, k, d)
        \/ \E W \in {{}} \cup {{k} : k \in Keys} : ExitCurrent(s, W) \/ TeardownOther(s, W)

\* The timer keeps interrupting, and the idle loop runs after each interrupt.
Spec == Init /\ [][Next]_vars /\ WF_vars(Tick) /\ WF_vars(IdleLoop)
-----------------------------------------------------------------------------
(* Properties. *)

\* Every blocked thread is registered by exactly one active waiter, every
\* active waiter names a blocked thread of the process it recorded, and that
\* process is still registered, across blocking, waking, expiry, teardown and
\* reuse of the slot.  So no wake-up ever reaches the wrong thread, no waiter
\* slot leaks, and the wait table (as large as the thread table) never runs
\* out, which would be a fatal kernel error.
WaitersMatchThreads ==
    /\ ~fatal
    /\ \A w \in Slots : waiters[w].active =>
          LET t == threads[waiters[w].thread] IN
          t.state = "Blocked" /\ t.pid = waiters[w].pid /\ t.pid \in live /\ t.until = waiters[w].deadline
    /\ \A s \in Slots : threads[s].state = "Blocked" =>
          Cardinality({w \in Slots : waiters[w].active /\ waiters[w].thread = s}) = 1

\* A thread is never left blocked on a key whose condition holds: the check
\* and the registration are one step, and every producer wakes all waiters.
NoLostWakeup ==
    \A w \in Slots : waiters[w].active => ~ready[waiters[w].key]

\* A blocked syscall completes as TimedOut only once its own deadline passed,
\* and never as Cancelled: cancellation is for threads that no longer run.
OutcomeHonest ==
    \A s \in Slots : threads[s].state = "Ready" /\ threads[s].frame =>
        /\ threads[s].outcome = "TimedOut" => now >= threads[s].until
        /\ threads[s].outcome # "Cancelled"

\* Round robin starves nobody: a ready thread runs or is torn down.
ReadyThreadRuns ==
    \A s \in Slots : threads[s].state = "Ready" ~> threads[s].state # "Ready"

\* A wait with a deadline ends: by a wake-up, by expiry or with its process.
TimedWaitEnds ==
    \A s \in Slots : threads[s].state = "Blocked" /\ threads[s].until # Never ~> threads[s].state # "Blocked"
=============================================================================
