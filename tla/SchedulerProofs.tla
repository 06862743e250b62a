--------------------------- MODULE SchedulerProofs ---------------------------
(* Proofs about the scheduler and its wait table, for any number of thread
   slots, wait keys, processes and deadlines. *)
EXTENDS Scheduler, FiniteSetTheorems, TLAPS

(* The provers have thirty seconds for a leaf. *)
USE SMTT(30), ZenonT(30)

Outcomes == {"Woken", "TimedOut", "Cancelled"}
ThreadRecord ==
  [state : {"Empty", "Ready", "Running", "Blocked", "Exited"}, pid : Nat, frame : BOOLEAN,
   outcome : Outcomes, until : Nat]
WaiterRecord ==
  [active : BOOLEAN, pid : Nat, thread : Slots, key : Keys, deadline : Nat]

(* Blocked threads and active waiters are in one-to-one correspondence. *)
Paired(th, ws) ==
  /\ \A w \in Slots : ws[w].active =>
       /\ th[ws[w].thread].state = "Blocked"
       /\ th[ws[w].thread].pid = ws[w].pid
       /\ th[ws[w].thread].until = ws[w].deadline
  /\ \A v, w \in Slots : ws[v].active /\ ws[w].active /\ ws[v].thread = ws[w].thread => v = w
  /\ \A s \in Slots : th[s].state = "Blocked" => \E w \in Slots : ws[w].active /\ ws[w].thread = s

(* Each process has one thread, and only registered processes have threads. *)
Owned(th, pids) ==
  /\ \A s \in Slots : th[s].state = "Empty" => th[s].pid = 0
  /\ \A s \in Slots : th[s].state # "Empty" => th[s].pid \in pids
  /\ \A s, t \in Slots : th[s].state # "Empty" /\ th[s].pid = th[t].pid => s = t

(* The thread of `current`, and no other, is running and outside a blocking call. *)
RunsOnly(th, c) ==
  /\ c \in Slots \cup {IdleThread, NoThread}
  /\ c \in Slots => th[c].state = "Running"
  /\ \A s \in Slots : th[s].state = "Running" => s = c /\ ~th[s].frame

(* OutcomeHonest of the threads th at time t. *)
Honest(th, t) ==
  \A s \in Slots : th[s].state = "Ready" /\ th[s].frame =>
    (th[s].outcome = "TimedOut" => t >= th[s].until) /\ th[s].outcome # "Cancelled"

TypeInv ==
  /\ threads \in [Slots -> ThreadRecord] /\ waiters \in [Slots -> WaiterRecord]
  /\ nextPid \in Nat \ {0} /\ live \in SUBSET (1 .. nextPid - 1)
  /\ now \in Nat /\ ready \in [Keys -> BOOLEAN]

SchedInv ==
  /\ TypeInv
  /\ ~fatal
  /\ \A s \in Slots : threads[s].state # "Exited"
  /\ Paired(threads, waiters)
  /\ Owned(threads, live)
  /\ RunsOnly(threads, current)
  /\ OutcomeHonest
  /\ NoLostWakeup

(* Types of the constants and of the empty records. *)
LEMMA Empties ==
  /\ Slots \in SUBSET Nat /\ 0 \in Slots /\ IdleThread \notin Slots /\ NoThread \notin Slots
  /\ Never \in Nat
  /\ EmptyThread \in ThreadRecord /\ EmptyThread.state = "Empty" /\ EmptyThread.pid = 0
  /\ EmptyWaiter \in WaiterRecord /\ ~EmptyWaiter.active
  <1> USE SchedulerConstants
  <1>1. Slots \in SUBSET Nat /\ 0 \in Slots /\ IdleThread \notin Slots /\ NoThread \notin Slots
    BY DEF Slots, IdleThread, NoThread
  <1>2. Never \in Nat
    BY DEF Never
  <1>3. (CHOOSE k \in Keys : TRUE) \in Keys
    BY DEF Keys
  <1> QED BY <1>1, <1>2, <1>3 DEF EmptyThread, ThreadRecord, Outcomes, EmptyWaiter, WaiterRecord

-----------------------------------------------------------------------------
(* Waking the threads of some waiters and deactivating these keeps the rest paired. *)
LEMMA WakePaired ==
  ASSUME NEW th \in [Slots -> ThreadRecord], NEW ws \in [Slots -> WaiterRecord], Paired(th, ws),
         NEW W \in SUBSET {w \in Slots : ws[w].active}, NEW o \in Outcomes
  PROVE  /\ Wake(th, ThreadsOf(ws, W), o) \in [Slots -> ThreadRecord]
         /\ Deactivate(ws, W) \in [Slots -> WaiterRecord]
         /\ Paired(Wake(th, ThreadsOf(ws, W), o), Deactivate(ws, W))
  <1> DEFINE th2 == Wake(th, ThreadsOf(ws, W), o)
             ws2 == Deactivate(ws, W)
  <1>1. th2 \in [Slots -> ThreadRecord]
    BY ZenonT(30) DEF Wake, ThreadRecord
  <1>2. ws2 \in [Slots -> WaiterRecord]
    BY Empties DEF Deactivate
  <1>3. \A w \in Slots : IF w \in W THEN ~ws2[w].active ELSE ws2[w] = ws[w]
    BY Empties DEF Deactivate
  <1>4. \A s \in Slots : /\ s \in ThreadsOf(ws, W) => th2[s].state # "Blocked"
                         /\ s \notin ThreadsOf(ws, W) => th2[s] = th[s]
    BY DEF Wake, ThreadRecord
  <1>5. \A w \in Slots : ws[w].active => (w \in W <=> ws[w].thread \in ThreadsOf(ws, W))
    BY DEF ThreadsOf, Paired
  <1>6. \A w \in Slots : ws[w].thread \in Slots
    BY DEF WaiterRecord
  <1> HIDE DEF th2, ws2
  <1>7. \A w \in Slots : ws2[w].active =>
          /\ th2[ws2[w].thread].state = "Blocked"
          /\ th2[ws2[w].thread].pid = ws2[w].pid
          /\ th2[ws2[w].thread].until = ws2[w].deadline
    BY <1>3, <1>4, <1>5, <1>6 DEF Paired
  <1>8. \A v, w \in Slots : ws2[v].active /\ ws2[w].active /\ ws2[v].thread = ws2[w].thread => v = w
    BY <1>3 DEF Paired
  <1>9. ASSUME NEW s \in Slots, th2[s].state = "Blocked"
        PROVE  \E w \in Slots : ws2[w].active /\ ws2[w].thread = s
    <2>1. th2[s] = th[s] /\ s \notin ThreadsOf(ws, W)
      BY <1>4, <1>9
    <2>2. PICK w \in Slots : ws[w].active /\ ws[w].thread = s
      BY <1>9, <2>1 DEF Paired
    <2> QED BY <1>3, <1>5, <2>1, <2>2
  <1>10. Paired(th2, ws2)
    BY <1>7, <1>8, <1>9 DEF Paired
  <1> QED BY <1>1, <1>2, <1>10 DEF th2, ws2

(* Waking does not change the owner of a thread. *)
LEMMA WakeOwned ==
  ASSUME NEW th \in [Slots -> ThreadRecord], NEW S, NEW o \in Outcomes, NEW pids, Owned(th, pids)
  PROVE  Owned(Wake(th, S, o), pids)
  BY DEF Wake, Owned, ThreadRecord

(* Waking does not touch the running thread. *)
LEMMA WakeRuns ==
  ASSUME NEW th \in [Slots -> ThreadRecord], NEW S, NEW o \in Outcomes, NEW c, RunsOnly(th, c)
  PROVE  RunsOnly(Wake(th, S, o), c)
  BY ZenonT(30) DEF Wake, RunsOnly, ThreadRecord

(* A thread woken from its deadline at time t had one no later than t; a wake-up
   by a producer is always honest. *)
LEMMA WakeHonest ==
  ASSUME NEW th \in [Slots -> ThreadRecord], NEW S, NEW t, Honest(th, t), NEW o \in {"Woken", "TimedOut"},
         o = "TimedOut" => \A s \in Slots : s \in S => t >= th[s].until
  PROVE  Honest(Wake(th, S, o), t)
  BY DEF Wake, Honest, ThreadRecord

(* us is th but for the ready thread that now runs, as current says. *)
SwitchedTo(th, us, cur) ==
  /\ us \in [Slots -> ThreadRecord] /\ RunsOnly(us, cur)
  /\ \A s \in Slots : \/ us[s] = th[s]
                      \/ /\ th[s].state = "Ready" /\ us[s].state = "Running" /\ us[s].pid = th[s].pid

(* Switching to the next thread, when the old one no longer runs. *)
LEMMA SwitchKeeps ==
  ASSUME NEW th \in [Slots -> ThreadRecord], \A s \in Slots : th[s].state # "Running",
         NEW rs, NEW from, NEW sw \in Switched(th, rs, from)
  PROVE  SwitchedTo(th, sw.threads, sw.current)
  <1>1. CASE Runnable(th) # {}
    <2>1. PICK s \in Slots : /\ th[s].state = "Ready"
                             /\ sw.threads = Dispatch(th, s) /\ sw.current = s
      BY <1>1 DEF Switched, NextRunnable, Runnable
    <2>2. sw.threads = [th EXCEPT ![s] = [th[s] EXCEPT !.state = "Running", !.frame = FALSE, !.until = Never]]
      BY <2>1, ZenonT(30) DEF Dispatch, ThreadRecord
    <2>3. sw.threads \in [Slots -> ThreadRecord]
      <3>1. th[s] \in ThreadRecord
        BY <2>1
      <3>2. [th[s] EXCEPT !.state = "Running", !.frame = FALSE, !.until = Never] \in ThreadRecord
        BY <3>1, Empties, ZenonT(30) DEF ThreadRecord
      <3> QED BY <2>2, <3>2
    <2>4. /\ sw.threads[s].state = "Running" /\ ~sw.threads[s].frame
          /\ sw.threads[s].pid = th[s].pid
          /\ \A x \in Slots : x # s => sw.threads[x] = th[x]
      BY <2>2 DEF ThreadRecord
    <2> QED BY <2>1, <2>3, <2>4 DEF RunsOnly, SwitchedTo
  <1>2. CASE Runnable(th) = {}
    <2>1. sw.threads = th /\ sw.current \in {IdleThread, NoThread}
      BY <1>2 DEF Switched
    <2> QED BY <2>1, Empties DEF RunsOnly, SwitchedTo
  <1> QED BY <1>1, <1>2

(* What a switch leaves alone: pairing, ownership and outcomes. *)
LEMMA SwitchInv ==
  ASSUME NEW th \in [Slots -> ThreadRecord], \A s \in Slots : th[s].state \notin {"Running", "Exited"},
         NEW ws \in [Slots -> WaiterRecord], Paired(th, ws),
         NEW pids, Owned(th, pids), NEW t, Honest(th, t),
         NEW rs, NEW from, SwitchFrom(th, rs, from)
  PROVE  /\ threads' \in [Slots -> ThreadRecord] /\ \A s \in Slots : threads'[s].state # "Exited"
         /\ Paired(threads', ws) /\ Owned(threads', pids)
         /\ RunsOnly(threads', current') /\ Honest(threads', t)
  <1>1. PICK sw \in Switched(th, rs, from) : threads' = sw.threads /\ current' = sw.current
    BY DEF SwitchFrom
  <1>2. /\ threads' \in [Slots -> ThreadRecord]
        /\ RunsOnly(threads', current')
        /\ \A s \in Slots : \/ threads'[s] = th[s]
                            \/ /\ th[s].state = "Ready" /\ threads'[s].state = "Running"
                               /\ threads'[s].pid = th[s].pid
    BY <1>1, SwitchKeeps DEF SwitchedTo
  <1>3. Paired(threads', ws)
    <2>1. \A s \in Slots : th[s].state = "Blocked" \/ threads'[s].state = "Blocked" => threads'[s] = th[s]
      BY <1>2
    <2>2. \A w \in Slots : ws[w].thread \in Slots
      BY DEF WaiterRecord
    <2> QED BY <2>1, <2>2 DEF Paired
  <1>4. Owned(threads', pids)
    BY <1>2 DEF Owned
  <1>5. Honest(threads', t)
    BY <1>2 DEF Honest
  <1> QED BY <1>2, <1>3, <1>4, <1>5

(* The wait table has a slot for the running thread: the active waiters belong
   to different threads, and none of them to the running one. *)
LEMMA WaiterFree ==
  ASSUME SchedInv, NEW s \in Slots, threads[s].state = "Running"
  PROVE  FreeWaiters # {}
  <1> SUFFICES ASSUME FreeWaiters = {} PROVE FALSE
    OBVIOUS
  <1> DEFINE f == [w \in Slots |-> waiters[w].thread]
  <1>1. \A w \in Slots : waiters[w].active /\ waiters[w].thread \in Slots
    BY DEF FreeWaiters, SchedInv, TypeInv, WaiterRecord
  <1>2. f \in [Slots -> Slots \ {s}]
    BY <1>1 DEF SchedInv, Paired
  <1>3. IsFiniteSet(Slots)
    <2>1. 0 \in Int /\ TaskCount - 1 \in Int
      BY SchedulerConstants
    <2> QED BY <2>1, FS_Interval DEF Slots
  <1>4. IsFiniteSet(Slots \ {s}) /\ Cardinality(Slots \ {s}) < Cardinality(Slots)
    <2>1. Cardinality(Slots) \in Nat
      BY <1>3, FS_CardinalityType
    <2>2. IsFiniteSet(Slots \ {s}) /\ Cardinality(Slots \ {s}) = Cardinality(Slots) - 1
      BY <1>3, FS_RemoveElement
    <2> QED BY <2>1, <2>2
  <1>5. \E v, w \in Slots : v # w /\ f[v] = f[w]
    <2> DEFINE T == Slots \ {s}
    <2>1. f \in [Slots -> T] /\ IsFiniteSet(T) /\ Cardinality(T) < Cardinality(Slots)
      BY <1>2, <1>4
    <2> HIDE DEF f, T
    <2> QED BY <1>3, <2>1, FS_PigeonHole
  <1> QED BY <1>1, <1>5 DEF SchedInv, Paired

-----------------------------------------------------------------------------
(* OutcomeHonest is Honest of the current state. *)
LEMMA HonestNow == OutcomeHonest <=> Honest(threads, now)
  BY DEF OutcomeHonest, Honest

(* A producer leaves no waiter of its key behind: each belongs to a registered process. *)
LEMMA TakesAll ==
  ASSUME SchedInv, NEW k \in Keys
  PROVE  Takes(waiters, k) = OnKey(waiters, k) /\ OnKey(waiters, k) \in SUBSET {w \in Slots : waiters[w].active}
  <1>1. \A w \in Slots : waiters[w].active => waiters[w].thread \in Slots /\ waiters[w].pid \in live
    BY DEF SchedInv, TypeInv, WaiterRecord, Paired, Owned
  <1> QED BY <1>1 DEF Takes, OnKey

(* Waking all waiters of the keys that become ready loses no wake-up. *)
LEMMA WakesAll ==
  ASSUME SchedInv, NEW K \in SUBSET Keys, NEW W \in SUBSET Slots,
         \A k \in K : OnKey(waiters, k) \subseteq W,
         \A w \in Slots : waiters'[w].active => w \notin W /\ waiters'[w] = waiters[w],
         \A k \in Keys : ready'[k] = (ready[k] \/ k \in K)
  PROVE  NoLostWakeup'
  <1> SUFFICES ASSUME NEW w \in Slots, waiters'[w].active
               PROVE  ~ready'[waiters[w].key]
    BY DEF NoLostWakeup
  <1>1. waiters[w].active /\ w \notin W /\ ~ready[waiters[w].key]
    BY DEF SchedInv, NoLostWakeup
  <1>2. waiters[w].key \notin K
    BY <1>1 DEF OnKey
  <1>3. waiters[w].key \in Keys
    BY DEF SchedInv, TypeInv, WaiterRecord
  <1> QED BY <1>1, <1>2, <1>3, ZenonT(30)

(* A producer makes its condition true and wakes the waiters of its key. *)
LEMMA ProduceInv ==
  ASSUME SchedInv, NEW k \in Keys, Produce(k)
  PROVE  SchedInv'
  <1> DEFINE W == Takes(waiters, k)
  <1>1. W \in SUBSET {w \in Slots : waiters[w].active} /\ OnKey(waiters, k) \subseteq W
    BY TakesAll
  <1>2. threads' = Wake(threads, ThreadsOf(waiters, W), "Woken") /\ waiters' = Deactivate(waiters, W)
    BY DEF Produce
  <1>3. /\ threads \in [Slots -> ThreadRecord] /\ waiters \in [Slots -> WaiterRecord]
        /\ Paired(threads, waiters) /\ Owned(threads, live) /\ RunsOnly(threads, current)
        /\ Honest(threads, now) /\ \A s \in Slots : threads[s].state # "Exited"
    BY HonestNow DEF SchedInv, TypeInv
  <1>4. /\ threads' \in [Slots -> ThreadRecord] /\ waiters' \in [Slots -> WaiterRecord]
        /\ Paired(threads', waiters')
    BY <1>1, <1>2, <1>3, WakePaired DEF Outcomes
  <1>5. Owned(threads', live') /\ RunsOnly(threads', current')
    BY <1>2, <1>3, WakeOwned, WakeRuns DEF Produce, Outcomes
  <1>6. Honest(threads', now')
    BY <1>2, <1>3, WakeHonest DEF Produce
  <1>7. \A s \in Slots : threads'[s].state # "Exited"
    BY <1>2, <1>3, ZenonT(30) DEF Wake, ThreadRecord
  <1>8. NoLostWakeup'
    <2>1. \A w \in Slots : waiters'[w].active => w \notin W /\ waiters'[w] = waiters[w]
      BY <1>2, Empties DEF Deactivate
    <2>2. \A q \in Keys : ready'[q] = (ready[q] \/ q \in {k})
      BY ZenonT(30) DEF Produce, SchedInv, TypeInv
    <2> HIDE DEF W
    <2> QED BY <1>1, <2>1, <2>2, WakesAll, ZenonT(30)
  <1>9. TypeInv' /\ ~fatal'
    BY <1>4 DEF Produce, SchedInv, TypeInv
  <1>10. OutcomeHonest'
    BY <1>6 DEF OutcomeHonest, Honest
  <1> QED BY <1>4, <1>5, <1>7, <1>8, <1>9, <1>10 DEF SchedInv

(* A call whose condition holds consumes it. *)
LEMMA WaitReadyInv ==
  ASSUME SchedInv, NEW s \in Slots, NEW k \in Keys, WaitReady(s, k)
  PROVE  SchedInv'
  <1>1. TypeInv' /\ ~fatal'
    BY DEF WaitReady, SchedInv, TypeInv
  <1>2. NoLostWakeup'
    <2>1. \A q \in Keys : ready'[q] => ready[q]
      BY DEF WaitReady, SchedInv, TypeInv
    <2>2. \A w \in Slots : waiters[w].key \in Keys
      BY DEF SchedInv, TypeInv, WaiterRecord
    <2> QED BY <2>1, <2>2 DEF WaitReady, SchedInv, NoLostWakeup
  <1>3. UNCHANGED <<threads, waiters, current, live, now>>
    BY DEF WaitReady
  <1>4. (\A s2 \in Slots : threads'[s2].state # "Exited") /\ Paired(threads', waiters')
         /\ Owned(threads', live') /\ RunsOnly(threads', current')
    BY <1>3 DEF SchedInv
  <1>5. OutcomeHonest'
    BY <1>3 DEF SchedInv, OutcomeHonest
  <1> QED BY <1>1, <1>2, <1>4, <1>5 DEF SchedInv

(* A thread that blocks registers a waiter of its own and is switched away from. *)
LEMMA BlockInv ==
  ASSUME SchedInv, NEW s \in Slots, InSyscall(s), NEW k \in Keys, ~ready[k], NEW d \in Nat, NEW how,
         Block(s, k, d, how), UNCHANGED <<live, nextPid, now, ready>>
  PROVE  SchedInv'
  <1>0. /\ threads \in [Slots -> ThreadRecord] /\ waiters \in [Slots -> WaiterRecord]
        /\ Paired(threads, waiters) /\ Owned(threads, live) /\ RunsOnly(threads, current)
        /\ Honest(threads, now) /\ \A x \in Slots : threads[x].state # "Exited"
    BY HonestNow DEF SchedInv, TypeInv
  <1>1. current = s /\ threads[s].state = "Running"
    BY <1>0 DEF InSyscall, RunsOnly
  <1>2. FreeWaiters # {}
    BY <1>1, WaiterFree
  <1> DEFINE new == [active |-> TRUE, pid |-> threads[s].pid, thread |-> s, key |-> k, deadline |-> d]
             th == [threads EXCEPT ![s].state = "Blocked", ![s].frame = TRUE, ![s].until = d]
             rs == [resume EXCEPT ![s] = how]
  <1>3. PICK w \in Slots : ~waiters[w].active /\ waiters' = [waiters EXCEPT ![w] = new]
    BY <1>2 DEF Block, FreeWaiters
  <1>4. SwitchFrom(th, rs, s) /\ fatal' = fatal
    BY <1>2 DEF Block
  <1>5. th[s] = [threads[s] EXCEPT !.state = "Blocked", !.frame = TRUE, !.until = d]
        /\ \A x \in Slots : x # s => th[x] = threads[x]
    BY <1>0
  <1>6. th \in [Slots -> ThreadRecord]
    <2>1. threads[s] \in ThreadRecord
      BY <1>0
    <2>2. [threads[s] EXCEPT !.state = "Blocked", !.frame = TRUE, !.until = d] \in ThreadRecord
      BY <2>1, ZenonT(30) DEF ThreadRecord
    <2> QED BY <1>0, <1>5, <2>2
  <1>7. th[s].state = "Blocked" /\ th[s].pid = threads[s].pid /\ th[s].until = d
    BY <1>0, <1>5 DEF ThreadRecord
  <1>8. waiters' \in [Slots -> WaiterRecord]
    BY <1>0, <1>3 DEF WaiterRecord, ThreadRecord
  <1>9. waiters'[w] = new /\ \A v \in Slots : v # w => waiters'[v] = waiters[v]
    BY <1>0, <1>3
  <1>10. \A v \in Slots : waiters[v].active => waiters[v].thread \in Slots /\ waiters[v].thread # s
    BY <1>0, <1>1, ZenonT(30) DEF Paired, WaiterRecord
  <1> HIDE DEF th, rs
  <1>11. Paired(th, waiters')
    <2>1. \A v \in Slots : waiters'[v].active => IF v = w THEN waiters'[v] = new ELSE waiters[v].active /\ waiters'[v] = waiters[v]
      BY <1>9, ZenonT(30)
    <2>2. ASSUME NEW v \in Slots, waiters'[v].active
          PROVE  /\ th[waiters'[v].thread].state = "Blocked"
                 /\ th[waiters'[v].thread].pid = waiters'[v].pid
                 /\ th[waiters'[v].thread].until = waiters'[v].deadline
      <3>1. CASE v = w
        BY <1>7, <1>9, <3>1
      <3>2. CASE v # w
        <4>1. waiters'[v] = waiters[v] /\ waiters[v].active
          BY <2>1, <2>2, <3>2
        <4>2. th[waiters[v].thread] = threads[waiters[v].thread]
          BY <1>5, <1>10, <4>1, ZenonT(30)
        <4> QED BY <1>0, <4>1, <4>2 DEF Paired
      <3> QED BY <3>1, <3>2, ZenonT(30)
    <2>3. \A u, v \in Slots : waiters'[u].active /\ waiters'[v].active /\ waiters'[u].thread = waiters'[v].thread => u = v
      BY <1>0, <1>10, <2>1 DEF Paired
    <2>4. ASSUME NEW x \in Slots, th[x].state = "Blocked"
          PROVE  \E v \in Slots : waiters'[v].active /\ waiters'[v].thread = x
      <3>1. CASE x = s
        BY <1>9, <3>1
      <3>2. CASE x # s
        <4>1. PICK v \in Slots : waiters[v].active /\ waiters[v].thread = x
          BY <1>0, <1>5, <2>4, <3>2 DEF Paired
        <4> QED BY <1>3, <1>9, <4>1
      <3> QED BY <3>1, <3>2
    <2> QED BY <2>2, <2>3, <2>4, ZenonT(30) DEF Paired
  <1>12. \A x \in Slots : th[x].state \notin {"Running", "Exited"}
    BY <1>0, <1>1, <1>5, <1>7, ZenonT(30) DEF RunsOnly
  <1>13. Owned(th, live)
    <2>1. \A x \in Slots : th[x].pid = threads[x].pid /\ (th[x].state = "Empty" <=> threads[x].state = "Empty")
      BY <1>1, <1>5, <1>7, ZenonT(30)
    <2> QED BY <1>0, <2>1 DEF Owned
  <1>14. Honest(th, now)
    BY <1>0, <1>5, <1>7, ZenonT(30) DEF Honest
  <1>15. /\ threads' \in [Slots -> ThreadRecord] /\ \A x \in Slots : threads'[x].state # "Exited"
         /\ Paired(threads', waiters') /\ Owned(threads', live)
         /\ RunsOnly(threads', current') /\ Honest(threads', now)
    BY <1>4, <1>6, <1>8, <1>11, <1>12, <1>13, <1>14, SwitchInv
  <1>16. NoLostWakeup'
    BY <1>9 DEF SchedInv, NoLostWakeup
  <1>17. TypeInv' /\ ~fatal'
    BY <1>4, <1>8, <1>15 DEF SchedInv, TypeInv
  <1>18. OutcomeHonest'
    BY <1>15, ZenonT(30) DEF OutcomeHonest, Honest
  <1> QED BY <1>15, <1>16, <1>17, <1>18 DEF SchedInv

(* Expiry at time t wakes the threads whose deadline has passed, and only those. *)
LEMMA Expiry ==
  ASSUME SchedInv, NEW t \in Nat, t >= now
  PROVE  /\ Expired(threads, t) \in [Slots -> ThreadRecord]
         /\ Deactivate(waiters, Due(t)) \in [Slots -> WaiterRecord]
         /\ Paired(Expired(threads, t), Deactivate(waiters, Due(t)))
         /\ Owned(Expired(threads, t), live)
         /\ RunsOnly(Expired(threads, t), current)
         /\ Honest(Expired(threads, t), t)
         /\ \A s \in Slots : Expired(threads, t)[s].state # "Exited"
         /\ \A w \in Slots : Deactivate(waiters, Due(t))[w].active =>
              waiters[w].active /\ Deactivate(waiters, Due(t))[w] = waiters[w]
  <1>0. /\ threads \in [Slots -> ThreadRecord] /\ waiters \in [Slots -> WaiterRecord]
        /\ Paired(threads, waiters) /\ Owned(threads, live) /\ RunsOnly(threads, current)
        /\ Honest(threads, now) /\ now \in Nat /\ \A x \in Slots : threads[x].state # "Exited"
    BY HonestNow DEF SchedInv, TypeInv
  <1>1. Due(t) \in SUBSET {w \in Slots : waiters[w].active}
    BY DEF Due
  <1>2. Honest(threads, t)
    BY <1>0 DEF Honest, ThreadRecord
  <1>3. \A s \in Slots : s \in ThreadsOf(waiters, Due(t)) => t >= threads[s].until
    BY <1>0 DEF ThreadsOf, Due, Paired
  <1>4. Honest(Wake(threads, ThreadsOf(waiters, Due(t)), "TimedOut"), t)
    BY <1>0, <1>2, <1>3, WakeHonest
  <1>5. \A s \in Slots : Wake(threads, ThreadsOf(waiters, Due(t)), "TimedOut")[s].state # "Exited"
    BY <1>0 DEF Wake, ThreadRecord
  <1>6. \A w \in Slots : Deactivate(waiters, Due(t))[w].active =>
          waiters[w].active /\ Deactivate(waiters, Due(t))[w] = waiters[w]
    BY Empties DEF Deactivate
  <1>7. "TimedOut" \in Outcomes
    BY DEF Outcomes
  <1> QED BY <1>0, <1>1, <1>4, <1>5, <1>6, <1>7, WakePaired, WakeOwned, WakeRuns, ZenonT(30) DEF Expired

(* What the two interrupts that expire deadlines have in common. *)
LEMMA ExpiryInv ==
  ASSUME SchedInv, NEW t \in Nat, t >= now, now' = t, waiters' = Deactivate(waiters, Due(t)),
         UNCHANGED <<live, nextPid, ready, fatal>>,
         threads' \in [Slots -> ThreadRecord], \A s \in Slots : threads'[s].state # "Exited",
         Paired(threads', waiters'), Owned(threads', live), RunsOnly(threads', current'), Honest(threads', t)
  PROVE  SchedInv'
  <1>1. waiters' \in [Slots -> WaiterRecord]
        /\ \A w \in Slots : waiters'[w].active => waiters[w].active /\ waiters'[w] = waiters[w]
    BY Expiry
  <1>2. TypeInv' /\ ~fatal'
    BY <1>1, ZenonT(30) DEF SchedInv, TypeInv
  <1>3. NoLostWakeup'
    BY <1>1 DEF SchedInv, NoLostWakeup
  <1>4. OutcomeHonest'
    BY DEF OutcomeHonest, Honest
  <1> QED BY <1>2, <1>3, <1>4, ZenonT(30) DEF SchedInv

(* The timer expires deadlines and preempts the running thread. *)
LEMMA TickInv ==
  ASSUME SchedInv, Tick
  PROVE  SchedInv'
  <1> DEFINE t == Advance(now)
             th == Expired(threads, t)
             ws == Deactivate(waiters, Due(t))
  <1>1. t \in Nat /\ t >= now /\ now' = t /\ waiters' = ws /\ UNCHANGED <<live, nextPid, ready, fatal>>
    BY DEF Tick, Advance, SchedInv, TypeInv
  <1>2. /\ th \in [Slots -> ThreadRecord] /\ ws \in [Slots -> WaiterRecord] /\ Paired(th, ws)
        /\ Owned(th, live) /\ RunsOnly(th, current) /\ Honest(th, t)
        /\ \A s \in Slots : th[s].state # "Exited"
    BY <1>1, Expiry, ZenonT(30)
  <1>3. CASE current = IdleThread
    <2>1. threads' = th /\ current' = current
      BY <1>3 DEF Tick
    <2> QED BY <1>1, <1>2, <2>1, ExpiryInv
  <1>4. CASE current # IdleThread
    <2> DEFINE th2 == [th EXCEPT ![current].state = "Ready"]
    <2>1. SwitchFrom(th2, resume, current)
      BY <1>4 DEF Tick
    <2>2. current \in Slots /\ th[current].state = "Running" /\ ~th[current].frame
      BY <1>2, <1>4 DEF Tick, RunsOnly
    <2> HIDE DEF th, ws, t
    <2>3. th2[current] = [th[current] EXCEPT !.state = "Ready"]
          /\ \A s \in Slots : s # current => th2[s] = th[s]
      BY <1>2, <2>2
    <2>4. /\ th2 \in [Slots -> ThreadRecord]
          /\ th2[current].state = "Ready" /\ ~th2[current].frame /\ th2[current].pid = th[current].pid
      BY <1>2, <2>2, <2>3 DEF ThreadRecord
    <2> HIDE DEF th2
    <2>5. \A s \in Slots : th2[s].state \notin {"Running", "Exited"}
      BY <1>2, <2>3, <2>4, ZenonT(30) DEF RunsOnly
    <2>6. Paired(th2, ws)
      <3>1. \A s \in Slots : th[s].state = "Blocked" \/ th2[s].state = "Blocked" => th2[s] = th[s]
        BY <2>2, <2>3, <2>4, ZenonT(30)
      <3>2. \A w \in Slots : ws[w].thread \in Slots
        BY <1>2, ZenonT(30) DEF WaiterRecord
      <3> QED BY <1>2, <3>1, <3>2 DEF Paired
    <2>7. Owned(th2, live)
      <3>1. \A s \in Slots : th2[s].pid = th[s].pid /\ (th2[s].state = "Empty" <=> th[s].state = "Empty")
        BY <2>2, <2>3, <2>4, ZenonT(30)
      <3> QED BY <1>2, <3>1 DEF Owned
    <2>8. Honest(th2, t)
      BY <1>2, <2>3, <2>4, ZenonT(30) DEF Honest
    <2>9. /\ threads' \in [Slots -> ThreadRecord] /\ \A s \in Slots : threads'[s].state # "Exited"
          /\ Paired(threads', ws) /\ Owned(threads', live)
          /\ RunsOnly(threads', current') /\ Honest(threads', t)
      BY <1>2, <2>1, <2>4, <2>5, <2>6, <2>7, <2>8, SwitchInv, ZenonT(30)
    <2> QED BY <1>1, <2>9, ExpiryInv DEF ws
  <1> QED BY <1>3, <1>4

(* The idle loop expires deadlines and leaves idle once a thread is runnable. *)
LEMMA IdleLoopInv ==
  ASSUME SchedInv, IdleLoop
  PROVE  SchedInv'
  <1> DEFINE th == Expired(threads, now)
             ws == Deactivate(waiters, Due(now))
  <1>1. now \in Nat /\ now >= now /\ now' = now /\ waiters' = ws /\ UNCHANGED <<live, nextPid, ready, fatal>>
        /\ current = IdleThread
    BY DEF IdleLoop, SchedInv, TypeInv
  <1>2. /\ th \in [Slots -> ThreadRecord] /\ ws \in [Slots -> WaiterRecord] /\ Paired(th, ws)
        /\ Owned(th, live) /\ RunsOnly(th, current) /\ Honest(th, now)
        /\ \A s \in Slots : th[s].state # "Exited"
    BY <1>1, Expiry, ZenonT(30)
  <1>3. CASE Runnable(th) = {}
    <2>1. threads' = th /\ current' = current
      BY <1>3 DEF IdleLoop
    <2> QED BY <1>1, <1>2, <2>1, ExpiryInv
  <1>4. CASE Runnable(th) # {}
    <2>1. SwitchFrom(th, resume, IdleThread)
      BY <1>4 DEF IdleLoop
    <2> HIDE DEF th, ws
    <2>2. \A s \in Slots : th[s].state \notin {"Running", "Exited"}
      BY <1>1, <1>2, Empties DEF RunsOnly
    <2>3. /\ threads' \in [Slots -> ThreadRecord] /\ \A s \in Slots : threads'[s].state # "Exited"
          /\ Paired(threads', ws) /\ Owned(threads', live)
          /\ RunsOnly(threads', current') /\ Honest(threads', now)
      BY <1>2, <2>1, <2>2, SwitchInv, ZenonT(30)
    <2> QED BY <1>1, <2>3, ExpiryInv DEF ws
  <1> QED BY <1>3, <1>4

(* A new process takes an empty slot under a pid that was never used. *)
LEMMA SpawnInv ==
  ASSUME SchedInv, NEW s \in Slots, Spawn(s)
  PROVE  SchedInv'
  <1>1. /\ threads' = [threads EXCEPT ![s] = NewThread(nextPid)] /\ threads[s].state = "Empty"
        /\ live' = live \cup {nextPid} /\ nextPid' = nextPid + 1
        /\ UNCHANGED <<current, waiters, now, ready, fatal>>
    BY DEF Spawn
  <1>2. NewThread(nextPid) \in ThreadRecord /\ NewThread(nextPid).state = "Ready"
        /\ NewThread(nextPid).pid = nextPid /\ ~NewThread(nextPid).frame
    <2>1. nextPid \in Nat
      BY DEF SchedInv, TypeInv
    <2>2. EmptyThread \in ThreadRecord /\ ~EmptyThread.frame
      BY Empties DEF EmptyThread
    <2> QED BY <2>1, <2>2, ZenonT(30) DEF NewThread, ThreadRecord
  <1>3. TypeInv' /\ ~fatal'
    <2>2. threads' \in [Slots -> ThreadRecord]
      BY <1>1, <1>2 DEF SchedInv, TypeInv
    <2>3. nextPid' \in Nat \ {0} /\ live' \in SUBSET (1 .. nextPid' - 1)
      BY <1>1 DEF SchedInv, TypeInv
    <2> QED BY <1>1, <2>2, <2>3 DEF SchedInv, TypeInv
  <1>4. /\ threads'[s].state = "Ready" /\ threads'[s].pid = nextPid /\ ~threads'[s].frame
        /\ \A x \in Slots : x # s => threads'[x] = threads[x]
    BY <1>1, <1>2 DEF SchedInv, TypeInv
  <1>5. nextPid \notin live /\ nextPid # 0
    BY DEF SchedInv, TypeInv
  <1>6. (\A x \in Slots : threads'[x].state # "Exited") /\ RunsOnly(threads', current')
    BY <1>1, <1>4, ZenonT(30) DEF SchedInv, RunsOnly
  <1>7. Paired(threads', waiters')
    <2>1. \A x \in Slots : threads[x].state = "Blocked" \/ threads'[x].state = "Blocked" => threads'[x] = threads[x]
      BY <1>1, <1>4
    <2>2. \A w \in Slots : waiters[w].thread \in Slots
      BY ZenonT(30) DEF SchedInv, TypeInv, WaiterRecord
    <2> QED BY <1>1, <2>1, <2>2 DEF SchedInv, Paired
  <1>8. Owned(threads', live')
    <2>1. \A x \in Slots : x # s => threads[x].pid # nextPid
      BY <1>5 DEF SchedInv, Owned
    <2> QED BY <1>1, <1>4, <2>1 DEF SchedInv, Owned
  <1>9. OutcomeHonest' /\ NoLostWakeup'
    BY <1>1, <1>4, ZenonT(30) DEF SchedInv, OutcomeHonest, NoLostWakeup
  <1> QED BY <1>3, <1>6, <1>7, <1>8, <1>9 DEF SchedInv

(* The waiters a wake takes are those of the threads it readies, all blocked. *)
LEMMA TakenThreads ==
  ASSUME NEW ts, NEW ws, Paired(ts, ws), NEW W, W \in SUBSET {w \in Slots : ws[w].active}
  PROVE  \A x \in Slots : /\ x \in ThreadsOf(ws, W) => ts[x].state = "Blocked"
                          /\ \A w \in Slots : ws[w].active /\ ws[w].thread = x =>
                               (w \in W <=> x \in ThreadsOf(ws, W))
  BY DEF Paired, ThreadsOf

(* Slot s is reaped while the threads T are woken: the waiters V of both are
   dropped, T becomes ready, and the others are as the dispatch left them. *)
Reaping(ts, ws, th, us, vs, s, T, V) ==
  /\ \A w \in Slots : ws[w].active =>
       ws[w].thread \in Slots /\ (w \in V <=> ws[w].thread = s \/ ws[w].thread \in T)
  /\ \A w \in Slots : IF w \in V THEN ~vs[w].active ELSE vs[w] = ws[w]
  /\ \A x \in Slots : ts[x].state # "Exited" /\ (x \in T => ts[x].state = "Blocked")
  /\ \A x \in Slots : x # s =>
       \/ th[x] = ts[x]
       \/ /\ ts[x].state = "Ready" /\ th[x].state = "Running" /\ th[x].pid = ts[x].pid
  /\ us[s] = EmptyThread
  /\ \A x \in Slots : x # s /\ x \in T =>
       us[x].state = "Ready" /\ us[x].pid = th[x].pid /\ us[x].frame = th[x].frame
  /\ \A x \in Slots : x # s /\ x \notin T => us[x] = th[x]

(* Blocked threads and waiters stay paired. *)
LEMMA ReapPaired ==
  ASSUME NEW ts, NEW ws, NEW th, NEW us, NEW vs, NEW s, NEW T, NEW V, Paired(ts, ws),
         Reaping(ts, ws, th, us, vs, s, T, V)
  PROVE  Paired(us, vs)
  <1>0. /\ \A x \in Slots : IF x = s \/ x \in T THEN us[x].state # "Blocked" ELSE us[x] = th[x]
        /\ \A x \in Slots : x # s /\ (ts[x].state = "Blocked" \/ th[x].state = "Blocked") => th[x] = ts[x]
        /\ \A w \in Slots : ws[w].active =>
             ws[w].thread \in Slots /\ (w \in V <=> ws[w].thread = s \/ ws[w].thread \in T)
        /\ \A w \in Slots : IF w \in V THEN ~vs[w].active ELSE vs[w] = ws[w]
    BY Empties, ZenonT(30) DEF Reaping
  <1>1. ASSUME NEW w \in Slots, vs[w].active
        PROVE  vs[w] = ws[w] /\ ws[w].active /\ us[ws[w].thread] = ts[ws[w].thread]
    BY <1>0, <1>1, ZenonT(30) DEF Paired
  <1>2. \A w \in Slots : vs[w].active =>
          /\ us[vs[w].thread].state = "Blocked" /\ us[vs[w].thread].pid = vs[w].pid
          /\ us[vs[w].thread].until = vs[w].deadline
    BY <1>1 DEF Paired
  <1>3. \A v, w \in Slots : vs[v].active /\ vs[w].active /\ vs[v].thread = vs[w].thread => v = w
    BY <1>1, ZenonT(30) DEF Paired
  <1>4. ASSUME NEW x \in Slots, us[x].state = "Blocked"
        PROVE  \E w \in Slots : vs[w].active /\ vs[w].thread = x
    <2>1. x # s /\ x \notin T /\ ts[x].state = "Blocked"
      BY <1>0, <1>4, ZenonT(30)
    <2>2. PICK w \in Slots : ws[w].active /\ ws[w].thread = x
      BY <2>1, ZenonT(30) DEF Paired
    <2> QED BY <1>0, <2>1, <2>2, ZenonT(30)
  <1> QED BY <1>2, <1>3, <1>4, ZenonT(30) DEF Paired

(* The other threads live on: they keep their process, and those that run are
   the ones the dispatch left running. *)
LivesOn(ts, th, us, s) ==
  \A x \in Slots : x # s =>
    /\ us[x].pid = ts[x].pid /\ (us[x].state = "Empty" <=> ts[x].state = "Empty")
    /\ us[x].state # "Exited" /\ (us[x].state = "Running" <=> th[x].state = "Running")
    /\ us[x].frame = th[x].frame

(* What happens to the threads that are not reaped. *)
LEMMA ReapThreads ==
  ASSUME NEW ts, NEW ws, NEW th, NEW us, NEW vs, NEW s, NEW T, NEW V, Reaping(ts, ws, th, us, vs, s, T, V)
  PROVE  LivesOn(ts, th, us, s)
  BY DEF Reaping, LivesOn

(* Slot s of process pid, and no other, is cleared. *)
Vacated(ts, us, s, pid, pids) ==
  /\ Owned(ts, pids) /\ 0 \notin pids /\ us[s].state = "Empty" /\ us[s].pid = 0
  /\ \A x \in Slots : x # s =>
       ts[x].pid # pid /\ us[x].pid = ts[x].pid /\ (us[x].state = "Empty" <=> ts[x].state = "Empty")

(* Then pid may leave the registry. *)
LEMMA ReapOwned ==
  ASSUME NEW ts, NEW us, NEW s, NEW pid, NEW pids, Vacated(ts, us, s, pid, pids)
  PROVE  Owned(us, pids \ {pid})
  <1>1. \A x \in Slots : us[x].state = "Empty" => us[x].pid = 0
    BY DEF Vacated, Owned
  <1>2. \A x \in Slots : us[x].state # "Empty" => x # s /\ us[x].pid \in pids \ {pid}
    BY DEF Vacated, Owned
  <1>3. ASSUME NEW x \in Slots, NEW y \in Slots, us[x].state # "Empty", us[x].pid = us[y].pid
        PROVE  x = y
    <2>1. x # s /\ y # s
      BY <1>2, <1>3 DEF Vacated
    <2> QED BY <1>3, <2>1 DEF Vacated, Owned
  <1> QED BY <1>1, <1>2, <1>3, ZenonT(30) DEF Owned

(* The dying thread s has left th, whose other threads are those of before but
   for the one switched to. *)
Dying(s, th) ==
  /\ threads[s].state # "Empty" /\ th \in [Slots -> ThreadRecord] /\ RunsOnly(th, current')
  /\ th[s].state = "Exited" /\ th[s].pid = threads[s].pid
  /\ \A x \in Slots : x # s =>
       \/ th[x] = threads[x]
       \/ /\ threads[x].state = "Ready" /\ th[x].state = "Running" /\ th[x].pid = threads[x].pid

(* The hooks wake the waiters W of the keys K, the reap cancels the waiters of
   the process and clears its slot. *)
Torn(s, th, K, W) ==
  /\ K \in SUBSET Keys /\ W = UNION {Takes(waiters, k) : k \in K}
  /\ threads' = Reaped(Wake(th, ThreadsOf(waiters, W), "Woken"), threads[s].pid)
  /\ waiters' = Deactivate(waiters, W \cup OfProcess(waiters, threads[s].pid))
  /\ live' = live \ {threads[s].pid}
  /\ ready' = [k \in Keys |-> ready[k] \/ k \in K]
  /\ UNCHANGED <<nextPid, now, fatal>>

(* Teardown keeps the invariant. *)
LEMMA ReapInv ==
  ASSUME SchedInv, NEW s \in Slots, NEW th, Dying(s, th), NEW K, NEW W, Torn(s, th, K, W)
  PROVE  SchedInv'
  <1> DEFINE pid == threads[s].pid
             V == W \cup OfProcess(waiters, pid)
             wk == Wake(th, ThreadsOf(waiters, W), "Woken")
  <1>0. /\ threads \in [Slots -> ThreadRecord] /\ waiters \in [Slots -> WaiterRecord]
        /\ Paired(threads, waiters) /\ Owned(threads, live)
        /\ Honest(threads, now) /\ \A x \in Slots : threads[x].state # "Exited"
    BY HonestNow DEF SchedInv, TypeInv
  <1>1. W \in SUBSET {w \in Slots : waiters[w].active} /\ \A k \in K : OnKey(waiters, k) \subseteq W
    BY TakesAll DEF Torn
  <1>2. \A x \in Slots : x # s => threads[x].pid # pid /\ th[x].pid = threads[x].pid
    BY <1>0, ZenonT(30) DEF Owned, Dying
  <1>2a. th \in [Slots -> ThreadRecord] /\ th[s].state = "Exited" /\ th[s].pid = pid
    BY ZenonT(30) DEF Dying
  <1>2b. \A x \in Slots : x # s =>
           \/ th[x] = threads[x]
           \/ /\ threads[x].state = "Ready" /\ th[x].state = "Running" /\ th[x].pid = threads[x].pid
    BY ZenonT(30) DEF Dying
  <1>3. \A w \in Slots : waiters[w].active =>
          waiters[w].thread \in Slots /\ (w \in OfProcess(waiters, pid) <=> waiters[w].thread = s)
    BY <1>0, <1>2 DEF Paired, OfProcess, WaiterRecord
  <1>4. \A x \in Slots : /\ x \in ThreadsOf(waiters, W) => threads[x].state = "Blocked"
                         /\ \A w \in Slots : waiters[w].active /\ waiters[w].thread = x =>
                              (w \in W <=> x \in ThreadsOf(waiters, W))
    BY <1>0, <1>1, TakenThreads
  <1>5. wk \in [Slots -> ThreadRecord] /\ wk[s].pid = pid
        /\ \A x \in Slots : /\ x \notin ThreadsOf(waiters, W) => wk[x] = th[x]
                            /\ wk[x].pid = th[x].pid /\ wk[x].frame = th[x].frame
                            /\ x # s /\ x \in ThreadsOf(waiters, W) =>
                                 wk[x].state = "Ready" /\ wk[x].outcome = "Woken"
    <2>1. wk \in [Slots -> ThreadRecord]
      BY <1>2a, ZenonT(30) DEF Wake, ThreadRecord, Outcomes
    <2>2. \A x \in Slots : /\ x \notin ThreadsOf(waiters, W) => wk[x] = th[x]
                           /\ wk[x].pid = th[x].pid /\ wk[x].frame = th[x].frame
      BY <1>2a, ZenonT(30) DEF Wake, ThreadRecord
    <2>3. \A x \in Slots : x # s /\ x \in ThreadsOf(waiters, W) =>
            wk[x].state = "Ready" /\ wk[x].outcome = "Woken"
      <3>1. \A x \in Slots : x # s /\ x \in ThreadsOf(waiters, W) => th[x].state = "Blocked"
        BY <1>2b, <1>4, ZenonT(30)
      <3> QED BY <1>2a, <3>1, ZenonT(30) DEF Wake, ThreadRecord
    <2> QED BY <1>2a, <2>1, <2>2, <2>3, ZenonT(30)
  <1> HIDE DEF wk
  <1>6. threads'[s] = EmptyThread /\ \A x \in Slots : x # s => threads'[x] = wk[x]
    <2>1. ThreadsOf(waiters, OfProcess(waiters, pid)) \subseteq {s}
      BY <1>3, ZenonT(30) DEF ThreadsOf, OfProcess
    <2>2. threads' = [x \in Slots |-> IF wk[x].pid = pid THEN EmptyThread
                        ELSE Wake(wk, ThreadsOf(waiters, OfProcess(waiters, pid)), "Cancelled")[x]]
      BY ZenonT(30) DEF Torn, Reaped, wk
    <2>3. \A x \in Slots : x # s => wk[x].pid # pid
      BY <1>2, <1>5
    <2>4. \A x \in Slots : x # s => Wake(wk, ThreadsOf(waiters, OfProcess(waiters, pid)), "Cancelled")[x] = wk[x]
      BY <2>1, ZenonT(30) DEF Wake
    <2>5. threads'[s] = EmptyThread
      BY <1>5, <2>2, ZenonT(30)
    <2>6. ASSUME NEW x \in Slots, x # s
          PROVE  threads'[x] = wk[x]
      <3>1. threads'[x] = Wake(wk, ThreadsOf(waiters, OfProcess(waiters, pid)), "Cancelled")[x]
        BY <2>2, <2>3, <2>6, ZenonT(30)
      <3> QED BY <2>4, <2>6, <3>1, ZenonT(30)
    <2> QED BY <2>5, <2>6, ZenonT(30)
  <1>7. threads' \in [Slots -> ThreadRecord]
    <2>1. threads' = [x \in Slots |-> threads'[x]]
      BY ZenonT(30) DEF Torn, Reaped
    <2>2. \A x \in Slots : threads'[x] \in ThreadRecord
      BY <1>5, <1>6, Empties, ZenonT(30)
    <2> QED BY <2>1, <2>2, ZenonT(30)
  <1>8. waiters' \in [Slots -> WaiterRecord]
        /\ \A w \in Slots : IF w \in V THEN ~waiters'[w].active ELSE waiters'[w] = waiters[w]
    BY <1>0, Empties DEF Torn, Deactivate
  <1> HIDE DEF V
  <1>9. \A w \in Slots : waiters[w].active =>
          (w \in V <=> waiters[w].thread = s \/ waiters[w].thread \in ThreadsOf(waiters, W))
    BY <1>3, <1>4, ZenonT(30) DEF V
  <1>10. \A x \in Slots : IF x = s \/ x \in ThreadsOf(waiters, W) THEN threads'[x].state # "Blocked"
                          ELSE threads'[x] = th[x]
    <2>1. threads'[s].state # "Blocked"
      BY <1>6, Empties, ZenonT(30)
    <2>2. ASSUME NEW x \in Slots, x # s, x \in ThreadsOf(waiters, W)
          PROVE  threads'[x].state # "Blocked"
      BY <1>5, <1>6, <2>2, ZenonT(30)
    <2>3. ASSUME NEW x \in Slots, x # s, x \notin ThreadsOf(waiters, W)
          PROVE  threads'[x] = th[x]
      BY <1>5, <1>6, <2>3, ZenonT(30)
    <2> QED BY <2>1, <2>2, <2>3, ZenonT(30)
  <1>11. \A x \in Slots : x # s /\ (threads[x].state = "Blocked" \/ th[x].state = "Blocked") => th[x] = threads[x]
    BY <1>2b, ZenonT(30)
  <1>12. Reaping(threads, waiters, th, threads', waiters', s, ThreadsOf(waiters, W), V)
    <2>1. \A w \in Slots : waiters[w].active => waiters[w].thread \in Slots /\
            (w \in V <=> waiters[w].thread = s \/ waiters[w].thread \in ThreadsOf(waiters, W))
      BY <1>3, <1>9, ZenonT(30)
    <2>2. \A x \in Slots : x \in ThreadsOf(waiters, W) => threads[x].state = "Blocked"
      BY <1>4, ZenonT(30)
    <2>3. ASSUME NEW x \in Slots, x # s, x \in ThreadsOf(waiters, W)
          PROVE  threads'[x].state = "Ready" /\ threads'[x].pid = th[x].pid /\ threads'[x].frame = th[x].frame
      <3>1. threads'[x] = wk[x]
        BY <1>6, <2>3, ZenonT(30)
      <3>2. wk[x].state = "Ready" /\ wk[x].pid = th[x].pid /\ wk[x].frame = th[x].frame
        BY <1>5, <2>3, ZenonT(30)
      <3> QED BY <3>1, <3>2, ZenonT(30)
    <2>4. \A x \in Slots : x # s /\ x \notin ThreadsOf(waiters, W) => threads'[x] = th[x]
      BY <1>5, <1>6, ZenonT(30)
    <2> QED BY <1>0, <1>2b, <1>6, <1>8, <2>1, <2>2, <2>3, <2>4, ZenonT(30) DEF Reaping
  <1>13. /\ Paired(threads', waiters')
         /\ \A x \in Slots : x # s =>
              /\ threads'[x].pid = threads[x].pid /\ (threads'[x].state = "Empty" <=> threads[x].state = "Empty")
              /\ threads'[x].state # "Exited" /\ (threads'[x].state = "Running" <=> th[x].state = "Running")
              /\ threads'[x].frame = th[x].frame
    <2>1. Paired(threads', waiters')
      BY <1>0, <1>12, ReapPaired, ZenonT(30)
    <2>2. LivesOn(threads, th, threads', s)
      BY <1>12, ReapThreads, ZenonT(30)
    <2> QED BY <2>1, <2>2, ZenonT(30) DEF LivesOn
  <1>14. Owned(threads', live')
    <2>1. 0 \notin live /\ live' = live \ {pid}
      BY DEF SchedInv, TypeInv, Torn
    <2>2. \A x \in Slots : x # s => threads[x].pid # pid
      BY <1>2, ZenonT(30)
    <2>3. threads'[s].state = "Empty" /\ threads'[s].pid = 0
      BY <1>6, Empties, ZenonT(30)
    <2>4. Vacated(threads, threads', s, pid, live)
      BY <1>0, <1>13, <2>1, <2>2, <2>3, ZenonT(30) DEF Vacated
    <2>5. Owned(threads', live \ {pid})
      BY <2>4, ReapOwned, ZenonT(30)
    <2> QED BY <2>1, <2>5, ZenonT(30)
  <1>15. RunsOnly(threads', current')
    <2>1. current' # s /\ RunsOnly(th, current')
      BY ZenonT(30) DEF Dying, RunsOnly
    <2>2. \A x \in Slots : x # s => (threads'[x].state = "Running" <=> th[x].state = "Running")
                                    /\ threads'[x].frame = th[x].frame
      BY <1>13, ZenonT(30)
    <2>3. threads'[s].state # "Running"
      BY <1>6, Empties, ZenonT(30)
    <2> QED BY <2>1, <2>2, <2>3, ZenonT(30) DEF RunsOnly
  <1>16. Honest(threads', now)
    <2>1. \A x \in Slots : x # s /\ x \in ThreadsOf(waiters, W) => threads'[x].outcome = "Woken"
      BY <1>5, <1>6, ZenonT(30)
    <2>2. \A x \in Slots : x # s /\ x \notin ThreadsOf(waiters, W) /\ threads'[x].state = "Ready" =>
            threads'[x] = threads[x]
      BY <1>2b, <1>10, ZenonT(30)
    <2>3. ASSUME NEW x \in Slots, threads'[x].state = "Ready"
          PROVE  threads'[x].outcome = "Woken" \/ threads'[x] = threads[x]
      <3>1. x # s
        BY <1>6, <2>3, Empties, ZenonT(30)
      <3> QED BY <2>1, <2>2, <2>3, <3>1, ZenonT(30)
    <2> QED BY <1>0, <2>3, ZenonT(30) DEF Honest
  <1>17. NoLostWakeup'
    <2>1. V \in SUBSET Slots /\ \A k \in K : OnKey(waiters, k) \subseteq V
      BY <1>1, ZenonT(30) DEF V, OfProcess
    <2>2. \A w \in Slots : waiters'[w].active => w \notin V /\ waiters'[w] = waiters[w]
      BY <1>8, ZenonT(30)
    <2>3. NoLostWakeup /\ ready' = [k \in Keys |-> ready[k] \/ k \in K] /\ K \in SUBSET Keys
      BY ZenonT(30) DEF Torn, SchedInv
    <2> QED BY <2>1, <2>2, <2>3, WakesAll, ZenonT(30)
  <1>18. TypeInv' /\ ~fatal'
    BY <1>7, <1>8, ZenonT(30), ZenonT(30) DEF SchedInv, TypeInv, Torn
  <1>19. OutcomeHonest'
    BY <1>16, ZenonT(30) DEF OutcomeHonest, Honest, Torn
  <1>20. \A x \in Slots : threads'[x].state # "Exited"
    BY <1>6, <1>13, Empties, ZenonT(30)
  <1> QED BY <1>13, <1>14, <1>15, <1>17, <1>18, <1>19, <1>20, ZenonT(30) DEF SchedInv

(* The running process exits: its successor is chosen before the hooks run. *)
LEMMA ExitCurrentInv ==
  ASSUME SchedInv, NEW s \in Slots, NEW K \in SUBSET Keys, ExitCurrent(s, K)
  PROVE  SchedInv'
  <1> DEFINE gone == [threads EXCEPT ![s].state = "Exited"]
             W == UNION {Takes(waiters, k) : k \in K}
  <1>1. current = s /\ threads[s].state = "Running"
    BY DEF ExitCurrent, InSyscall, SchedInv, RunsOnly
  <1>2. PICK sw \in Switched(gone, resume, s) :
          /\ threads' = Reaped(Wake(sw.threads, ThreadsOf(waiters, W), "Woken"), threads[s].pid)
          /\ current' = sw.current
    BY DEF ExitCurrent
  <1>2a. current' = sw.current
    BY <1>2
  <1>3. /\ waiters' = Deactivate(waiters, W \cup OfProcess(waiters, threads[s].pid))
        /\ live' = live \ {threads[s].pid}
        /\ ready' = [k \in Keys |-> ready[k] \/ k \in K]
        /\ UNCHANGED <<nextPid, now, fatal>>
    BY DEF ExitCurrent
  <1>4. /\ gone \in [Slots -> ThreadRecord] /\ gone[s].state = "Exited" /\ gone[s].pid = threads[s].pid
        /\ \A x \in Slots : x # s => gone[x] = threads[x]
    BY DEF SchedInv, TypeInv, ThreadRecord
  <1> HIDE DEF gone, W
  <1>5. \A x \in Slots : gone[x].state # "Running"
    BY <1>1, <1>4, ZenonT(30) DEF SchedInv, RunsOnly
  <1>6. /\ sw.threads \in [Slots -> ThreadRecord] /\ RunsOnly(sw.threads, current')
        /\ \A x \in Slots : \/ sw.threads[x] = gone[x]
                            \/ /\ gone[x].state = "Ready" /\ sw.threads[x].state = "Running"
                               /\ sw.threads[x].pid = gone[x].pid
    <2>1. SwitchedTo(gone, sw.threads, sw.current)
      BY <1>4, <1>5, SwitchKeeps, ZenonT(30)
    <2> QED BY <1>2a, <2>1, ZenonT(30) DEF SwitchedTo
  <1>7. sw.threads[s].state = "Exited" /\ sw.threads[s].pid = threads[s].pid
    BY <1>4, <1>6, ZenonT(30)
  <1>8. \A x \in Slots : x # s =>
          \/ sw.threads[x] = threads[x]
          \/ /\ threads[x].state = "Ready" /\ sw.threads[x].state = "Running"
             /\ sw.threads[x].pid = threads[x].pid
    BY <1>4, <1>6
  <1>9. Dying(s, sw.threads)
    BY <1>1, <1>6, <1>7, <1>8, ZenonT(30) DEF Dying
  <1>10. Torn(s, sw.threads, K, W)
    BY <1>2, <1>3, ZenonT(30) DEF Torn, W
  <1> QED BY <1>9, <1>10, ReapInv, ZenonT(30)

(* Another process is torn down while the running one goes on. *)
LEMMA TeardownOtherInv ==
  ASSUME SchedInv, NEW s \in Slots, NEW K \in SUBSET Keys, TeardownOther(s, K)
  PROVE  SchedInv'
  <1> DEFINE th == [threads EXCEPT ![s].state = "Exited"]
             W == UNION {Takes(waiters, k) : k \in K}
  <1>1. /\ threads' = Reaped(Wake(th, ThreadsOf(waiters, W), "Woken"), threads[s].pid)
        /\ waiters' = Deactivate(waiters, W \cup OfProcess(waiters, threads[s].pid))
        /\ live' = live \ {threads[s].pid}
        /\ ready' = [k \in Keys |-> ready[k] \/ k \in K]
        /\ UNCHANGED <<nextPid, now, fatal>> /\ current' = current
        /\ s # current /\ threads[s].state \in {"Ready", "Blocked"}
    BY DEF TeardownOther
  <1>2. /\ th \in [Slots -> ThreadRecord] /\ th[s].state = "Exited" /\ th[s].pid = threads[s].pid
        /\ \A x \in Slots : x # s => th[x] = threads[x]
    BY DEF SchedInv, TypeInv, ThreadRecord
  <1> HIDE DEF th
  <1>3. RunsOnly(th, current')
    BY <1>1, <1>2, ZenonT(30) DEF SchedInv, RunsOnly
  <1>4. Dying(s, th)
    BY <1>1, <1>2, <1>3, ZenonT(30) DEF Dying
  <1>5. Torn(s, th, K, W)
    BY <1>1, ZenonT(30) DEF Torn
  <1> HIDE DEF W
  <1> QED BY <1>4, <1>5, ReapInv, ZenonT(30)

-----------------------------------------------------------------------------
(* One thread runs at boot. *)
LEMMA SchedInitInv == Init => SchedInv
  <1> SUFFICES ASSUME Init PROVE SchedInv
    OBVIOUS
  <1> USE Empties
  <1>1. [NewThread(1) EXCEPT !.state = "Running"] \in ThreadRecord
        /\ [NewThread(1) EXCEPT !.state = "Running"].state = "Running"
        /\ [NewThread(1) EXCEPT !.state = "Running"].pid = 1
        /\ ~[NewThread(1) EXCEPT !.state = "Running"].frame
    BY ZenonT(30) DEF NewThread, EmptyThread, ThreadRecord, Outcomes
  <1>2. TypeInv /\ ~fatal
    BY <1>1 DEF Init, TypeInv
  <1>3. \A s \in Slots : IF s = 0 THEN threads[s].state = "Running" /\ threads[s].pid = 1 /\ ~threads[s].frame
                                  ELSE threads[s].state = "Empty" /\ threads[s].pid = 0
    BY <1>1, ZenonT(30) DEF Init
  <1>4. \A w \in Slots : ~waiters[w].active
    BY DEF Init
  <1>5. Paired(threads, waiters) /\ NoLostWakeup
    BY <1>3, <1>4, ZenonT(30), ZenonT(30) DEF Paired, NoLostWakeup
  <1>6. Owned(threads, live) /\ RunsOnly(threads, current) /\ OutcomeHonest
        /\ \A s \in Slots : threads[s].state # "Exited"
    <2>1. current = 0 /\ live = {1} /\ 0 \in Slots
      BY DEF Init
    <2>2. Owned(threads, live)
      <3>1. \A s \in Slots : threads[s].state = "Empty" <=> s # 0
        BY <1>3, ZenonT(30)
      <3>2. \A s \in Slots : IF s = 0 THEN threads[s].pid = 1 ELSE threads[s].pid = 0
        BY <1>3, ZenonT(30)
      <3>3. \A s, t \in Slots : s = 0 /\ threads[s].pid = threads[t].pid => s = t
        BY <3>2
      <3> QED BY <2>1, <3>1, <3>2, <3>3, ZenonT(30) DEF Owned
    <2>3. RunsOnly(threads, current) /\ \A s \in Slots : threads[s].state # "Exited"
      BY <1>3, <2>1 DEF RunsOnly
    <2>4. OutcomeHonest
      BY <1>3 DEF OutcomeHonest
    <2> QED BY <2>2, <2>3, <2>4
  <1> QED BY <1>2, <1>5, <1>6, ZenonT(30) DEF SchedInv

(* The invariant is inductive: one case per action. *)
LEMMA SchedNextInv == SchedInv /\ [Next]_vars => SchedInv'
  <1> SUFFICES ASSUME SchedInv, [Next]_vars PROVE SchedInv'
    OBVIOUS
  <1>1. ASSUME NEW k \in Keys, Produce(k) PROVE SchedInv'
    BY <1>1, ProduceInv
  <1>2. CASE Tick
    BY <1>2, TickInv
  <1>3. CASE IdleLoop
    BY <1>3, IdleLoopInv
  <1>4. ASSUME NEW s \in Slots, Spawn(s) PROVE SchedInv'
    BY <1>4, SpawnInv
  <1>5. ASSUME NEW s \in Slots, NEW k \in Keys, WaitReady(s, k) PROVE SchedInv'
    BY <1>5, WaitReadyInv
  <1>6. ASSUME NEW s \in Slots, NEW k \in Keys, NEW d \in Deadlines,
               WaitNative(s, k, d) \/ WaitRestart(s, k, d) \/ WaitUnless(s, k, d)
        PROVE  SchedInv'
    <2>1. d \in Nat
      BY SchedulerConstants DEF Deadlines, Never, SchedInv, TypeInv
    <2>2. CASE WaitNative(s, k, d) /\ k \in pending
      <3>1. UNCHANGED <<threads, current, waiters, fatal, live, nextPid, now, ready>>
        BY <2>2 DEF WaitNative
      <3> QED BY <3>1 DEF SchedInv, TypeInv, OutcomeHonest, NoLostWakeup
    <2>3. CASE ~(WaitNative(s, k, d) /\ k \in pending)
      <3>1. /\ InSyscall(s) /\ ~ready[k] /\ UNCHANGED <<live, nextPid, now, ready>>
            /\ Block(s, k, d, "Native") \/ Block(s, k, d, "Restart")
        BY <1>6, <2>3 DEF WaitNative, WaitRestart, WaitUnless
      <3> QED BY <2>1, <3>1, BlockInv
    <2> QED BY <2>2, <2>3
  <1>7. ASSUME NEW s \in Slots, NEW K \in {{}} \cup {{k} : k \in Keys}, ExitCurrent(s, K) \/ TeardownOther(s, K)
        PROVE  SchedInv'
    BY <1>7, ExitCurrentInv, TeardownOtherInv, ZenonT(30)
  <1>8. CASE UNCHANGED vars
    BY <1>8 DEF vars, SchedInv, TypeInv, OutcomeHonest, NoLostWakeup
  <1> QED BY <1>1, <1>2, <1>3, <1>4, <1>5, <1>6, <1>7, <1>8 DEF Next

(* The inductive invariant holds in every reachable state. *)
THEOREM SchedInvariance == Spec => []SchedInv
  BY SchedInitInv, SchedNextInv, PTL DEF Spec

(* Blocked threads and active waiters correspond one to one, and the wait table
   never runs out (enqueue_current_waiter), however many threads there are. *)
THEOREM WaitersMatchThreadsCorrect == Spec => []WaitersMatchThreads
  <1>1. SchedInv => WaitersMatchThreads
    <2> SUFFICES ASSUME SchedInv PROVE WaitersMatchThreads
      OBVIOUS
    <2>1. \A w \in Slots : waiters[w].active => waiters[w].thread \in Slots
      BY DEF SchedInv, TypeInv, WaiterRecord
    <2>2. ASSUME NEW s \in Slots, threads[s].state = "Blocked"
          PROVE  Cardinality({w \in Slots : waiters[w].active /\ waiters[w].thread = s}) = 1
      <3>1. PICK w \in Slots : waiters[w].active /\ waiters[w].thread = s
        BY <2>2, ZenonT(30) DEF SchedInv, Paired
      <3>2. {v \in Slots : waiters[v].active /\ waiters[v].thread = s} = {w}
        BY <3>1 DEF SchedInv, Paired
      <3> QED BY <3>2, FS_Singleton, ZenonT(30)
    <2>3. \A w \in Slots : waiters[w].active =>
            /\ threads[waiters[w].thread].state = "Blocked"
            /\ threads[waiters[w].thread].pid = waiters[w].pid
            /\ threads[waiters[w].thread].pid \in live
            /\ threads[waiters[w].thread].until = waiters[w].deadline
      BY <2>1, ZenonT(30) DEF SchedInv, Paired, Owned
    <2> QED BY <2>2, <2>3, ZenonT(30) DEF SchedInv, WaitersMatchThreads
  <1> QED BY <1>1, SchedInvariance, PTL

(* No thread stays blocked on a key whose condition holds: the check and the
   registration are one step (block_current_thread_unless) and a producer wakes
   every registered waiter (take_registered). *)
THEOREM NoLostWakeupCorrect == Spec => []NoLostWakeup
  <1>1. SchedInv => NoLostWakeup
    BY ZenonT(30) DEF SchedInv
  <1> QED BY <1>1, SchedInvariance, PTL

(* A blocked call reports TimedOut only after its own deadline (expire_deadlines)
   and never reports Cancelled (cancel_waiters_for_process, then the reap). *)
THEOREM OutcomeCorrect == Spec => []OutcomeHonest
  <1>1. SchedInv => OutcomeHonest
    BY DEF SchedInv
  <1> QED BY <1>1, SchedInvariance, PTL
=============================================================================
