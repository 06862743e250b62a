# Verification of clean-slate

clean-slate is a single-CPU operating system in Rust: a capability kernel, a
crash-safe object store, a port-based service protocol, a supervisor in
userspace, a Linux personality and a network stack. This directory holds TLA+
models of its stateful parts, the TLC configurations that check them on small
instances, and TLAPS proofs for instances of any size.

Contents: [1 The system](#1-the-system) · [2 Modules and
code](#2-modules-and-code) · [3 Runs](#3-runs) · [4 Fairness](#4-fairness) ·
[5 Proofs](#5-proofs) · [6 Disagreements](#6-disagreements-between-code-and-documents)
· [7 What is not modelled](#7-what-is-not-modelled)

To run: `tlc -config MCScheduler.cfg MCScheduler`, and so on for each row of
section 3; `tlapm SchedulerProofs.tla` for a module of proofs.

## 1 The system

### 1.1 Parts, state and operations

| Part (source) | State | Operations that change it | Modelled in |
|---|---|---|---|
| Object store (`store/src/lib.rs`) | generation, active slot, staged objects; two superblock slots and two data arenas on the device | format, mount, write_object, commit | `ObjectStore` |
| Block device contract (`block/`) | volatile and durable content of each block | write, flush, write-back, power loss, errors | `BlockDevice` |
| Capability table (`capability/`) | slots with state, generation, holder, rights, parent and depth | grant, install, revoke_slot, release_slot, delegate, revoke_subtree | `CapabilityTable` |
| Kernel capability space (`kernel/src/capability/`) | the global table, the grants parked for claiming | root grants, delegation, revocation, claim, fork inheritance, exit hooks | `CapabilitySpace` |
| Scheduler and waits (`kernel/src/sched/{mod,wait,idle}.rs`) | thread slots, current thread, wait table, pending wakes, resume contracts | tick, block, wake, expire, exit, spawn, idle | `Scheduler` |
| Work sets (`kernel/src/sched/work_set.rs`) | per slot: holder, generation, ready and armed bits; bindings held by sources | create, destroy, wait, bind, signal, holder exit | `WorkSet` |
| Shared buffers (`kernel/src/mm/shared_buffer/`) | rows of buffers, windows, attachments, pins, frames pending to be freed | create, map, unmap, release, reconcile, pin, drain | `SharedBuffers` |
| Input queue (`kernel/src/device/input/`) | ring of records, pending loss, devices, the bound consumer | record, lose a device, return, read a batch, release | `InputQueue` |
| Process teardown (`kernel/src/process/domain.rs`) | what the processes hold | the hooks of one exit, in order | `ProcessTeardown` |
| Service ports (`port/`, `kernel/src/service/port*.rs`) | port registry, connection pool, request queue, event rings, transfers | register, connect, send, receive, post, close, disconnect, bind, exit, revoke | `PortEngine` |
| Lifecycle rules (`service-lifecycle/`) | a service's state and generation | control and event transitions | `ServiceLifecycle` |
| Lifecycle controller (`kernel/src/service/control.rs`) | a record per service, a fixed queue of events | Start, Restart, ready, fault, exit, poll | `LifecycleController` |
| Supervisor (`supervisor/`) | registry, health watches, recovery slots, its event inbox | start, restart, drain, fail, drive, advance ticks, reports | `Supervisor` |
| Object requests (`kernel/src/capability/object.rs`) | request slots, their owner and stage | submit, poll, take, complete, requeue, reclaim | `ObjectQueue` |
| Block bridge and driver (`kernel/src/service/block_bridge.rs`, `kernel/src/device/virtio/block.rs`) | one request in flight, its deadline and owner; the shared descriptors | submit, harvest, expire, abandon, drain | `BlockBridge` |
| Storage service (`store/src/bin/userspace.rs`) | the mounted table, the request it works on | its loop, crashes and restarts | `Storage` |
| Linux descriptors and pipes (`kernel/src/process/linux_fd/`, `linux_proc/pipe.rs`) | tables, open descriptions, pipes | pipe, dup2, fcntl, close, inherit, read, write | `LinuxFds` |
| Linux processes (`kernel/src/process/linux_proc/`) | the process table, zombies, blocked calls | fork, execve, exit, exit_group, fault, wait4, stop | `LinuxProcess` |
| TCP (`network/src/tcp/`) | a connection, its buffers and timers; the transport around it | connect, send, receive, close, abort, segments, ticks | `TcpConnection`, `TcpTransport` |
| Network request bridge (`kernel/src/service/net_bridge.rs`) | request slots, holders, exits to report | submit, take, complete, register, requeue, shut down | `NetBridge` |
| Linux sockets (`kernel/src/process/linux_socket/`) | the socket pool, the request in flight, the prefetched receive | socket, connect, send, read, poll, close, release | `LinuxSockets` |
| Network service (`net-service/src/bin/userspace.rs`) | sessions, parked requests | its loop | `NetService` |

`PROJECT.json` lists every part with its sources, and for those left out the
reason.

### 1.2 How the parts interact

A process holds capabilities in the capability space; system calls authorise
against it. A service registers a **port** under a capability, and clients reach
it through connections. A message may carry a capability: SEND installs a
delegated child for the server, and purging the message revokes it. Servers
sleep in a **work set**; the port engine signals the bits they bound. Every
sleep, of a port call, a work set or a Linux call, goes through the
**scheduler's wait table**. When a process ends, its teardown visits all of
these: threads and waiters, capabilities held and capabilities over the process,
parked grants, shared buffers, ports and connections, work sets, the input
consumer, the object and network queues, and the **lifecycle controller**, which
queues an event for the **supervisor**. The supervisor restarts the service
within its policy. The storage service it restarts mounts the **object store**
again, over a device that did not lose power; the network service starts with
empty tables, and the **bridge** hands it the requests its predecessor had taken.

Kernel code runs with interrupts masked from the entry of a system call or an
interrupt to its end, on one CPU. This is the atomicity the kernel models use:
one action per system call or interrupt. The supervisor, the storage service and
the network service are userspace programs, and a step of theirs runs from one
system call to the next.

### 1.3 What makes it hard

* **Crashes and write-back.** Commit issues one flush, after the superblock.
  Between two device calls any subset of the unflushed blocks may reach the
  medium, blocks may be torn, calls may fail, the service may die, power may go.
* **Reuse.** Capability slots, connections, ports, work sets, thread slots, open
  descriptions, request slots and service instances are all slots with
  generations, and everybody keeps old names: parked handles, bindings, queued
  events, waiters, requests of dead instances.
* **Wakeups.** A condition is tested, then a waiter is registered; wakes come
  from system calls, interrupts, deadlines and exits, each through its own key.
* **Two views of one thing.** The kernel controller and the supervisor's
  registry follow the same service by events over a bounded queue, while the
  supervisor's handlers call each other in the middle of a recovery. The bridge
  and the network service both keep books on the same callers.
* **Late answers.** A device answers after its request was given up, a service
  after its caller timed out, closed or died; memory shared with the device stays
  in its hands meanwhile.
* **Partial failure.** Fork, delegation with parking, SEND with a transfer, and
  Restart followed by Start are sequences that can stop half way.
* **Bounds.** Queues of fixed size, depth limits, attempt limits, generations
  that run out, sequence numbers that wrap.

The hazards are listed line by line in `PROJECT.json`.

### 1.4 What correctness means

* Store: after any crash a mount exposes the acknowledged objects or those of a
  commit tried since, never a mixture and never nothing; end to end, an answered
  write survives the service that made it.
* Capabilities: authority only shrinks along a delegation, ends with its source,
  and a stale handle never regains meaning.
* Scheduling and waiting: nobody sleeps on a condition that holds, nobody is
  woken in the place of another, nobody ready starves.
* Memory: no frame is leaked, freed twice or mapped without its capability.
* Ports: counters equal contents, requests arrive in order, every transferred
  capability is delivered or revoked, every end is reported.
* Recovery: no failure is lost, restarts hit only what failed and stay within
  the budget, every failure is handled in the end.
* Linux: references are exact, an exit is kept for the parent, `wait4` returns.
* Network: each stream arrives intact, an end of stream is real, an answer finds
  its caller, and what an exited process had in the service is reclaimed.

## 2 Modules and code

Definitions keep the names of the functions they translate, and `PROJECT.json`
gives the lines. A definition marked *Mutant* or *Mutation* is a plausible bug in
the definition that follows it; it is used only to confirm that a property can
fail.

### 2.1 Object store: `BlockDevice`, `ObjectStore`, `CrashAtomicCell`

`BlockDevice` is the contract of the block crate: `live` is what reads return,
`durable` what a power loss leaves. A flush makes them equal, `PersistBlock` is
write-back of one block at any time, `LosePower` may tear one block on its way.

`ObjectStore` has the fields of the Rust struct. `format` and `commit` become a
list `todo` of device writes, and each write and the flush is a step, so
write-back, errors, process crashes and power loss fall between any two. The
return of the flush (`DeviceFlush`) and the return of `commit` to its caller
(`ReturnOk`) are two steps. A failing write that reached the device all the same
is `DeviceWrite` followed by `DeviceError`. A superblock is a record, a payload a
sequence of blocks, and `BlockSum` gives the byte sum of a block, so `checksum`
is the code's wrapping sum without the wrap. `acked`, `tried` and `abandoned` are
history. The storage service exits when mount reports a corrupt store
(`store/src/bin/userspace.rs`), so the model may stop: deadlock is not an error
there, nor when generations and faults are used up.

`CrashAtomicCell` is what the store promises: a value that a power loss exposes,
which is the acknowledged one or one tried since. `ObjectStore` implements it
with `stable <- Recovered(durable)`, the table a mount of the durable image would
find. The refinement is checked as the property `CellSpec`.

### 2.2 Capabilities: `CapabilityTable`, `CapabilitySpace`

`CapabilityTable` has the crate's algorithms as operators on a table value:
installing in the first usable slot (retiring exhausted slots on the way, as
`pick_empty_slot` does), revoking, releasing with a generation bump, delegation
with attenuation and a depth limit, and `revoke_subtree` with its bounded number
of passes (`Subtree`) and its early failure on an unresolvable parent
(`Orphans`). `CapabilitySpace` has the kernel's operations: root grants with
their release-and-retry, parked grants, delegation with parking and its rollback,
claim, revocation by holder or ancestor, destruction of a resource, process exit
in the order of the teardown hooks, and fork, which either copies every
capability, or fails at the depth limit, or fails for want of slots, each with
what the code undoes and what it does not. Resource classes are left out: rights
are a set, of which `RootOnly` are those only a root grant may carry. Parked
grants are claimed in any order, which contains the code's.

### 2.3 Scheduling: `Scheduler`

`Scheduler` has the thread slots, the wait table, the pending wakes and the
resume contracts. `ready[k]` stands for the condition a system call on key `k`
waits for. The three blocking calls differ as in the code: `WaitNative` returns
at once on a pending wake, `WaitRestart` consumes and ignores it, `WaitUnless`
tests its condition and registers in one step. Producers set the condition and
wake, from a system call or an interrupt. `Tick` expires deadlines, then
switches; `IdleLoop` expires deadlines, then leaves idle if somebody can run.
Exits are `ExitCurrent`, which picks the successor before the teardown hooks run,
and `TeardownOther`. The system stops when the last thread has exited, so
deadlock is allowed.

### 2.4 Process teardown: `WorkSet`, `SharedBuffers`, `InputQueue`, `ProcessTeardown`

`WorkSet` adds sticky ready bits to waiting. It lets a holder have several
threads, which is more general than the kernel, where every userspace process has
one. `SharedBuffers` has the buffer rows, the windows of each process, the pins
of the kernel's own buffers and the queue of frames to be freed; it uses the
operators of `CapabilityTable` for the capabilities that name buffers, and counts
frames instead of naming them. `InputQueue` has the ring of input records, its
coalescing of motion above the high-water mark, and the Overflow record that
reports losses; a record stands for a range of the history `log`.

`ProcessTeardown` composes the three. `Exit` runs the hooks of one process in the
order of `TEARDOWN_HOOK_ORDER`, in one step, as the code does with interrupts
masked. The set `Loads` says which operations the processes of a behaviour use
and how worn the slots are that they find, so that one run covers several mixes.
It stops when everybody has exited.

### 2.5 Ports: `PortEngine`

One action per operation of the engine, effects included: the wakes it returns,
the work-set bits it signals, the capabilities it installs and revokes. A call
that would block parks the holder, and a wake makes it call again. Requests are a
set ordered by sequence number, an event ring is its length, and close notices
carry the sequence number that orders them among the requests. `authority` has
the connect, serve and shared-buffer capabilities of the parties, which `Revoke`
takes away at any time. There is one resource id, and registration is granted by
launch policy, so a port is registered again only after its server has gone.
Clients and servers may all exit, and sequence numbers are bounded, so deadlock
is allowed.

### 2.6 Recovery: `ServiceLifecycle`, `LifecycleController`, `Supervisor`

`ServiceLifecycle` is the transition table kernel and supervisor share.
`LifecycleController` is the kernel side, with its array of events: an event goes
into the first free slot, so events can be polled out of order, and a terminal
event displaces a less important one when the array is full. `Supervisor`
composes both with the userspace side. Its handlers call each other
(`drain_events` handles an event, which schedules a failure, which drives
restarts, which drain again), so the call stack is explicit, and a step runs from
one system call to the next; faults, exits and Ready notifications fall between
any two. Errors unwind the stack to `drain_service`, which ignores them, or stop
the program.

Abstractions: an instance is identified by its generation (every spawn bumps it);
`failed` stands for the failed process id; the status Degraded counts like Ok;
the policy Never is `MaxAttempts = 0`; the limit of 512 start attempts is
`StartTries`; the limits of 8 and 32 iterations of the drain loops are left out,
being far above what the queue can hold; a teardown that fails, and the printed
diagnostics, are left out. `apply_health_report` has no caller in the production
program, so reports occur in one of the systems of the run only. The supervisor
stops for good when `dead`, so deadlock is allowed.

### 2.7 Storage end to end: `ObjectQueue`, `BlockBridge`, `Storage`

`ObjectQueue` is the kernel's queue of object requests. `BlockBridge` is the
transport under the storage service: one request in flight with its owner and its
deadline, and the driver's descriptors, which the device reads when it gets to
them; a device that answers late, after its request was abandoned, still owns
them. `Storage` composes both with the client processes and with the service
loop of `store/src/bin/userspace.rs`, from one system call to the next. The
service crashes at any point and is restarted. `ObjectStore` is not used here:
mount, format and commit are the sequences of block requests they make, on a medium
of two slots with a superblock and the payloads of its table each, and every request
may fail. The payloads of a table are one request. A mount reads both superblocks,
tries the tables from the newest on, and when none loads it formats, provided that a
slot has no magic and no read failed; a commit that fails leaves the changed table in memory.
`AcknowledgedKept` assumes a device that keeps what it confirmed; what a power
loss does is the subject of `ObjectStore`. The property follows the newest write that
was answered Ok, by the order `at` in which writes were carried out, and names what
the code does not promise: the history `passedOver` is set when a mount takes an older
table because a read failed, and a write that was interrupted and is carried out again
counts as the later one.

### 2.8 Linux processes: `LinuxFds`, `LinuxProcess`

`LinuxFds` has the three tables under a descriptor: the process's own, the pool
of open descriptions with their reference counts, and the pool of pipes, which
count the descriptions of each end. `LinuxProcess` has the process table and the
calls: fork with its failures, `execve` (the descriptors it closes), `pipe`,
`dup2`, `fcntl`, `close`, `read`, `write`, `exit`, `exit_group`, faults, `wait4`
and the stop of a launched process. A blocked call sleeps on a key and runs again
from the top when woken. `halted` is `fatal_kernel_error`: the kernel stops, and
so does the model.

### 2.9 TCP: `TcpConnection`, `TcpTransport`

`TcpConnection` translates the state machine of `conn.rs` handler by handler, on
a sequence space small enough to wrap. `TcpTransport` puts one connection between
an application, a network that loses, duplicates and reorders segments, and a peer
that follows the protocol and may die. Network and peer are external. Every byte
is its position in its stream, so that a byte delivered twice, lost or moved shows.
The peer may probe a closed window with one byte and put its FIN on the probe when
that byte is its last; the history `app.cut` marks the one case in which the FIN is
then consumed and the byte is not.

### 2.10 Network: `NetBridge`, `LinuxSockets`, `NetService`, `Network`

`NetBridge` is the kernel's table of requests and of the callers the service keeps
state for. `LinuxSockets` has the calls of Linux processes on stream sockets,
brokered through it, with the Receive kept outstanding while nothing is buffered.
`NetService` is the loop of the service with its sessions and parked requests.
`Network` composes them with crashes, termination and restarts of the service.
`NoLostWakeup` asks an outstanding prefetch for whoever sleeps on a connected stream,
reader or poller, and names the three cases in which the code leaves one without
(`NothingToAwait`, section 6.2); the history `unarmed` of a process marks a poll that
could not arm. Not modelled: datagrams, the resolver, TLS, the submit and poll calls of native
clients, raw rings, sockets shared by fork, more than one socket per process, and
the bytes of a stream, which are present or not.

## 3 Runs

Each passing run explores its whole state space. Every action and every disjunct
is taken in some passing run. Types are proved or follow from the invariants; no
run is spent on them.

| Run | Instance | States | Properties |
|---|---|---|---|
| `store_power` | one object, payloads of 0, 1 and 2 blocks, two generations after format, two faults | 151 314 | `RecoverySafe`, `CellSpec` |
| `store_faults` | two ids and two names, one fault, process crashes and read errors | 930 121 | `SuperblocksConsistent`, `ActiveSlotUntouched` |
| `cap` | two Linux processes, 3 slots, generations to 3, depth 2 | 94 490 | `DelegationTree`, `NamesCurrent`, `RevokesDescendants`, `HandlesStable` |
| `sched` | 2 thread slots and idle, 3 processes, a key with pending wakes and one without, clock to 2 | 35 500 | `WaitersMatchThreads`, `NoLostWakeup`, `OutcomeHonest`, `ReadyThreadRuns`, `TimedWaitEnds` |
| `teardown` | 2 processes with 2 threads each, seven loads, 1 work set of 3 generations, 2 buffers, a ring of 3 | 306 269 | `NoStrandedWaiter`, `BindingStaysWithHolder`, `FramesAccounted`, `MappingsAuthorised`, `LossesInOrder` |
| `port` | 1 server with 2 clients and 2 connections; 2 servers in turn, 1 client, 1 connection slot of 2 generations | 576 017 | `QueuesServed`, `NoLostWakeup`, `DeliveredInOrder`, `ChildrenAccounted`, `EndsAreReported` |
| `sup_recovery` | 2 services, one needing the other, 2 attempts, 4 queue slots, failing spawns; 1 service with health reports | 480 435 | `ViewsAgree`, `RestartsJustified`, `FailureHandled` |
| `storage` | 2 clients, 2 objects, 2 request slots, 2 requests, 2 instances of the service | 979 116 | `AcknowledgedKept`, `DescriptorsStable`, `PollReturns` |
| `linux` | 4 processes without pipes; 3 over one pipe; 2 over two pipes with descriptor calls | 17 084 | `RefsAccounted`, `NoLostWakeup`, `ZombieKept`, `WaitReturns` |
| `tcp` | sequence space 10 that wraps in both directions, buffers of 2, a fault, a peer with a closing window | 403 178 | `StreamIntact`, `EndIsReal`, `NothingForgotten`, `CloseCompletes` |
| `network` | 1 process with every call; 1 with a restart; 2 in competition; 3 for 2 holder entries | 312 364 | `NoLostWakeup`, `BridgeAccounted`, `ExitReclaimed` |
| `store_restart` | as `store_power`, three generations, one fault, process crashes | violation | `RecoverySafe` |

Why the bounds are enough for the cases that matter:

* *Store.* A slot is overwritten for the first time by the second commit after
  the format, and two faults allow an error followed by a power loss. The payloads
  differ in their first block or share it, so new data can fail the checksum of a
  superblock left over from an undone commit, or match it. Two ids
  and two names give the replacing writes of `write_object`, among them the one
  that matches two different entries.
* *Capabilities.* A chain of depth 2 laid out against the slot order needs more
  than one pass of `revoke_subtree`. A slot is released under generation 2 and
  used again under generation 3, then retired, so every slot is reused and runs
  out. There is one right; attenuation is covered by the theorems of section 5,
  which hold for all values of the constants. The Linux processes are
  interchangeable: nothing compares or orders process ids.
* *Scheduler.* Two slots and three processes give contention, wrap-around of the
  round robin, both threads blocked under the idle thread, and a slot reused by a
  process whose predecessor left a waiter behind. A deadline can be due at once,
  at the next tick, later or never.
* *Teardown.* Two threads of one process wait with different masks on one set; the
  set's slot is freed and taken by the other process while a binding to its old
  generation remains. Two buffers with worn slots give reuse and retirement;
  a ring of three with a high-water mark of two gives coalescing, overflow, and
  an Overflow record that does not fit.
* *Ports.* Two requests fill the queue of the port, one that of a connection, one
  event that of a ring, one transfer either transfer quota. The second setting
  reuses port and connection until the generations run out.
* *Recovery.* Four slots for two services are the smallest queue for which
  no failure is lost; the kernel has 16. Two attempts give a first restart, a
  last one and a refusal.
* *Storage.* One client's request can be in the device when the other's is
  queued, the service dies with either, and its successor takes it again. Two
  commits after the format write both slots, and each request of a mount, a format
  and a commit can fail.
* *Linux.* Four processes give an orphan whose parent exits first and a sibling
  beside it; a pipe of capacity 2 with lengths 1 and 2 fills, empties and is
  written in part.
* *TCP.* Both initial numbers are chosen so that the data wraps; a fault is a
  loss, a duplicate or a reordering; the send and receive buffers fill.
* *Network.* Two request slots, two sessions and one place to park run out under
  two callers; a restart finds requests in every state.

Clients in `port` are interchangeable too, and so are processes and threads in
`teardown`; no symmetry is used in a run with liveness.

## 4 Fairness

* `Scheduler`: `WF(Tick)` and `WF(IdleLoop)`. The timer is periodic and cannot be
  masked by userspace, and the idle loop runs after every interrupt that ends its
  halt. No fairness is assumed of processes or producers.
* `Supervisor`: `WF(Step)`, since the supervisor is a thread that is ready
  whenever it has something to do, and `ReadyThreadRuns` shows that the scheduler
  runs such a thread; `SF` of the steps of its main loop, which comes round again
  after each call it makes; and `SF(MainAdvance /\ now' > now)`, since its clock
  is the kernel's and passes whenever the main loop comes round often enough. No
  fairness is assumed of services: they may never become ready, never fail, never
  report.
* `Storage`: `WF` of the steps of the service, of its restart by the supervisor,
  of the interrupt handler and of the deadline. The device need not answer: that is
  what the deadline is for.
* `LinuxProcess`: `WF(Restarts(p))`, a woken call runs again. Processes need not
  make calls or exit.
* `TcpTransport`: `WF` of the polls with and without a frame, `SF(Tick)`, and for
  the peer `WF` of its receiving, accepting and retransmitting: it follows the
  protocol unless it has died. Losses are bounded in number, so no fairness of the
  network is needed.
* `Network`: `WF` of the steps of the service and of the start of a new instance.
  After a crash that is the supervisor's act; after a termination it is a Start
  request, without which nothing of an exited process could be reclaimed, and
  `ExitReclaimed` assumes that the request comes.
* `ObjectStore`, `CapabilitySpace`, `ProcessTeardown` and `PortEngine` are checked
  for safety only.

## 5 Proofs

Theorems hold for every value of the constants that satisfies the named
assumptions; the runs show the same properties on one instance.

| Module | Theorem | States |
|---|---|---|
| `CapabilitySpaceProofs` | `TypeCorrect` | `Spec => []TypeOK` |
| | `DelegationTreeCorrect` | `Spec => []DelegationTree` |
| | `RootOnlyCorrect` | `Spec => []RootOnlyAtRoot` |
| | `NamesCorrect` | `Spec => []NamesCurrent` |
| | `HandlesCorrect` | `Spec => HandlesStable` |
| | `RevocationCorrect` | `Spec => RevokesDescendants` |
| `SchedulerProofs` | `WaitersMatchThreadsCorrect` | `Spec => []WaitersMatchThreads` |
| | `NoLostWakeupCorrect` | `Spec => []NoLostWakeup` |
| | `OutcomeCorrect` | `Spec => []OutcomeHonest` |
| `TeardownPartsProofs` | `NoStrandedWaiterCorrect` | `SetSpec => []NoStrandedWaiter` |
| | `BindingCorrect` | `SetSpec => []BindingStaysWithHolder` |
| `ProcessTeardownProofs` | `ImplementsWorkSets` | `Spec => SetSpec` |
| | `WorkSetsCorrect` | `Spec => []` of both |
| | `LossesInOrderCorrect` | `Spec => []LossesInOrder` |
| `PortEngineProofs` | `DeliveredInOrderCorrect` | `Spec => []DeliveredInOrder` |
| | `ChildrenAccountedCorrect` | `Spec => []ChildrenAccounted` |
| | `EndsAreReportedCorrect` | `Spec => EndsAreReported` |
| `PortWakeProofs` | `NoLostWakeupCorrect` | `Spec => []NoLostWakeup` |
| | `QueuesServedCorrect` | `Spec => []QueuesServed` |
| `StorageProofs` | `DescriptorsStableCorrect` | `Spec => DescriptorsStable` |
| | `AcknowledgedKeptCorrect` | `Spec => []AcknowledgedKept` |

### 5.1 Capabilities

Assumptions: `TableAssumption` and `SpaceAssumption`: at least one slot and one
generation, a depth limit of at most 4 (the code's), `"delegate"` a right, Linux
processes are processes, and processes are not other resources.

    IInv == TypeOK /\ DelegationTree /\ Good(table, procs) /\ PendingSeen /\ PendingOwned

`Good` has the conditions on rights and resources. It needs one fact the
properties do not state: a Linux process holds no root-only right, for fork copies
rights without the check of `validate_delegation`. `PendingSeen` says that a
parked handle was issued under a generation its slot has reached; without it a
later occupant of the slot could make the handle resolve.

A step either takes capabilities away (`Shrinks`), or installs records that each
have a live parent or none (`Installs`), or does both. Taking away keeps the tree
if what is taken is closed under children. That `revoke_subtree` takes a closed
set is lemma `SubtreeClosed`: the slots that pass k adds have depth at least k
(`PassDepth`), and no depth exceeds the limit, so one more pass would add nothing.
By the tree, too, every parent of a live record resolves, so `Orphans` is empty
and no revocation fails. Both kinds of steps advance generations as `Advances`
requires (`StepAdvances`), which gives `HandlesStable`, keeps parked handles
honest (`PendingKept`), and with the tree after the step gives
`RevokesDescendants`. There is one lemma per action, and `NextInv` combines them.

### 5.2 Scheduler

Assumption: `SchedulerConstants` (at least one thread slot and one key).

    SchedInv == TypeInv /\ ~fatal /\ no thread Exited /\ Paired /\ Owned
                /\ RunsOnly /\ OutcomeHonest /\ NoLostWakeup

`Paired` is the one-to-one correspondence of blocked threads and active waiters, in
both directions; it is what lets a wake find the thread and lets the free waiter
slot never run out, so that `fatal` is unreachable. `Owned` says that a process has
one thread and that pids are registered: without it, tearing down one process could
clear the waiter of another. `RunsOnly` says that the running thread is `current`
and has no restart frame. Every wake is an instance of one lemma about a set of waiters
that leaves with its threads.

### 5.3 Work sets, input and teardown

Assumptions: `WorkSetConstants` for the work sets, `InputAssumption` for the queue
(a positive depth and a high-water mark within it), `LoadAssumption` (holders are
processes) for the composition.

    SetInv == SetTypeOK /\ NoStrandedWaiter /\ BindingStaysWithHolder /\ BindingsPast

`BindingsPast` says that no binding is ahead of its slot's generation, so that
`create` hands out a generation no binding names. The composed system of process
exit, shared buffers and input implements `SetSpec` (`ImplementsWorkSets`):
teardown is the holder exit of the work sets, everything else leaves them alone.

The invariant of the raw-input queue relates the ring to the log of the events that
have happened:

    InputInv == QueueOK(input, seen.upto, log) /\ types
                /\ (seen.seq # 0 => seen.seq = Base(input))
    QueueOK  == types /\ Len(ring) <= QueueDepth /\ RingOK /\ LossOK

`RingOK` says that the records in the ring cover consecutive stretches of the log,
beginning right after what was read (`Contiguous`), that their sequence numbers are
consecutive and each record tells what is in its stretch (`Numbered`), and that k
records stand for at least k events (`Spread`). `LossOK` says that a loss that is
pending starts right after the ring, reaches to the end of the log, and counts at
least one event and no more than there are. `LossesInOrder` speaks of the records
the next reader would get, and does not say where the next one would go: pushing
onto a ring with a pending loss keeps it only because the loss becomes a record
first. `Spread` is needed for `clear_into_loss`, which counts records as events: a
record of merged motion stands for several, so the count stays below their number.
There is one lemma for each way the ring changes (a record appended, merged, popped),
on these one for each operation of `queue.rs`, and on these one for each action. In
the composition, only input actions and the exit of the consumer touch the queue.

### 5.4 Ports

Assumption: `PortConstants` (finite sets of connections, positive limits).

    PortInv  == Shape /\ Ordered /\ Served /\ Attached /\ Backed /\ Carried
    QueueInv == WaitShape /\ Counted /\ (\A h \in Holders : Parked(h)) /\ Signalled

`PortInv` (defined in `PortInvariant`) relates queues to connections. `Ordered`: sequence numbers in a queue are
distinct and lie between the last one delivered and the next one. `Backed`: a queued
request comes from a connection open on that port. `Carried`: a delegated child that
is not delivered is that of a queued transfer. The last two are what the ends of
connections disturb: CLOSE, DISCONNECT and exit free slots, purge queues and revoke
children together, and one lemma about ending a set of connections (`Closable`,
`PortsClosed`, `ConnsClosed`) serves all three.

`PortEngineProofs` proves that it is kept. `QueueInv` adds what waiting depends on,
and is proved in two modules: `PortQueueProofs` (definitions, the actions that move no
request, send and receive; its lemmas assume `PortInv` before and after the step) and
`PortWakeProofs` (the ends, and the theorems, which combine both invariants).

* `Counted`: the four counters that the limits compare (`transfers` of a port,
  `outstanding`, `transfers` and `events` of a connection) are the numbers of what is
  queued, and within the limits. The code keeps them apart from the queues, so that
  a lost decrement would leave a sender blocked on an empty queue.
* `Parked(h)`: what a blocked holder waits for has not happened, and the key it
  sleeps on is the one that is woken when it does. This is inductive only with
  `Counted`, since a sender is blocked by a counter and woken by a change of a queue.
* `Signalled`: work that arrived on a bound port since the server found none has set
  a bit of its work set.

An action is reduced to the counters it changes and the set of keys it wakes. Lemma
`WaitsKept` says which changes leave a holder parked that was not woken (`ServerKept`,
`ConnKept`, `SpaceKept`); `ApplyWakes` says that the others run. Each action then
shows that the keys it wakes cover the changes it makes. `NoLostWakeup` follows from
`Parked`, `QueuesServed` from `Counted`, `Ordered` and `Signalled`.

### 5.5 Storage

No assumptions on the constants are used.

    BridgeInv : the device owns the descriptors, or has posted a completion
                nobody took, only while the queue is busy or poisoned
    StoreInv  == types /\ MediaInv /\ InFlightInv /\ StageInv /\ MountInv
                 /\ ServeInv /\ CommitInv /\ KeptInv /\ QueueInv

`BridgeInv` is inductive alone and gives `DescriptorsStable`. For
`AcknowledgedKept` one has to know that no older table is still with the device when
a write is acknowledged: a write may have been submitted by an instance that died.
`InFlightInv` ties the request in flight to the descriptors and, once it succeeded, to
the medium; `StageInv` lists the commands that remain at each stage of the service.
`MountInv` says that a mount has candidates only when the device has no write left,
that it lacks one that loads only after a failed read, and that it tries the newest
first: so a mount that takes an older table has seen a read fail. `ServeInv` says that
the active slot is loadable and that nothing is being written to it. `CommitInv` says
that once only the flush remains the inactive slot has the new table and the device
holds no other write. `KeptInv` names a slot `k` that is `Secured`: it loads, no write
to it is under way, and whatever would be preferred to it, now or when the write with
the device is done, has kept the newest acknowledged write. `QueueInv` says that an
answered request is never handed out again, so that an entry of the table later than
the acknowledged one is of an unanswered write.

### 5.6 Only model-checked

* Liveness and `ENABLED`: `ReadyThreadRuns`, `TimedWaitEnds`, `FailureHandled`,
  `PollReturns`, `WaitReturns`, `CloseCompletes`, `ExitReclaimed`. Outside what the
  proof system does.
* What sums or folds over sets: `FramesAccounted`, `RefsAccounted`. They need
  induction over data with an operator parameter.
* `MappingsAuthorised`, `ViewsAgree`, `RestartsJustified`,
  `ZombieKept` and `NoLostWakeup` of `LinuxProcess`, `StreamIntact`, `EndIsReal` and
  `NothingForgotten` of `TcpTransport`, `NoLostWakeup` and `BridgeAccounted` of
  `Network`: no obstacle of principle, but no inductive invariant is written yet.
* `RecoverySafe`, `SuperblocksConsistent`, `ActiveSlotUntouched` and the refinement
  `CellSpec` of `ObjectStore`: what a block sequence sums to, and which of its
  prefixes is on the device, is again induction over data.

## 6 Disagreements between code and documents

### 6.1 With a run

* **A restart of the storage service can lose the store** (`store_restart`,
  `store/src/lib.rs:162`). `mount` takes the superblock it reads as committed
  without a flush. If the service died between the superblock write and the
  flush, that superblock may exist only in the device's cache. The next commit
  then overwrites the slot with the only durable generation, and a power loss
  before its flush can leave no generation that loads.
  `docs/ARCHITECTURE.md:129` promises the previous or the new one. Without
  process crashes the promise holds (`store_power`).

### 6.2 Without a run

These were seen with the same modules under other constants or properties, or by
reading. They have no run of their own. The models do what the code does.

Store and storage:

* *Equal checksums.* `checksum` is a byte sum, and commit does not flush between
  data and superblock. With two block contents of equal `BlockSum`, `store_power`
  violates `RecoverySafe`: a new superblock whose data was lost is accepted over
  the old data.
* *A failed commit can appear later.* If the flush of a commit fails, its
  superblock stays on the medium with the higher generation, and a later mount may
  select it. `RecoverySafe` admits this through `tried`, which keeps failed
  commits; if `DeviceError` emptied `tried`, `store_power` would violate it.
* *An undone commit can appear later.* A power loss can keep a new superblock and
  lose its data, so that mount falls back. If the data of a later commit has the
  same beginning, the old superblock loads again before the new one is written, and
  another power loss exposes the undone commit. `RecoverySafe` admits this through
  `abandoned`; without `abandoned` in its last line `store_power` violates it.
* *A read error at mount falls back.* `AcknowledgedKept` excepts it
  (`passedOver`). With `ReadFaults = TRUE`,
  `store_power` violates `RecoverySafe`: after one failed
  superblock read (`store/src/lib.rs:362`) the older generation is mounted, and its
  next commit overwrites the newer, acknowledged one. `docs/ARCHITECTURE.md:130`
  allows the fall back for a corrupted superblock only.
* *Objects share a name.* The service writes every object under the name
  "object" (`store/src/bin/userspace.rs:203`), and `write_object`
  (`store/src/lib.rs:200-217`) replaces the entry with that name, so a write of one
  id replaces the object of another. `docs/ARCHITECTURE.md:548` speaks of persistent
  objects by id.
* *A retried write overtakes.* A write whose service died before it answered is
  requeued and carried out again, possibly after a later write that was
  acknowledged meanwhile, and replaces it. `docs/ARCHITECTURE.md:550` says that such
  operations "are retried idempotently". `AcknowledgedKept` excepts it, by
  counting the second execution as the later write.

Capabilities and recovery:

* *A fork that fails at the depth limit leaves copies.*
  `inherit_capabilities_for_fork` (`kernel/src/capability/mod.rs:247`) returns
  through `?` without rolling back, and `linux_fork` revokes nothing since
  `caps_inherited` is still false. `ForkTooDeep` models it: live capabilities then
  name a holder that is not in `procs`. They stay in the tree, so revoking or
  exiting the parent takes them, and no other property is affected.
* *Claims are not oldest first.* `bootstrap_grant.rs:62` says that `claim` returns
  the oldest handle. It returns the one in the lowest slot, and a freed low slot is
  reused before older grants in higher slots are claimed.
* *A restart can be accepted and never launched* (`supervisor/src/runtime.rs:126`).
  `FailureHandled` excepts it (`RestartBrokenOff`); without the exception
  `sup_recovery` violates it, with attempts left.
  A liveness timeout schedules a restart of a service whose Ready event is still
  queued. The kernel is Running and accepts Restart; the registry is still Starting
  and refuses its own copy. The pending attempt was cleared already
  (`convergence.rs:383`), `drain_service` ignores the error, and the service stays
  in RestartPending. The same happens when the kernel cannot spawn the instance that
  the Start request asks for. `docs/ARCHITECTURE.md:465` says: "Restart is
  terminate-then-launch with a bumped `InstanceGeneration`".
* *Late reports.* A health report of an instance that has ended already passes for
  recovery (`convergence.rs:166-210`): it resets the attempts and cancels the
  pending restart. No production program sends reports yet; `FailureHandled` excepts
  a service with as many reports as count as recovery.

Linux processes:

* *Exit of a parent in the middle.* `exit_group` of a process that is not the root
  and has a running child retires the slot the child's exit will look for; the
  child then reaches `fatal_kernel_error` (`exit_publish.rs:16-18`), which the
  comment at `:13` calls impossible. This is `halted`.
* *A partial write starts over.* `write_fd_buffer` (`pipe.rs:316-347`) blocks after
  partial progress, and the restarted call writes the whole buffer again;
  `block.rs:10-12` asks that a call that blocks has done nothing.
* *A status that cannot be stored is lost.* `wait4` marks the child reaped before
  it validates the status pointer (`wait.rs:50-61`).
* *A fork that finds no child entry.* `table.rs:57-95` makes the new slot live
  before it reports that the parent has no room, so the slot stays.

Input:

* *Numbered records are dropped.* `clear_into_loss` drops records that have a
  sequence number already (`GRAPHICS.md:638` and `raw_input.rs:18` say that numbers
  have no gaps), and counts an unread Overflow record as one event.

TCP (`network/src/tcp/conn.rs` against `docs/NETWORK.md`):

* The connect timeout of a connection does not fire, since each retransmission of the
  SYN touches its deadline, and the retry limit does not apply either: `tick_timers`
  counts no retries in SYN-SENT (`:223-232`). What ends the attempt is the deadline
  that the service keeps for the parked connect (`TCP_CONNECT_TIMEOUT_MS`).
* `close` discards queued bytes, and the FIN replaces unacknowledged data in the
  retransmission slot. A FIN is consumed although its payload was truncated
  (`:398`), so the end of stream can be reported one byte early; `EndIsReal` excepts
  that case (`app.cut`), and without the exception the `tcp` run violates it. CLOSE-WAIT and FIN-WAIT-2 ignore the window updates of the peer. There is
  no persist timer for a zero window, no acknowledgement of zero-length probes
  outside the window, no window update after `receive`, no timer in FIN-WAIT-2, and
  `close` in SYN-SENT does nothing.
* `StreamIntact` and `NothingForgotten` are stated for what holds in spite of this:
  bytes accepted and not discarded by `close`.

Network:

* A reader or a poller of a stream can sleep with nothing to wake it, in three cases,
  which `NoLostWakeup` excepts; without any one of them the `network` run violates it.
  `shutdown_service` wakes only the request key and never delivers the prefetched
  Receive, so who sleeps on the socket or in `poll(2)` sleeps on after the service is
  terminated (`NETWORK.md:176`, `:226`). `poll(2)` ignores a failure to arm
  (`syscall/linux/runtime.rs:404`). And on an unconnected stream neither call arms
  anything. `tcp.rs:3-6` promises an outstanding Receive and the wake.
* A connect that timed out keeps `inflight_request_id`, so a later connect to
  another destination takes the old answer. A process killed while it is blocked in
  `socket(2)` leaks its pool slot.
* Prefetch completions leave pending-wake records that nobody consumes. Session
  ids are reused within an instance, and `service_next` takes the lowest slot, not
  the oldest request. A Close refused with QueueFull leaves the session until the
  process exits. The network capability of a process names one service generation,
  so after a restart processes launched before it get ESTALE.
* For datagrams, which are not modelled: `rx_error` is not readable in `poll(2)`, and
  arming a receive on a socket inherited from an exited owner admits a dead process
  as a holder (`net_bridge.rs:17`).

## 7 What is not modelled

The parts with status `not_modelled` in `PROJECT.json`, each with its reason:
parsers and codecs without state (ELF, root file system, wire formats, path
resolution); pixel arithmetic; page-table and firmware layouts; device programming;
TLS, whose state machine is a library outside the repository; the timeout registry,
whose every operation runs with interrupts masked; build tools, fixtures and self
tests.

Inside the modelled parts: argument decoding and pointer validation, diagnostics,
counters that nothing reads, stack and FPU switching, resource classes of rights,
Stop and Terminate in the lifecycle controller (no modelled program sends them; the
termination of the network service is an action of `Network`), the wrap-around of
the byte sum, and a teardown that fails.
