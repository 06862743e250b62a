----------------------------- MODULE LinuxProcess -----------------------------
(***************************************************************************)
(* Processes of the Linux personality: the parent/child table               *)
(* (linux_proc/table.rs), fork, execve, exit, exit_group, faults and wait4,  *)
(* composed with descriptors and pipes.  A handler runs with interrupts      *)
(* masked, so each system call is one step; a call that blocks leaves its    *)
(* thread asleep on a key and, once woken, runs again from the top.          *)
(***************************************************************************)
EXTENDS LinuxFds

CONSTANTS MaxEntries, MaxChildren,   \* sizes of the process table
          Bounds,                    \* how far a behaviour goes: a set of records of
                                     \* pids, pipes opened, and close, dup2 and fcntl calls
          Sizes, WaitTargets,        \* lengths read and written, arguments of wait4
          NoSlot, NoChild, NoCall, NoKey, Any

VARIABLES table,      \* process -> NoSlot or [parent, children]
          alive,      \* processes in the process registry
          nextPid,
          call,       \* process -> the blocking call it is in
          key,        \* process -> the key it sleeps on
          halted,     \* fatal_kernel_error was reached
          parentOf,   \* history: process -> the process that forked it
          collected,  \* history: children a wait4 has taken
          fdCalls,    \* close, dup2 and fcntl calls so far
          bound       \* the bounds of this behaviour

procVars == <<table, alive, nextPid>>
threadVars == <<call, key>>
historyVars == <<parentOf, collected, fdCalls, bound>>
vars == <<fdVars, procVars, threadVars, halted, historyVars>>

Root == 1
ChildSlots == 1..MaxChildren
NewSlot(parent) == [parent |-> parent, children |-> [i \in ChildSlots |-> NoChild]]

Init ==
    /\ fds = [p \in Pids |-> IF p = Root THEN StdioTable ELSE EmptyTable]
    /\ opens = StdioPool
    /\ pipes = [i \in Pipes |-> FreePipe]
    /\ nextPipe = 1
    /\ table = [p \in Pids |-> IF p = Root THEN NewSlot(0) ELSE NoSlot]
    /\ alive = {Root}
    /\ nextPid = 2
    /\ call = [p \in Pids |-> NoCall]
    /\ key = [p \in Pids |-> NoKey]
    /\ halted = FALSE
    /\ parentOf = [p \in Pids |-> 0]
    /\ collected = {}
    /\ fdCalls = 0
    /\ bound \in Bounds

-----------------------------------------------------------------------------
(* The process table. *)

HasSlot(p) == table[p] # NoSlot
Occupied == Cardinality({p \in Pids : HasSlot(p)})
ChildrenKey(p) == [on |-> "children", pid |-> p]

\* The places of the children of p that a wait for `target` is about.
Matching(p, target, state) ==
    {i \in ChildSlots : LET c == table[p].children[i]
                        IN  /\ c # NoChild /\ c.state = state
                            /\ target = Any \/ c.child = target}

Retire(tbl, S) == [p \in Pids |-> IF p \in S THEN NoSlot ELSE tbl[p]]

\* reap_zombie for each process of S: its slot, and its entry in every list.
ReapZombies(tbl, S) ==
    [p \in Pids |->
        IF p \in S \/ tbl[p] = NoSlot THEN NoSlot
        ELSE [tbl[p] EXCEPT !.children =
                [i \in ChildSlots |-> IF @[i] # NoChild /\ @[i].child \in S
                                      THEN NoChild ELSE @[i]]]]

\* Where the parent of p lists p, if it still has a slot.
ListedAt(tbl, p) ==
    IF tbl[p].parent = 0 \/ tbl[tbl[p].parent] = NoSlot THEN {}
    ELSE {i \in ChildSlots : /\ tbl[tbl[p].parent].children[i] # NoChild
                             /\ tbl[tbl[p].parent].children[i].child = p}

\* Mutant: an exit always reaps itself.
PublishExitReaps(tbl, p) == ReapZombies(tbl, {p})

\* publish_exit: a zombie for a parent that is there, nothing otherwise.
PublishExit(tbl, p) ==
    IF ListedAt(tbl, p) = {} THEN ReapZombies(tbl, {p})
    ELSE [tbl EXCEPT ![tbl[p].parent].children =
            [i \in ChildSlots |-> IF i \in ListedAt(tbl, p) THEN [@[i] EXCEPT !.state = "Zombie"]
                                  ELSE @[i]]]

\* finalize_children_on_parent_exit: every child not yet reaped, running ones too.
FinalizeChildren(tbl, p) ==
    IF tbl[p] = NoSlot THEN tbl
    ELSE ReapZombies(tbl, {tbl[p].children[i].child :
              i \in {j \in ChildSlots : /\ tbl[p].children[j] # NoChild
                                        /\ tbl[p].children[j].state # "Reaped"}})

\* retire_stale_live_slots: the teardown of a process drops slots of earlier ones.
RetireStale(tbl) == Retire(tbl, Pids \ alive)

-----------------------------------------------------------------------------
(* Threads. *)

Runs(p) == p \in alive /\ key[p] = NoKey /\ ~halted
AtUserCode(p) == Runs(p) /\ call[p] = NoCall

\* A blocking call is made from user code, or is the one being restarted.
Enters(p, c) == Runs(p) /\ call[p] \in {NoCall, c}

\* wake_all for each key.
Wakes(keys) == key' = [p \in Pids |-> IF key[p] \in keys THEN NoKey ELSE key[p]]

Returns(p, keys) == call' = [call EXCEPT ![p] = NoCall] /\ Wakes(keys)

\* block_linux_syscall: asleep on k, with the call to restart.
Blocks(p, c, k, keys) ==
    /\ call' = [call EXCEPT ![p] = c]
    /\ key' = [q \in Pids |-> IF q = p THEN k ELSE IF key[q] \in keys THEN NoKey ELSE key[q]]

-----------------------------------------------------------------------------
(* Descriptors and pipes. *)

\* handle_sys_pipe: with a slot in the process table.
SysPipe(p) ==
    /\ AtUserCode(p) /\ HasSlot(p)
    /\ nextPipe <= bound.pipes
    /\ OpenPipe(p)
    /\ UNCHANGED <<procVars, threadVars, halted, historyVars>>

\* The bound on descriptor calls.
Counted ==
    /\ fdCalls < bound.fdCalls
    /\ fdCalls' = fdCalls + 1
    /\ UNCHANGED <<parentOf, collected, bound>>

SysClose(p, f) ==
    /\ AtUserCode(p) /\ fds[p][f] # NoFd
    /\ CloseFds(p, {f})
    /\ Wakes(CloseWakes(p, {f}))
    /\ Counted /\ UNCHANGED <<procVars, call, halted>>

SysDup2(p, oldFd, newFd) ==
    /\ AtUserCode(p) /\ oldFd # newFd
    /\ fds[p][oldFd] # NoFd /\ MayAddRefs(Named(fds[p], {oldFd}))
    /\ DupOver(p, oldFd, newFd, FALSE)
    /\ Wakes(DupWakes(p, oldFd, newFd))
    /\ Counted /\ UNCHANGED <<procVars, call, halted>>

\* fcntl: F_DUPFD_CLOEXEC to the lowest free descriptor, and F_SETFD.
SysFcntl(p, f) ==
    /\ AtUserCode(p) /\ fds[p][f] # NoFd
    /\ \/ /\ Unused(p) # {} /\ MayAddRefs(Named(fds[p], {f}))
          /\ DupOver(p, f, Lowest(Unused(p)), TRUE)
       \/ SetCloexec(p, f, ~fds[p][f].cloexec)
    /\ Counted /\ UNCHANGED <<procVars, threadVars, halted>>

\* commit_exec: the descriptors marked close-on-exec are closed.
SysExecve(p) ==
    LET F == {f \in Fds : fds[p][f] # NoFd /\ fds[p][f].cloexec}
    IN  /\ AtUserCode(p)
        /\ CloseFds(p, F)
        /\ Wakes(CloseWakes(p, F))
        /\ UNCHANGED <<procVars, call, halted, historyVars>>

\* read_fd: bytes, the end of the stream once no writer is left, or a wait.
SysRead(p, f, want) ==
    LET c == [op |-> "read", fd |-> f]
    IN  /\ Enters(p, c)
        /\ \E i \in PipeOf(p, f, "read") :
             IF ReadBlocks(i) THEN Blocks(p, c, ReaderKey(Handle(i)), {}) /\ UNCHANGED fdVars
             ELSE /\ TakeBytes(i, want)
                  /\ Returns(p, IF pipes[i].len > 0 THEN {WriterKey(Handle(i))} ELSE {})
        /\ UNCHANGED <<procVars, halted, historyVars>>

\* write_fd_buffer: as much as fits, then a wait for the rest; EPIPE without readers.
SysWrite(p, f, len) ==
    LET c == [op |-> "write", fd |-> f, n |-> len]
    IN  /\ Enters(p, c)
        /\ \E i \in PipeOf(p, f, "write") :
             IF pipes[i].readers = 0 THEN Returns(p, {}) /\ UNCHANGED fdVars
             ELSE LET woken == IF Put(i, len) > 0 THEN {ReaderKey(Handle(i))} ELSE {}
                  IN  /\ PutBytes(i, len)
                      /\ IF Put(i, len) < len THEN Blocks(p, c, WriterKey(Handle(i)), woken)
                         ELSE Returns(p, woken)
        /\ UNCHANGED <<procVars, halted, historyVars>>

-----------------------------------------------------------------------------
(* fork, wait4 and the ends of a process. *)

\* linux_fork; each failure after the registry entry is undone by abort_fork_child.
SysFork(p) ==
    LET q == nextPid
        room == {i \in ChildSlots : table[p].children[i] = NoChild}
    IN  /\ AtUserCode(p) /\ HasSlot(p)
        /\ nextPid <= bound.pids /\ Occupied < MaxEntries
        /\ MayAddRefs(Named(fds[p], Fds))
        /\ nextPid' = nextPid + 1
        /\ IF room = {}
           THEN \* register fails after its slot is taken; the child is not `proc_registered`
                /\ table' = [table EXCEPT ![q] = NewSlot(p)]
                /\ UNCHANGED <<fdVars, alive, parentOf>>
           ELSE /\ table' = [table EXCEPT ![q] = NewSlot(p),
                       ![p].children[Lowest(room)] = [child |-> q, state |-> "Running"]]
                /\ alive' = alive \cup {q}
                /\ parentOf' = [parentOf EXCEPT ![q] = p]
                /\ Inherit(p, q)
        /\ UNCHANGED <<threadVars, halted, collected, fdCalls, bound>>

\* linux_wait4 without WNOHANG: a zombie, a wait for one, or ECHILD or EINVAL.  The
\* zombie is marked before the caller's status pointer is checked: with a bad
\* pointer its entry stays, Reaped.
SysWait4(p, target, badPointer) ==
    LET c == [op |-> "wait", target |-> target]
        zombies == IF HasSlot(p) THEN Matching(p, target, "Zombie") ELSE {}
        running == IF HasSlot(p) THEN Matching(p, target, "Running") ELSE {}
    IN  /\ Enters(p, c)
        /\ IF zombies # {}
           THEN LET i == Lowest(zombies)
                    q == table[p].children[i].child
                IN  /\ table' = IF badPointer THEN [table EXCEPT ![p].children[i].state = "Reaped"]
                                ELSE ReapZombies(table, {q})
                    /\ collected' = collected \cup {q}
                    /\ Returns(p, {})
           ELSE /\ IF running # {} THEN Blocks(p, c, ChildrenKey(p), {}) ELSE Returns(p, {})
                /\ UNCHANGED <<table, collected>>
        /\ UNCHANGED <<fdVars, alive, nextPid, halted, parentOf, fdCalls, bound>>

\* Mutant: the parent of an exiting process is not woken.
ParentNotWoken(p) == {}

ParentWake(p) == {ChildrenKey(table[p].parent)}

\* teardown_current_process, after the exit was published in `tbl`.
Teardown(p, tbl, keys) ==
    /\ table' = RetireStale(Retire(tbl, {p}))
    /\ alive' = alive \ {p}
    /\ CloseFds(p, Fds)
    /\ Wakes(keys \cup CloseWakes(p, Fds))
    /\ UNCHANGED <<nextPid, call, halted, historyVars>>

\* exit and exit_group: publish_linux_exit, then the teardown.
SysExit(p, group) ==
    /\ AtUserCode(p)
    /\ IF ~HasSlot(p)
       THEN halted' = TRUE /\ UNCHANGED <<fdVars, procVars, threadVars, historyVars>>
       ELSE LET published == PublishExit(table, p)
            IN  Teardown(p, IF group THEN FinalizeChildren(published, p) ELSE published,
                         ParentWake(p))

\* A fault: publish_linux_signalled_exit does nothing without a slot.
Fault(p) ==
    /\ AtUserCode(p)
    /\ IF HasSlot(p) THEN Teardown(p, PublishExit(table, p), ParentWake(p))
       ELSE Teardown(p, table, {})

\* teardown_process_by_id, when the supervisor stops a launched process.  Its slot
\* stays until another process is torn down.
Stop ==
    /\ Root \in alive /\ ~halted
    /\ alive' = alive \ {Root}
    /\ CloseFds(Root, Fds)
    /\ key' = [p \in Pids |-> IF p = Root \/ key[p] \in CloseWakes(Root, Fds) THEN NoKey ELSE key[p]]
    /\ call' = [call EXCEPT ![Root] = NoCall]
    /\ UNCHANGED <<table, nextPid, halted, historyVars>>

-----------------------------------------------------------------------------

Blocking(p) ==
    \/ \E f \in Fds, n \in Sizes : SysRead(p, f, n) \/ SysWrite(p, f, n)
    \/ \E target \in WaitTargets, bad \in BOOLEAN : SysWait4(p, target, bad)

Next ==
    \/ \E p \in Pids :
         \/ Blocking(p)
         \/ SysPipe(p) \/ SysExecve(p) \/ SysFork(p) \/ Fault(p)
         \/ \E f \in Fds : SysClose(p, f) \/ SysFcntl(p, f) \/ \E g \in Fds : SysDup2(p, f, g)
         \/ \E group \in BOOLEAN : SysExit(p, group)
    \/ Stop

\* A woken thread is scheduled and its call is made again.
Restarts(p) == call[p] # NoCall /\ Blocking(p)
Fairness == \A p \in Pids : WF_vars(Restarts(p))
Spec == Init /\ [][Next]_vars /\ Fairness

-----------------------------------------------------------------------------
(* Properties. *)

\* Through fork, dup2, close, execve, exits and stops, a description counts exactly
\* the descriptors of live processes that name it, and a pipe the descriptions on
\* each end: an end is neither leaked nor closed while someone holds it.
RefsAccounted ==
    /\ \A p \in Pids : /\ p \notin alive => fds[p] = EmptyTable
                       /\ \A f \in Fds : fds[p][f] # NoFd => Valid(fds[p][f].open)
    /\ \A o \in Opens : opens[o].refs =
         Cardinality({e \in Pids \X Fds : fds[e[1]][e[2]] # NoFd /\ fds[e[1]][e[2]].open.index = o})
    /\ \A i \in Pipes :
         LET On(end) == Cardinality({o \in Opens : /\ opens[o].live
                                                   /\ opens[o].kind = PipeEnd(Handle(i), end)})
         IN  IF pipes[i].live THEN /\ pipes[i].readers = On("read")
                                   /\ pipes[i].writers = On("write")
             ELSE On("read") = 0 /\ On("write") = 0

\* A thread sleeps only on what has not happened: a reader on an empty pipe that can
\* still be written, a writer on a full one that can still be read, a wait4 on
\* children that all still run.  No exit, close, read or write is missed.
NoLostWakeup ==
    \A p \in Pids : key[p] # NoKey =>
        /\ call[p] # NoCall
        /\ call[p].op = "read" =>
             \E i \in PipeOf(p, call[p].fd, "read") : key[p] = ReaderKey(Handle(i)) /\ ReadBlocks(i)
        /\ call[p].op = "write" =>
             \E i \in PipeOf(p, call[p].fd, "write") : key[p] = WriterKey(Handle(i)) /\ WriteBlocks(i)
        /\ call[p].op = "wait" =>
             /\ key[p] = ChildrenKey(p)
             /\ HasSlot(p) => Matching(p, call[p].target, "Zombie") = {}
             /\ \E q \in alive : parentOf[q] = p /\ call[p].target \in {Any, q}

\* An exit is kept for the parent: as long as the parent is alive and in the table,
\* a child that ended is its zombie until a wait4 takes it.
ZombieKept ==
    \A q \in Pids :
        /\ parentOf[q] # 0 /\ q \notin alive /\ q \notin collected
        /\ parentOf[q] \in alive /\ HasSlot(parentOf[q])
        => \E i \in Matching(parentOf[q], q, "Zombie") : TRUE

\* wait4 returns once the children it is about are gone, however they ended.
WaitReturns ==
    \A p \in Pids :
        (/\ call[p] # NoCall /\ call[p].op = "wait"
         /\ \A q \in alive : parentOf[q] # p \/ call[p].target \notin {Any, q})
            ~> (call[p] = NoCall \/ p \notin alive \/ halted)

=============================================================================
