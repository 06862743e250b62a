------------------------------- MODULE LinuxFds -------------------------------
(***************************************************************************)
(* File descriptors of the Linux personality: per-process tables            *)
(* (linux_fd/table.rs) over a pool of reference-counted open descriptions   *)
(* (linux_fd/open_description.rs), over a pool of pipes (linux_proc/pipe.rs).*)
(* A pipe counts the descriptions on each of its ends, a description counts  *)
(* the descriptors naming it.  Only the number of bytes in a pipe is kept.  *)
(* Each operator is one call of the registry; LinuxProcess makes the calls. *)
(***************************************************************************)
EXTENDS Naturals, FiniteSets, Functions

CONSTANTS Pids,
          FdCount, OpenCount, PipeCount,  \* sizes of the table and of the two pools
          RefMax,                         \* OPEN_DESCRIPTION_REF_MAX
          PipeCapacity,
          NoFd, Console

VARIABLES fds,       \* process -> descriptor -> NoFd or [open, cloexec]
          opens,     \* the pool of open descriptions
          pipes,     \* the pool of pipes
          nextPipe   \* next_generation of the pipe pool

fdVars == <<fds, opens, pipes, nextPipe>>

Fds == 0..(FdCount - 1)
Opens == 1..OpenCount
Pipes == 1..PipeCount

FreeOpen(gen) == [live |-> FALSE, gen |-> gen, kind |-> Console, refs |-> 0]
FreePipe == [live |-> FALSE, gen |-> 0, len |-> 0, readers |-> 0, writers |-> 0]
EmptyTable == [f \in Fds |-> NoFd]
Entry(o, gen, cloexec) == [open |-> [index |-> o, gen |-> gen], cloexec |-> cloexec]

\* install_stdio_entries: two descriptions of the console at 1 and 2.
StdioTable == [EmptyTable EXCEPT ![1] = Entry(1, 1, FALSE), ![2] = Entry(2, 1, FALSE)]
StdioPool == [o \in Opens |-> IF o <= 2
                              THEN [live |-> TRUE, gen |-> 1, kind |-> Console, refs |-> 1]
                              ELSE FreeOpen(1)]

-----------------------------------------------------------------------------
(* The pool of open descriptions. *)

\* get: a description is found under the generation it was allocated with.
Valid(id) == opens[id.index].live /\ opens[id.index].gen = id.gen

\* How many descriptors among F of a table name each description.
Named(table, F) ==
    [o \in Opens |-> Cardinality({f \in F : /\ table[f] # NoFd /\ Valid(table[f].open)
                                           /\ table[f].open.index = o})]

\* add_ref for each descriptor counted in n; it fails at the limit.
MayAddRefs(n) == \A o \in Opens : n[o] > 0 => opens[o].live /\ opens[o].refs + n[o] <= RefMax
AddRefs(pool, n) == [o \in Opens |-> [pool[o] EXCEPT !.refs = @ + n[o]]]

\* release_ref for each descriptor counted in n: the last reference frees the slot
\* and moves its generation on.
Finalized(pool, n) == {o \in Opens : n[o] > 0 /\ pool[o].refs <= n[o]}
ReleaseRefs(pool, n) ==
    [o \in Opens |-> IF o \in Finalized(pool, n) THEN FreeOpen(pool[o].gen + 1)
                     ELSE [pool[o] EXCEPT !.refs = @ - n[o]]]

-----------------------------------------------------------------------------
(* Pipes. *)

Handle(i) == [slot |-> i, gen |-> pipes[i].gen]
ReaderKey(h) == [on |-> "reader", pipe |-> h]
WriterKey(h) == [on |-> "writer", pipe |-> h]
PipeEnd(h, end) == [pipe |-> h, end |-> end]

\* The pipe ends behind the descriptions that n finalizes.
EndsLost(pool, n) == {pool[o].kind : o \in Finalized(pool, n)} \ {Console}

\* release_end, for the ends whose description is gone: both counts at 0 frees it.
ReleaseEnds(lost) ==
    [i \in Pipes |->
        LET r == IF PipeEnd(Handle(i), "read") \in lost THEN 1 ELSE 0
            w == IF PipeEnd(Handle(i), "write") \in lost THEN 1 ELSE 0
        IN  IF r + w = 0 THEN pipes[i]
            ELSE IF pipes[i].readers = r /\ pipes[i].writers = w THEN FreePipe
            ELSE [pipes[i] EXCEPT !.readers = @ - r, !.writers = @ - w]]

\* Mutant: only data wakes a reader, not the end of the last writer.
EndWakesWritersOnly(lost) ==
    {WriterKey(Handle(i)) : i \in {j \in Pipes : PipeEnd(Handle(j), "read") \in lost}}

\* release_end wakes readers at each lost write end, writers at the last read end.
EndWakes(lost) ==
    {ReaderKey(Handle(i)) : i \in {j \in Pipes : PipeEnd(Handle(j), "write") \in lost}}
      \cup {WriterKey(Handle(i)) : i \in {j \in Pipes : /\ PipeEnd(Handle(j), "read") \in lost
                                                        /\ pipes[j].readers = 1}}

\* pipe_read_ref and pipe_write_ref: the pipe behind a descriptor of process p.
PipeOf(p, f, end) ==
    {i \in Pipes : /\ fds[p][f] # NoFd /\ Valid(fds[p][f].open)
                   /\ opens[fds[p][f].open.index].kind = PipeEnd(Handle(i), end)
                   /\ pipes[i].live}

\* read_into and write_from on the slot: what the caller finds.
ReadBlocks(i) == pipes[i].len = 0 /\ pipes[i].writers > 0
WriteBlocks(i) == pipes[i].readers > 0 /\ pipes[i].len = PipeCapacity
Least(a, b) == IF a < b THEN a ELSE b
Taken(i, want) == Least(want, pipes[i].len)
Put(i, len) == Least(len, PipeCapacity - pipes[i].len)

-----------------------------------------------------------------------------
(* The registry: each operator changes all of fdVars. *)

\* The descriptors F of p are closed: close_fd_entry, close_on_exec, release_table.
CloseFds(p, F) ==
    LET n == Named(fds[p], F)
    IN  /\ fds' = [fds EXCEPT ![p] = [f \in Fds |-> IF f \in F THEN NoFd ELSE @[f]]]
        /\ opens' = ReleaseRefs(opens, n)
        /\ pipes' = ReleaseEnds(EndsLost(opens, n))
        /\ UNCHANGED nextPipe

CloseWakes(p, F) == EndWakes(EndsLost(opens, Named(fds[p], F)))

Unused(p) == {f \in Fds : fds[p][f] = NoFd}
Lowest(S) == CHOOSE x \in S : \A y \in S : x <= y

\* open_pipe: two descriptors, a pipe and two descriptions, or nothing at all.
MayOpenPipe(p) ==
    /\ Cardinality(Unused(p)) >= 2
    /\ \E i \in Pipes : ~pipes[i].live
    /\ Cardinality({o \in Opens : ~opens[o].live}) >= 2

OpenPipe(p) ==
    LET readFd == Lowest(Unused(p))
        writeFd == Lowest(Unused(p) \ {readFd})
        i == Lowest({j \in Pipes : ~pipes[j].live})
        r == Lowest({o \in Opens : ~opens[o].live})
        w == Lowest({o \in Opens : ~opens[o].live} \ {r})
        h == [slot |-> i, gen |-> nextPipe]
    IN  /\ MayOpenPipe(p)
        /\ pipes' = [pipes EXCEPT ![i] = [live |-> TRUE, gen |-> nextPipe, len |-> 0,
                                          readers |-> 1, writers |-> 1]]
        /\ nextPipe' = nextPipe + 1
        /\ opens' = [opens EXCEPT
             ![r] = [@ EXCEPT !.live = TRUE, !.kind = PipeEnd(h, "read"), !.refs = 1],
             ![w] = [@ EXCEPT !.live = TRUE, !.kind = PipeEnd(h, "write"), !.refs = 1]]
        /\ fds' = [fds EXCEPT ![p][readFd] = Entry(r, opens[r].gen, FALSE),
                              ![p][writeFd] = Entry(w, opens[w].gen, FALSE)]

\* dup2_fd, and dup_to_lowest_at_or_above on a free descriptor: the new reference is
\* taken before the one under newFd is released.
DupOver(p, oldFd, newFd, cloexec) ==
    LET added == AddRefs(opens, Named(fds[p], {oldFd}))
        n == Named(fds[p], {newFd})
    IN  /\ fds' = [fds EXCEPT ![p][newFd] = [fds[p][oldFd] EXCEPT !.cloexec = cloexec]]
        /\ opens' = ReleaseRefs(added, n)
        /\ pipes' = ReleaseEnds(EndsLost(added, n))
        /\ UNCHANGED nextPipe

DupWakes(p, oldFd, newFd) ==
    EndWakes(EndsLost(AddRefs(opens, Named(fds[p], {oldFd})), Named(fds[p], {newFd})))

\* Mutant: the child's descriptors do not count.
InheritUncounted(p, q) ==
    /\ fds' = [fds EXCEPT ![q] = fds[p]]
    /\ UNCHANGED <<opens, pipes, nextPipe>>

\* inherit_table: all of the parent's descriptors or, on failure, none.
Inherit(p, q) ==
    /\ fds' = [fds EXCEPT ![q] = fds[p]]
    /\ opens' = AddRefs(opens, Named(fds[p], Fds))
    /\ UNCHANGED <<pipes, nextPipe>>

\* fcntl(F_SETFD).
SetCloexec(p, f, flag) ==
    /\ fds' = [fds EXCEPT ![p][f].cloexec = flag]
    /\ UNCHANGED <<opens, pipes, nextPipe>>

\* read_into, then write_from, on the pipe of slot i.
TakeBytes(i, want) ==
    /\ pipes' = [pipes EXCEPT ![i].len = @ - Taken(i, want)]
    /\ UNCHANGED <<fds, opens, nextPipe>>

PutBytes(i, len) ==
    /\ pipes' = [pipes EXCEPT ![i].len = @ + Put(i, len)]
    /\ UNCHANGED <<fds, opens, nextPipe>>
=============================================================================
