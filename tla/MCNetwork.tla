----------------------------- MODULE MCNetwork -----------------------------
EXTENDS Network

CONSTANTS p1, p2, p3

\* One process that makes every call, against one service instance.
Stream ==
    [pids |-> {p1}, calls |-> {"connect", "send", "read", "poll", "close"}, gens |-> 1, frames |-> TRUE]
\* One process whose service crashes or is terminated, and is started again.
Restart ==
    [pids |-> {p1}, calls |-> {"connect", "send", "read", "poll"}, gens |-> 2, frames |-> TRUE]
\* Two processes that compete for slots, sessions and the place to park.
Pair == [pids |-> {p1, p2}, calls |-> {"connect"}, gens |-> 1, frames |-> TRUE]
\* More processes than holder entries, and a restart.
Crowd == [pids |-> {p1, p2, p3}, calls |-> {}, gens |-> 2, frames |-> FALSE]
Mixes == {Stream, Restart, Pair, Crowd}
=============================================================================
