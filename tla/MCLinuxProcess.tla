---------------------------- MODULE MCLinuxProcess ----------------------------
(* A launched process and its descendants: a family of four without pipes, three  *)
(* processes over one pipe, and two that rearrange descriptors over two pipes.     *)
EXTENDS LinuxProcess
MCBounds == {[pids |-> 4, pipes |-> 0, fdCalls |-> 0],
             [pids |-> 3, pipes |-> 1, fdCalls |-> 0],
             [pids |-> 2, pipes |-> 2, fdCalls |-> 1]}
=============================================================================
