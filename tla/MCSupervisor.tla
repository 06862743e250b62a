---------------------------- MODULE MCSupervisor ----------------------------
EXTENDS Supervisor, TLC

CONSTANTS a, b

MCDependsOn == a :> {} @@ b :> {a}

\* Two services, one needing the other, that send no reports.
Pair(attempts) ==
  [order |-> <<a, b>>, attempts |-> attempts, backoff |-> 1, period |-> 1, time |-> 2, statuses |-> {}]

\* One service that reports, with a real backoff.
Reporter ==
  [order |-> <<a>>, attempts |-> 1, backoff |-> 2, period |-> 2, time |-> 4,
   statuses |-> {"Ok", "Unknown", "Unhealthy"}]

RecoverySystems == {Pair(2), Reporter}
=============================================================================
