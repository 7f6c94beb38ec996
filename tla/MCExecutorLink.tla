--------------------------- MODULE MCExecutorLink ---------------------------
(* TLC instances of ExecutorLink. *)
EXTENDS ExecutorLink

Day(who, sockets) == [who |-> who, before |-> MaxLinks - sockets]

\* A command across two reconnects; a command and a panel, and two panels,
\* across one.
AllDays == {Day({"c1"}, 3), Day({"c1", "s1"}, 2), Day({"s1", "s2"}, 2)}
=============================================================================
