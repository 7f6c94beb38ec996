--------------------------- MODULE MCSandboxPool ---------------------------
(* TLC instances of SandboxPool: two conversations of one user. *)
EXTENDS SandboxPool, TLC

About == ("a1" :> "c") @@ ("a2" :> "c") @@ ("b1" :> "e") @@ ("t" :> "c") @@ ("x" :> "c")
         @@ ("k" :> "c") @@ ("w" :> "c") @@ ("d" :> "c")

\* Calls that meet; a route and a pause beside them; the idle timer; a switch;
\* a delete; and what can go wrong under each.
AllDays == {{"a1", "a2", "b1", "loss", "create"}, {"a1", "a2", "b1", "restart"},
            {"a1", "b1", "t", "x", "start"}, {"a1", "x", "loss", "restart"},
            {"a1", "b1", "k", "t", "loss"}, {"a1", "b1", "k", "stop"}, {"a1", "k", "restart"},
            {"a1", "b1", "t", "w", "create"}, {"a1", "w", "loss"},
            {"a1", "a2", "t", "d", "loss"}, {"a1", "t", "d", "restart"},
            {"a1", "d", "restart", "exists"}, {"a1", "b1", "exists"},
            {"a1", "k", "w", "restart"}, {"a1", "t", "w", "remove"}, {"a1", "d", "remove", "restart"}}
=============================================================================
