--------------------------- MODULE MCRunQuestions ---------------------------
(* TLC instances of RunQuestions: a thread's run and one sub-agent. *)
EXTENDS RunQuestions
=============================================================================
