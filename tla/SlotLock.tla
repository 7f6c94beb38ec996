------------------------------ MODULE SlotLock ------------------------------
(***************************************************************************)
(* What a provider's run queue promises its callers, with no queue in it:  *)
(* a shared/exclusive lock.  Runs hold it together, up to Capacity of them;*)
(* a context-stage switch reloads the model under every run, so it holds   *)
(* the lock alone (apps/server/src/inference/scheduler.ts).                *)
(***************************************************************************)
EXTENDS Integers, FiniteSets

CONSTANTS Runs,      \* callers of acquireRunSlot
          Switches,  \* callers of acquireExclusiveSlot
          Capacity   \* the largest limit the provider is ever given

VARIABLE holders     \* who holds the backend now

Procs == Runs \cup Switches

Init == holders = {}

AdmitRuns(S) ==
  /\ S \cap holders = {}
  /\ holders \cap Switches = {}
  /\ Cardinality(holders \cup S) <= Capacity
  /\ holders' = holders \cup S

AdmitSwitch(s) ==
  /\ holders = {}
  /\ holders' = {s}

Leave(p) ==
  /\ p \in holders
  /\ holders' = holders \ {p}

Next ==
  \/ \E S \in SUBSET Runs : AdmitRuns(S)
  \/ \E s \in Switches : AdmitSwitch(s)
  \/ \E p \in Procs : Leave(p)

Spec == Init /\ [][Next]_holders
=============================================================================
