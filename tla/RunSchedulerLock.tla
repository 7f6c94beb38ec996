-------------------------- MODULE RunSchedulerLock --------------------------
(***************************************************************************)
(* The run queue implements the lock it stands for, and two promises that  *)
(* need more of its history: it does not overcommit a backend whose limit  *)
(* nobody changed, and it serves nobody who was stopped.                   *)
(***************************************************************************)
EXTENDS RunSchedulerProofs

\* What a pump shifts off the line, and what it makes of the backend.
LEMMA PumpShifts ==
  ASSUME IInv, NEW max \in Limits, PumpAdmits(max)
  PROVE  \E n \in 0..Len(waiting) :
           /\ MayAdmit(n, max)
           /\ running' = running + n
           /\ FirstOf(waiting, n) \subseteq {q \in Procs : phase[q] = "waiting"}
           /\ IsFiniteSet(FirstOf(waiting, n)) /\ Cardinality(FirstOf(waiting, n)) = n
           /\ Holders' = Holders \cup FirstOf(waiting, n)
           /\ phase' = [p \in Procs |-> IF p \in FirstOf(waiting, n) THEN "holding" ELSE phase[p]]
<1>0. TypeOK /\ phase \in [Procs -> Phases] /\ waiting \in Seq(Procs)
  BY DEF IInv, TypeOK
<1>1. Distinct(waiting) /\ Members(waiting) = {q \in Procs : phase[q] = "waiting"}
  BY DEF IInv, LineIsWaiters, Distinct, Members
<1>2. PICK n \in 0..Len(waiting) :
        /\ MayAdmit(n, max)
        /\ running' = running + n
        /\ phase' = [p \in Procs |-> IF p \in {waiting[i] : i \in 1..n} THEN "holding" ELSE phase[p]]
  BY DEF PumpAdmits
<1>3. phase' = [p \in Procs |-> IF p \in FirstOf(waiting, n) THEN "holding" ELSE phase[p]]
  BY <1>2 DEF FirstOf
<1>4. /\ FirstOf(waiting, n) \subseteq Members(waiting)
      /\ IsFiniteSet(FirstOf(waiting, n)) /\ Cardinality(FirstOf(waiting, n)) = n
  BY <1>0, <1>1, ShiftLine
<1>5. Holders' = Holders \cup FirstOf(waiting, n)
  BY <1>0, <1>1, <1>3, <1>4 DEF Holders
<1> QED BY <1>1, <1>2, <1>3, <1>4, <1>5

\* A pump admits runs within the limit it was told, or one switch alone.
LEMMA AdmittedFit ==
  ASSUME NEW n \in Nat, n > 0, NEW max \in Nat, MayAdmit(n, max),
         running \in Nat, FirstOf(waiting, n) \subseteq Procs
  PROVE  \/ /\ FirstOf(waiting, n) \subseteq Runs /\ running + n <= max
         \/ /\ n = 1 /\ running = 0 /\ \E s \in Switches : FirstOf(waiting, n) = {s}
<1>1. CASE \E i \in 1..n : waiting[i] \in Switches
  <2>1. n = 1 /\ running = 0
    BY <1>1 DEF MayAdmit
  <2>2. FirstOf(waiting, n) = {waiting[1]} /\ waiting[1] \in Switches
    BY <1>1, <2>1 DEF FirstOf
  <2> QED BY <2>1, <2>2
<1>2. CASE \A i \in 1..n : waiting[i] \notin Switches
  <2>1. n \in 1..n
    OBVIOUS
  <2>2. running + n <= max
    BY <1>2, <2>1 DEF MayAdmit
  <2>3. FirstOf(waiting, n) \subseteq Runs
    BY <1>2 DEF FirstOf, Procs
  <2> QED BY <2>2, <2>3
<1> QED BY <1>1, <1>2

-----------------------------------------------------------------------------
(* The lock.                                                               *)

\* The lock counts its holders as the queue does.
LEMMA SameCount == \A S : Lock!Cardinality(S) = Cardinality(S)
BY Zenon DEF Lock!Cardinality, Cardinality

\* The fast path is an admission of the lock.
LEMMA TakeFreeSlotLocks ==
  ASSUME IInv, NEW p \in Procs, TakeFreeSlot(p)
  PROVE  Lock!Next
<1>0. TypeOK /\ phase \in [Procs -> Phases] /\ answer[p] \in 0..MaxLimit /\ running \in Nat
  BY DEF IInv, TypeOK
<1>1. Holders' = Holders \cup {p} /\ p \notin Holders
  BY <1>0 DEF TakeFreeSlot, Holders
<1>2. IsFiniteSet(Holders) /\ Cardinality(Holders) = running
  BY HoldersFinite DEF IInv, Accounting
<1>3. CASE p \in Switches
  <2>1. Holders = {}
    BY <1>2, <1>3, HoldersFinite DEF TakeFreeSlot, RoomFor
  <2>2. Lock!AdmitSwitch(p)
    BY <1>1, <2>1 DEF Lock!AdmitSwitch
  <2> QED BY <1>3, <2>2 DEF Lock!Next
<1>4. CASE p \in Runs
  <2>1. p \notin Switches
    BY <1>4, ProcsAssumption
  <2>2. running < answer[p] /\ ~exclusive
    BY <2>1 DEF TakeFreeSlot, RoomFor
  <2>3. Holders \cap Switches = {}
    BY <2>2 DEF IInv, Accounting
  <2>4. Cardinality(Holders \cup {p}) = running + 1
    BY <1>1, <1>2, FS_AddElement
  <2>5. Cardinality(Holders \cup {p}) <= MaxLimit
    BY <1>0, <2>2, <2>4, BoundsAssumption
  <2>6. Lock!AdmitRuns({p})
    BY <1>1, <2>3, <2>5, SameCount DEF Lock!AdmitRuns
  <2> QED BY <1>4, <2>6 DEF Lock!Next
<1> QED BY <1>3, <1>4 DEF Procs

\* So is a pump, or nothing at all.
LEMMA PumpLocks ==
  ASSUME IInv, NEW max \in Limits, PumpAdmits(max)
  PROVE  [Lock!Next]_Holders
<1>0. /\ running \in Nat /\ max \in Nat /\ max <= MaxLimit /\ MaxLimit \in Nat
      /\ Len(waiting) \in Nat
  BY BoundsAssumption, LenProperties DEF IInv, TypeOK, Limits
<1>1. PICK n \in 0..Len(waiting) :
        /\ MayAdmit(n, max)
        /\ FirstOf(waiting, n) \subseteq {q \in Procs : phase[q] = "waiting"}
        /\ IsFiniteSet(FirstOf(waiting, n)) /\ Cardinality(FirstOf(waiting, n)) = n
        /\ Holders' = Holders \cup FirstOf(waiting, n)
  BY PumpShifts
<1> DEFINE F == FirstOf(waiting, n)
<1>2. IsFiniteSet(Holders) /\ Cardinality(Holders) = running
  BY HoldersFinite DEF IInv, Accounting
<1>3. F \cap Holders = {} /\ F \subseteq Procs /\ n \in Nat
  BY <1>0, <1>1 DEF Holders
<1>4. CASE n = 0
  BY <1>1, <1>4, FS_EmptySet
<1>5. CASE n > 0
  <2>1. ~exclusive
    BY <1>1, <1>5 DEF MayAdmit
  <2>2. \/ F \subseteq Runs /\ running + n <= max
        \/ running = 0 /\ \E s \in Switches : F = {s}
    BY <1>0, <1>1, <1>3, <1>5, AdmittedFit
  <2>3. CASE F \subseteq Runs /\ running + n <= max
    <3>1. Cardinality(Holders \cap F) = 0
      BY <1>3, FS_EmptySet
    <3>2. Cardinality(Holders \cup F) = running + n - Cardinality(Holders \cap F)
      BY <1>1, <1>2, FS_Union
    <3>3. Cardinality(Holders \cup F) <= MaxLimit
      BY <1>0, <1>3, <2>3, <3>1, <3>2
    <3>4. Holders \cap Switches = {}
      BY <2>1 DEF IInv, Accounting
    <3>5. Lock!AdmitRuns(F)
      BY <1>1, <1>3, <3>3, <3>4, SameCount DEF Lock!AdmitRuns
    <3> QED BY <2>3, <3>5 DEF Lock!Next
  <2>4. CASE running = 0 /\ \E s \in Switches : F = {s}
    <3>1. PICK s \in Switches : F = {s}
      BY <2>4
    <3>2. Holders = {}
      BY <1>2, <2>4, HoldersFinite
    <3>3. Lock!AdmitSwitch(s)
      BY <1>1, <3>1, <3>2 DEF Lock!AdmitSwitch
    <3> QED BY <3>3 DEF Lock!Next
  <2> QED BY <2>2, <2>3, <2>4
<1> QED BY <1>1, <1>3, <1>4, <1>5

\* Every step of the queue is a step of the lock or none.
LEMMA NextLocks == IInv /\ [Next]_vars => [Lock!Next]_Holders
<1> SUFFICES ASSUME IInv, [Next]_vars PROVE [Lock!Next]_Holders
  OBVIOUS
<1>0. phase \in [Procs -> Phases]
  BY DEF IInv, TypeOK
<1>1. ASSUME NEW p \in Procs,
             \/ Enter(p) \/ LimitAnswered(p) \/ StoppedWhileAsking(p) \/ JoinLine(p)
             \/ AbortElsewhere(p) \/ AbortWaiting(p) \/ Return(p)
      PROVE  UNCHANGED Holders
  BY <1>0, <1>1 DEF Enter, LimitAnswered, StoppedWhileAsking, JoinLine, AbortElsewhere,
                    AbortWaiting, Return, Holders
<1>2. ASSUME NEW p \in Procs, Release(p) \/ GiveUp(p) PROVE Lock!Next
  <2>1. p \in Holders /\ Holders' = Holders \ {p}
    BY <1>0, <1>2 DEF Release, GiveUp, Holders
  <2>2. Lock!Leave(p)
    BY <2>1 DEF Lock!Leave
  <2> QED BY <2>2 DEF Lock!Next, Lock!Procs, Procs
<1>3. CASE PumpAnswered
  BY <1>3 DEF PumpAnswered, callerVars, Holders
<1>4. ASSUME NEW l \in Limits, ChangeLimit(l) \/ ProbeExpires(l) PROVE UNCHANGED Holders
  BY <1>4 DEF ChangeLimit, ProbeExpires, callerVars, Holders
<1>5. CASE Rest \/ UNCHANGED vars
  BY <1>5 DEF Rest, vars, Holders
<1>6. ASSUME NEW p \in Procs, CallerNext(p) PROVE [Lock!Next]_Holders
  BY <1>1, <1>2, <1>6, TakeFreeSlotLocks DEF CallerNext
<1> QED BY <1>3, <1>4, <1>5, <1>6, PumpLocks DEF Next

\* The queue, with its line, pumps and re-entries, is a shared/exclusive lock.
THEOREM QueueImplementsLock == Spec => ImplementsLock
<1>1. Init => Lock!Init
  BY DEF Init, Holders, Lock!Init
<1> QED BY <1>1, NextLocks, Invariance, PTL DEF Spec, ImplementsLock, Lock!Spec

-----------------------------------------------------------------------------
(* Under a limit nobody changed.                                           *)

\* Every answer that is on its way, to a caller or to a pump, is that limit.
Steady ==
  changes = 0 => /\ running <= limit
                 /\ \A p \in Procs : phase[p] = "answered" => answer[p] <= limit
                 /\ \A m \in Limits : pumps[m] > 0 => m <= limit

\* The types a step is computed with.
LEMMA TypedState ==
  ASSUME IInv
  PROVE  /\ phase \in [Procs -> Phases] /\ running \in Nat /\ limit \in Limits
         /\ limit \in Nat /\ limit > 0 /\ changes \in Nat
         /\ answer \in [Procs -> 0..MaxLimit] /\ pumps \in [0..MaxLimit -> Nat]
         /\ aborted \in [Procs -> BOOLEAN]
         /\ MaxLimit \in Nat \ {0} /\ Limits \subseteq 0..MaxLimit /\ 0 \notin Limits
BY BoundsAssumption DEF IInv, TypeOK, Limits

\* One more pump has been told nothing yet.
LEMMA PumpedSteady ==
  ASSUME IInv, NEW m \in Limits, Pumped[m] > 0
  PROVE  pumps[m] > 0
BY TypedState DEF Pumped

\* A limit that does not change bounds what is admitted, whoever was told when.
LEMMA SteadyStep == IInv /\ Steady /\ [Next]_vars => Steady'
<1> SUFFICES ASSUME IInv, Steady, [Next]_vars, changes' = 0
             PROVE  /\ running' <= limit'
                    /\ \A p \in Procs : phase'[p] = "answered" => answer'[p] <= limit'
                    /\ \A m \in Limits : pumps'[m] > 0 => m <= limit'
  BY DEF Steady
<1>0. /\ phase \in [Procs -> Phases] /\ running \in Nat /\ limit \in Limits
      /\ limit \in Nat /\ limit > 0 /\ changes \in Nat
      /\ answer \in [Procs -> 0..MaxLimit] /\ pumps \in [0..MaxLimit -> Nat]
      /\ Limits \subseteq 0..MaxLimit /\ 0 \notin Limits
  BY TypedState
<1>1. CASE UNCHANGED <<limit, changes>>
  <2>0. /\ limit' = limit /\ running <= limit
        /\ \A p \in Procs : phase[p] = "answered" => answer[p] <= limit
        /\ \A m \in Limits : pumps[m] > 0 => m <= limit
    BY <1>1 DEF Steady
  <2>1. ASSUME NEW p \in Procs,
               \/ Enter(p) \/ LimitAnswered(p) \/ StoppedWhileAsking(p)
               \/ AbortElsewhere(p) \/ Return(p) \/ JoinLine(p)
        PROVE  /\ UNCHANGED <<running, pumps>>
               /\ \A q \in Procs : phase'[q] = "answered" => answer'[q] <= limit
    BY <1>0, <2>0, <2>1 DEF Enter, LimitAnswered, StoppedWhileAsking, AbortElsewhere, Return,
                            JoinLine, queueVars
  <2>2. ASSUME NEW p \in Procs, TakeFreeSlot(p)
        PROVE  /\ running' <= limit /\ UNCHANGED pumps
               /\ \A q \in Procs : phase'[q] = "answered" => answer'[q] <= limit
    <3>1. IF p \in Switches THEN running = 0 ELSE running < answer[p]
      BY <2>2 DEF TakeFreeSlot, RoomFor
    <3>2. running' = running + 1 /\ answer[p] <= limit /\ answer[p] \in Nat
      BY <1>0, <2>0, <2>2 DEF TakeFreeSlot
    <3>3. running' <= limit
      BY <1>0, <3>1, <3>2
    <3> QED BY <1>0, <2>0, <2>2, <3>3 DEF TakeFreeSlot
  <2>3. ASSUME NEW p \in Procs, AbortWaiting(p) \/ Release(p) \/ GiveUp(p)
        PROVE  /\ running' <= limit /\ pumps' = Pumped
               /\ \A q \in Procs : phase'[q] = "answered" => answer'[q] <= limit
    <3>1. running' \in {running, running - 1} /\ pumps' = Pumped
      BY <2>3 DEF AbortWaiting, Release, GiveUp, Freed
    <3>2. running' <= limit
      BY <1>0, <2>0, <3>1
    <3>3. \A q \in Procs : phase'[q] = "answered" => answer'[q] <= limit
      BY <1>0, <2>0, <2>3 DEF AbortWaiting, Release, GiveUp
    <3> QED BY <3>1, <3>2, <3>3
  <2>4. CASE PumpAnswered
    <3>1. pumps' = [pumps EXCEPT ![0] = @ - 1, ![limit] = @ + 1]
          /\ UNCHANGED <<running, phase, answer>>
      BY <2>4 DEF PumpAnswered, queueVars, callerVars
    <3>2. \A m \in Limits : m # limit => pumps'[m] = pumps[m]
      BY <1>0, <3>1
    <3> QED BY <1>0, <2>0, <3>1, <3>2
  <2>5. ASSUME NEW max \in Limits, PumpAdmits(max)
        PROVE  /\ running' <= limit
               /\ \A q \in Procs : phase'[q] = "answered" => answer'[q] <= limit
               /\ \A m \in Limits : pumps'[m] > 0 => m <= limit
    <3>1. PICK n \in 0..Len(waiting) :
            /\ MayAdmit(n, max) /\ running' = running + n
            /\ FirstOf(waiting, n) \subseteq {q \in Procs : phase[q] = "waiting"}
            /\ phase' = [p \in Procs |-> IF p \in FirstOf(waiting, n) THEN "holding" ELSE phase[p]]
      BY <2>5, PumpShifts
    <3>2. pumps[max] > 0 /\ max <= limit /\ max \in Nat
      BY <1>0, <2>0, <2>5 DEF PumpAdmits
    <3>3. n \in Nat /\ FirstOf(waiting, n) \subseteq Procs
      BY <3>1, LenProperties DEF IInv, TypeOK
    <3>4. running' <= limit
      <4>1. running' = running + n
        BY <3>1
      <4>2. n = 0 => running' <= limit
        BY <1>0, <2>0, <4>1
      <4>3. n > 0 => (running + n <= max \/ (n = 1 /\ running = 0))
        BY <1>0, <3>1, <3>2, <3>3, AdmittedFit
      <4> QED BY <1>0, <3>2, <3>3, <4>1, <4>2, <4>3
    <3>5. \A q \in Procs : phase'[q] = "answered" => answer'[q] <= limit
      BY <2>0, <2>5, <3>1 DEF PumpAdmits
    <3>6. \A m \in Limits : pumps'[m] > 0 => pumps[m] > 0
      BY <1>0, <2>5, <3>2 DEF PumpAdmits
    <3> QED BY <2>0, <3>4, <3>5, <3>6
  <2>6. CASE Rest \/ UNCHANGED vars
    BY <2>0, <2>6 DEF Rest, vars
  <2>7. ASSUME NEW l \in Limits, ChangeLimit(l) \/ ProbeExpires(l) PROVE FALSE
    BY <1>0, <1>1, <2>7 DEF ChangeLimit, ProbeExpires
  <2>8. ASSUME pumps' = Pumped PROVE \A m \in Limits : pumps'[m] > 0 => m <= limit
    BY <2>0, <2>8, PumpedSteady
  <2>9. ASSUME NEW p \in Procs, CallerNext(p)
        PROVE  /\ running' <= limit
               /\ \A q \in Procs : phase'[q] = "answered" => answer'[q] <= limit
               /\ \A m \in Limits : pumps'[m] > 0 => m <= limit
    <3>1. CASE \/ Enter(p) \/ LimitAnswered(p) \/ StoppedWhileAsking(p)
               \/ AbortElsewhere(p) \/ Return(p) \/ JoinLine(p)
      BY <2>0, <2>1, <3>1
    <3>2. CASE TakeFreeSlot(p)
      BY <2>0, <2>2, <3>2
    <3>3. CASE AbortWaiting(p) \/ Release(p) \/ GiveUp(p)
      BY <2>3, <2>8, <3>3
    <3> QED BY <2>9, <3>1, <3>2, <3>3 DEF CallerNext
  <2> QED BY <2>0, <2>4, <2>5, <2>6, <2>7, <2>9 DEF Next
<1>2. CASE ~UNCHANGED <<limit, changes>>
  \* Only a change of the limit gets here, and it is counted.
  <2>1. ASSUME NEW l \in Limits, ChangeLimit(l) \/ ProbeExpires(l) PROVE FALSE
    BY <1>0, <2>1 DEF ChangeLimit, ProbeExpires
  <2>2. ASSUME NEW p \in Procs, CallerNext(p) PROVE UNCHANGED <<limit, changes>>
    BY <2>2 DEF CallerNext, Enter, LimitAnswered, StoppedWhileAsking, TakeFreeSlot, JoinLine,
                AbortElsewhere, AbortWaiting, Release, GiveUp, Return, limitVars
  <2>3. CASE PumpAnswered \/ Rest \/ UNCHANGED vars
    BY <1>2, <2>3 DEF PumpAnswered, Rest, vars, limitVars
  <2>4. ASSUME NEW m \in Limits, PumpAdmits(m) PROVE UNCHANGED <<limit, changes>>
    BY <2>4 DEF PumpAdmits, limitVars
  <2> QED BY <1>2, <2>1, <2>2, <2>3, <2>4 DEF Next
<1> QED BY <1>1, <1>2

\* A backend whose limit nobody changed never runs more than it allows.
THEOREM LineNeverOvercommits == Spec => []NoOvercommit
<1>1. Init => Steady
  BY BoundsAssumption DEF Init, Steady, Limits
<1>2. Steady => NoOvercommit
  BY DEF Steady, NoOvercommit
<1> QED BY <1>1, <1>2, SteadyStep, Invariance, PTL DEF Spec

-----------------------------------------------------------------------------
(* Stopped callers.                                                        *)

\* A stop takes a waiter out of the line in the same turn of the event loop.
WaitersLive == \A p \in Procs : phase[p] = "waiting" => ~aborted[p]

\* No step leaves a stopped caller in line.
LEMMA WaitersLiveStep == IInv /\ WaitersLive /\ [Next]_vars => WaitersLive'
<1> SUFFICES ASSUME IInv, WaitersLive, [Next]_vars PROVE WaitersLive'
  OBVIOUS
<1>0. phase \in [Procs -> Phases] /\ aborted \in [Procs -> BOOLEAN]
  BY TypedState
<1>1. ASSUME NEW p \in Procs, CallerNext(p) PROVE WaitersLive'
  BY <1>0, <1>1 DEF CallerNext, Enter, LimitAnswered, StoppedWhileAsking, TakeFreeSlot, JoinLine,
                    AbortElsewhere, AbortWaiting, Release, GiveUp, Return, Stopped, WaitersLive
<1>2. CASE PumpAnswered \/ Rest \/ UNCHANGED vars
  BY <1>2 DEF PumpAnswered, Rest, vars, callerVars, WaitersLive
<1>3. ASSUME NEW m \in Limits, PumpAdmits(m) PROVE WaitersLive'
  <2>1. PICK n \in 0..Len(waiting) :
          phase' = [p \in Procs |-> IF p \in FirstOf(waiting, n) THEN "holding" ELSE phase[p]]
    BY <1>3, PumpShifts
  <2> QED BY <1>3, <2>1 DEF PumpAdmits, WaitersLive
<1>4. ASSUME NEW l \in Limits, ChangeLimit(l) \/ ProbeExpires(l) PROVE WaitersLive'
  BY <1>4 DEF ChangeLimit, ProbeExpires, callerVars, WaitersLive
<1> QED BY <1>1, <1>2, <1>3, <1>4 DEF Next

\* A run that was stopped is never handed a slot: not by the fast path, whose
\* signal is read again after the await, and not by a pump.
THEOREM StoppedAreNeverServed == Spec => NoSlotForStopped
<1>1. IInv /\ WaitersLive /\ [Next]_vars
      => [\A p \in Procs : aborted[p] /\ p \notin Holders => p \notin Holders']_vars
  <2> SUFFICES ASSUME IInv, WaitersLive, Next, NEW p \in Procs, aborted[p], p \notin Holders
               PROVE  p \notin Holders'
    OBVIOUS
  <2>0. phase \in [Procs -> Phases] /\ phase[p] # "holding"
    BY TypedState DEF Holders
  <2>1. ASSUME NEW q \in Procs, CallerNext(q) PROVE p \notin Holders'
    BY <2>0, <2>1 DEF CallerNext, Enter, LimitAnswered, StoppedWhileAsking, TakeFreeSlot, JoinLine,
                      AbortElsewhere, AbortWaiting, Release, GiveUp, Return, Stopped, Holders
  <2>2. CASE PumpAnswered \/ Rest
    BY <2>0, <2>2 DEF PumpAnswered, Rest, vars, callerVars, Holders
  <2>3. ASSUME NEW m \in Limits, PumpAdmits(m) PROVE p \notin Holders'
    <3>1. PICK n \in 0..Len(waiting) :
            /\ FirstOf(waiting, n) \subseteq {q \in Procs : phase[q] = "waiting"}
            /\ Holders' = Holders \cup FirstOf(waiting, n)
      BY <2>3, PumpShifts
    <3> QED BY <3>1 DEF WaitersLive
  <2>4. ASSUME NEW l \in Limits, ChangeLimit(l) \/ ProbeExpires(l) PROVE p \notin Holders'
    BY <2>0, <2>4 DEF ChangeLimit, ProbeExpires, callerVars, Holders
  <2> QED BY <2>1, <2>2, <2>3, <2>4 DEF Next
<1>2. Init => WaitersLive
  BY DEF Init, WaitersLive
<1> QED BY <1>1, <1>2, WaitersLiveStep, Invariance, PTL DEF Spec, NoSlotForStopped

-----------------------------------------------------------------------------
(* The order of the line.                                                  *)

\* q stands before p in line.
Before(q, p) ==
  \E i, j \in DOMAIN waiting : i < j /\ waiting[i] = q /\ waiting[j] = p

\* Whoever a pump admits stood before whoever it leaves waiting.
LEMMA PumpAdmitsTheFront ==
  ASSUME IInv, NEW max \in Limits, PumpAdmits(max),
         NEW p \in Procs, phase[p] = "waiting", phase'[p] = "waiting",
         NEW q \in Procs, q \in Holders', q \notin Holders
  PROVE  Before(q, p)
<1>0. Len(waiting) \in Nat /\ DOMAIN waiting = 1..Len(waiting)
  BY LenProperties DEF IInv, TypeOK
<1>1. PICK n \in 0..Len(waiting) :
        /\ Holders' = Holders \cup FirstOf(waiting, n)
        /\ phase' = [r \in Procs |-> IF r \in FirstOf(waiting, n) THEN "holding" ELSE phase[r]]
  BY PumpShifts
<1>2. PICK i \in 1..n : waiting[i] = q
  BY <1>1 DEF FirstOf
<1>3. PICK j \in DOMAIN waiting : waiting[j] = p
  BY DEF IInv, LineIsWaiters
<1>4. j > n
  <2>1. p \notin FirstOf(waiting, n)
    BY <1>1
  <2> QED BY <1>0, <1>3, <2>1 DEF FirstOf
<1> QED BY <1>0, <1>2, <1>3, <1>4 DEF Before

\* Nobody is admitted past someone who was in line before and still is.
THEOREM NobodyIsOvertaken == Spec => NoOvertaking
<1>1. IInv /\ [Next]_vars
      => [\A p, q \in Procs :
            /\ phase[p] = "waiting" /\ phase'[p] = "waiting"
            /\ q \in Holders' \ Holders
            => \E i, j \in DOMAIN waiting : i < j /\ waiting[i] = q /\ waiting[j] = p]_vars
  <2> SUFFICES ASSUME IInv, Next, NEW p \in Procs, NEW q \in Procs,
                      phase[p] = "waiting", phase'[p] = "waiting",
                      q \in Holders', q \notin Holders
               PROVE  Before(q, p)
    BY DEF Before
  <2>0. phase \in [Procs -> Phases] /\ phase[q] # "holding"
    BY TypedState DEF Holders
  \* The fast path asks for an empty line, and p is in it.
  <2>1. ASSUME NEW r \in Procs, TakeFreeSlot(r) PROVE FALSE
    <3>1. waiting = <<>>
      BY <2>1 DEF TakeFreeSlot, RoomFor
    <3>2. p \in {waiting[i] : i \in DOMAIN waiting}
      BY DEF IInv, LineIsWaiters
    <3> QED BY <3>1, <3>2
  <2>2. ASSUME NEW r \in Procs, CallerNext(r) PROVE FALSE
    <3>1. CASE \/ Enter(r) \/ LimitAnswered(r) \/ StoppedWhileAsking(r) \/ JoinLine(r)
               \/ AbortElsewhere(r) \/ AbortWaiting(r) \/ Release(r) \/ GiveUp(r) \/ Return(r)
      BY <2>0, <3>1 DEF Enter, LimitAnswered, StoppedWhileAsking, JoinLine, AbortElsewhere,
                        AbortWaiting, Release, GiveUp, Return, Holders
    <3> QED BY <2>1, <2>2, <3>1 DEF CallerNext
  <2>3. CASE PumpAnswered \/ Rest
    BY <2>0, <2>3 DEF PumpAnswered, Rest, vars, callerVars, Holders
  <2>4. ASSUME NEW l \in Limits, ChangeLimit(l) \/ ProbeExpires(l) PROVE FALSE
    BY <2>0, <2>4 DEF ChangeLimit, ProbeExpires, callerVars, Holders
  <2> QED BY <2>2, <2>3, <2>4, PumpAdmitsTheFront DEF Next
<1> QED BY <1>1, Invariance, PTL DEF Spec, NoOvertaking
=============================================================================
