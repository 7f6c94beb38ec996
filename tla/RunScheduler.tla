---------------------------- MODULE RunScheduler ----------------------------
(***************************************************************************)
(* One provider's run queue (apps/server/src/inference/scheduler.ts).      *)
(*                                                                         *)
(* The server is one Node process: code between two awaits is one step.    *)
(* `enter` and `pump` each await resolveMaxConcurrent first, so each is    *)
(* three steps here: ask for the limit, get an answer, act on it.  By the  *)
(* time the answer is acted on the limit, the queue and the abort signal   *)
(* may all have changed.                                                   *)
(***************************************************************************)
EXTENDS Integers, Sequences, FiniteSets, SequencesExt

CONSTANTS Runs,       \* callers of acquireRunSlot: whole turns
          Switches,   \* callers of acquireExclusiveSlot: context-stage switches
          MaxLimit,   \* bound: the largest limit an admin or backend gives
          MaxYields,  \* bound: how often one run gives its slot up
          MaxChanges  \* bound: how often the limit changes

Procs == Runs \cup Switches

ASSUME ProcsAssumption == /\ IsFiniteSet(Runs)
                          /\ IsFiniteSet(Switches)
                          /\ Runs \cap Switches = {}
ASSUME BoundsAssumption == /\ MaxLimit \in Nat \ {0}
                           /\ MaxYields \in Nat
                           /\ MaxChanges \in Nat

VARIABLES
  running,    \* Queue.running: slots handed out
  exclusive,  \* Queue.exclusive: a switch has the backend
  waiting,    \* Queue.waiting: the line, head first
  limit,      \* what resolveMaxConcurrent answers at this moment
  pumps,      \* pump() calls in flight: [0] await the limit, [m] were told m
  phase,      \* where each caller is in its acquire/hold/yield life
  answer,     \* the limit a caller's resolveMaxConcurrent returned
  reentry,    \* whether its current entry is yieldWhile's (priority)
  aborted,    \* its AbortSignal
  told,       \* the position last given to its QueuedListener, 0 = admitted
  yields,     \* how often it gave its slot up
  changes     \* how often the limit changed

queueVars == <<running, exclusive, waiting>>
callerVars == <<phase, answer, reentry, aborted, yields>>
limitVars == <<limit, changes>>
vars == <<running, exclusive, waiting, limit, pumps, phase, answer, reentry,
          aborted, told, yields, changes>>

Phases == {"idle", "asking", "answered", "waiting", "holding", "outside", "ended"}
Limits == 1..MaxLimit

Holders == {p \in Procs : phase[p] = "holding"}

Init ==
  /\ running = 0
  /\ exclusive = FALSE
  /\ waiting = <<>>
  /\ limit \in Limits
  /\ pumps = [m \in 0..MaxLimit |-> 0]
  /\ phase = [p \in Procs |-> "idle"]
  /\ answer = [p \in Procs |-> 0]
  /\ reentry = [p \in Procs |-> FALSE]
  /\ aborted = [p \in Procs |-> FALSE]
  /\ told = [p \in Procs |-> 0]
  /\ yields = [p \in Procs |-> 0]
  /\ changes = 0

-----------------------------------------------------------------------------
(* Helpers, each after the broken forms of it that the mutants use. *)

Stopped_Unchecked(p) == FALSE

\* signal.aborted, read again after every await.
Stopped(p) == aborted[p]

Pumped_Forgotten == pumps

\* pump(): one more call, which has only asked for the limit yet.
Pumped == [pumps EXCEPT ![0] = @ + 1]

Freed_NotCounted == running
Freed_Twice == running - 2

\* What give() and release() leave of the counter.
Freed == running - 1

\* notifyPositions: everyone in line w hears where they stand.
Notified(w) ==
  [p \in Procs |-> IF \E i \in DOMAIN w : w[i] = p
                   THEN CHOOSE i \in DOMAIN w : w[i] = p
                   ELSE told[p]]

\* The line p has joined: a re-entry at the front, anyone else at the back.
Joined(p) == IF reentry[p] THEN <<p>> \o waiting ELSE Append(waiting, p)

\* The line p has left (onAbort's splice).
Left(p) == RemoveAt(waiting, CHOOSE i \in DOMAIN waiting : waiting[i] = p)

RoomFor_PastTheLine(p) ==
  /\ ~exclusive
  /\ IF p \in Switches THEN running = 0 ELSE running < answer[p]

RoomFor_OneTooMany(p) ==
  /\ ~exclusive
  /\ waiting = <<>>
  /\ IF p \in Switches THEN running = 0 ELSE running <= answer[p]

\* The fast path's test, against the limit p was told.
RoomFor(p) ==
  /\ ~exclusive
  /\ waiting = <<>>
  /\ IF p \in Switches THEN running = 0 ELSE running < answer[p]

MayAdmit_SwitchInCompany(n, max) ==
  /\ n > 0 => ~exclusive
  /\ \A i \in 1..n :
       IF waiting[i] \in Switches THEN running = 0 ELSE running + i <= max

\* pump's loop may shift the first n of the line when told the limit max: a
\* switch only alone and first, a run while there is room, nobody past a switch.
MayAdmit(n, max) ==
  /\ n > 0 => ~exclusive
  /\ \A i \in 1..n :
       IF waiting[i] \in Switches THEN running = 0 /\ n = 1
       ELSE running + i <= max

-----------------------------------------------------------------------------
(* enter(), for a first entry and for yieldWhile's re-entry. *)

\* A caller reaches enter: a stopped one gets `false` at once.
Enter(p) ==
  /\ phase[p] = "idle"
  /\ phase' = [phase EXCEPT ![p] = IF Stopped(p) THEN "ended" ELSE "asking"]
  /\ UNCHANGED <<queueVars, limitVars, pumps, answer, reentry, aborted, told, yields>>

\* The limit is read, and the answer travels back across the await.
LimitAnswered(p) ==
  /\ phase[p] = "asking"
  /\ phase' = [phase EXCEPT ![p] = "answered"]
  /\ answer' = [answer EXCEPT ![p] = limit]
  /\ UNCHANGED <<queueVars, limitVars, pumps, reentry, aborted, told, yields>>

\* Stopped during the await: `false`, and nothing is taken or queued.
StoppedWhileAsking(p) ==
  /\ phase[p] = "answered"
  /\ Stopped(p)
  /\ phase' = [phase EXCEPT ![p] = "ended"]
  /\ answer' = [answer EXCEPT ![p] = 0]
  /\ UNCHANGED <<queueVars, limitVars, pumps, reentry, aborted, told, yields>>

\* The fast path: nobody waits and there is room, so p is in.
TakeFreeSlot(p) ==
  /\ phase[p] = "answered"
  /\ ~Stopped(p)
  /\ RoomFor(p)
  /\ running' = running + 1
  /\ exclusive' = (p \in Switches)
  /\ told' = [told EXCEPT ![p] = 0]
  /\ phase' = [phase EXCEPT ![p] = "holding"]
  /\ answer' = [answer EXCEPT ![p] = 0]
  /\ UNCHANGED <<waiting, limitVars, pumps, reentry, aborted, yields>>

\* Otherwise it joins the line, a re-entry at the front, and everyone is told.
JoinLine(p) ==
  /\ phase[p] = "answered"
  /\ ~Stopped(p)
  /\ ~RoomFor(p)
  /\ waiting' = Joined(p)
  /\ told' = Notified(waiting')
  /\ phase' = [phase EXCEPT ![p] = "waiting"]
  /\ answer' = [answer EXCEPT ![p] = 0]
  /\ UNCHANGED <<running, exclusive, limitVars, pumps, reentry, aborted, yields>>

-----------------------------------------------------------------------------
(* The abort signal. *)

\* Anyone not in line only has its signal set; what it does next looks at it.
AbortElsewhere(p) ==
  /\ phase[p] \in {"idle", "asking", "answered", "holding", "outside"}
  /\ ~aborted[p]
  /\ aborted' = [aborted EXCEPT ![p] = TRUE]
  /\ UNCHANGED <<queueVars, limitVars, pumps, phase, answer, reentry, told, yields>>

\* A waiter's onAbort: leave the line, tell the others, pump.
AbortWaiting(p) ==
  /\ phase[p] = "waiting"
  /\ aborted' = [aborted EXCEPT ![p] = TRUE]
  /\ waiting' = Left(p)
  /\ told' = Notified(waiting')
  /\ pumps' = Pumped
  /\ phase' = [phase EXCEPT ![p] = "ended"]
  /\ UNCHANGED <<running, exclusive, limitVars, answer, reentry, yields>>

-----------------------------------------------------------------------------
(* Giving a slot back. *)

\* release(): the turn or the switch is over.
Release(p) ==
  /\ phase[p] = "holding"
  /\ running' = Freed
  /\ exclusive' = (exclusive /\ p \notin Switches)
  /\ pumps' = Pumped
  /\ phase' = [phase EXCEPT ![p] = "ended"]
  /\ UNCHANGED <<waiting, limitVars, answer, reentry, aborted, told, yields>>

\* yieldWhile's give(): a run waits for a person, a sub-agent or a switch.
GiveUp(p) ==
  /\ p \in Runs
  /\ phase[p] = "holding"
  /\ yields[p] < MaxYields
  /\ running' = Freed
  /\ pumps' = Pumped
  /\ yields' = [yields EXCEPT ![p] = @ + 1]
  /\ phase' = [phase EXCEPT ![p] = "outside"]
  /\ UNCHANGED <<exclusive, waiting, limitVars, answer, reentry, aborted, told>>

\* Its work is over, by result or by throw: enter again, at the front.  A run
\* stopped meanwhile ends (RunSlotAbortedError) and its later release is a no-op.
Return(p) ==
  /\ phase[p] = "outside"
  /\ reentry' = [reentry EXCEPT ![p] = TRUE]
  /\ phase' = [phase EXCEPT ![p] = IF Stopped(p) THEN "ended" ELSE "asking"]
  /\ UNCHANGED <<queueVars, limitVars, pumps, answer, aborted, told, yields>>

-----------------------------------------------------------------------------
(* pump() and the limit. *)

PumpAnswered ==
  /\ pumps[0] > 0
  /\ pumps' = [pumps EXCEPT ![0] = @ - 1, ![limit] = @ + 1]
  /\ UNCHANGED <<queueVars, limitVars, callerVars, told>>

\* The loop runs to its end without an await, so it is one step: the longest
\* admissible front of the line is shifted, then everyone left hears its place.
PumpAdmits(max) ==
  /\ pumps[max] > 0
  /\ pumps' = [pumps EXCEPT ![max] = @ - 1]
  /\ \E n \in 0..Len(waiting) :
       /\ MayAdmit(n, max)
       /\ \A k \in (n + 1)..Len(waiting) : ~MayAdmit(k, max)
       /\ LET admitted == {waiting[i] : i \in 1..n}
          IN /\ running' = running + n
             /\ exclusive' = (exclusive \/ admitted \cap Switches # {})
             /\ waiting' = SubSeq(waiting, n + 1, Len(waiting))
             /\ phase' = [p \in Procs |-> IF p \in admitted THEN "holding" ELSE phase[p]]
             /\ told' = [p \in Procs |-> IF p \in admitted THEN 0 ELSE Notified(waiting')[p]]
  /\ UNCHANGED <<limitVars, answer, reentry, aborted, yields>>

\* An admin or provider write: the limit is another one, and kickScheduler pumps.
ChangeLimit(l) ==
  /\ changes < MaxChanges
  /\ l # limit
  /\ limit' = l
  /\ changes' = changes + 1
  /\ pumps' = Pumped
  /\ UNCHANGED <<queueVars, callerVars, told>>

\* The cached probe expires (PROBE_TTL_MS) after the backend was restarted with
\* other slots: the answer changes and nobody is kicked.
ProbeExpires(l) ==
  /\ changes < MaxChanges
  /\ l # limit
  /\ limit' = l
  /\ changes' = changes + 1
  /\ UNCHANGED <<queueVars, callerVars, pumps, told>>

-----------------------------------------------------------------------------
\* Every caller is done and nothing is left to happen.  Anything else that
\* cannot move is a deadlock.
Rest == (\A p \in Procs : phase[p] = "ended") /\ UNCHANGED vars

CallerNext(p) ==
  \/ Enter(p) \/ LimitAnswered(p) \/ StoppedWhileAsking(p)
  \/ TakeFreeSlot(p) \/ JoinLine(p)
  \/ AbortElsewhere(p) \/ AbortWaiting(p)
  \/ Release(p) \/ GiveUp(p) \/ Return(p)

Next ==
  \/ \E p \in Procs : CallerNext(p)
  \/ PumpAnswered
  \/ \E m \in Limits : PumpAdmits(m)
  \/ \E l \in Limits : ChangeLimit(l) \/ ProbeExpires(l)
  \/ Rest

Spec == Init /\ [][Next]_vars

\* The event loop runs every continuation, and a turn ends by itself (its
\* timeouts see to it).  Nobody has to stop a run, to answer an approval or to
\* change a limit, so those actions have no fairness.
Fairness ==
  /\ \A p \in Procs : /\ WF_vars(LimitAnswered(p))
                      /\ WF_vars(StoppedWhileAsking(p) \/ TakeFreeSlot(p) \/ JoinLine(p))
                      /\ WF_vars(Release(p))
  /\ WF_vars(PumpAnswered)
  /\ \A m \in Limits : WF_vars(PumpAdmits(m))

FairSpec == Spec /\ Fairness

-----------------------------------------------------------------------------
(* Properties. *)

TypeOK ==
  /\ running \in Nat
  /\ exclusive \in BOOLEAN
  /\ waiting \in Seq(Procs)
  /\ limit \in Limits
  /\ pumps \in [0..MaxLimit -> Nat]
  /\ phase \in [Procs -> Phases]
  /\ answer \in [Procs -> 0..MaxLimit]
  /\ reentry \in [Procs -> BOOLEAN]
  /\ aborted \in [Procs -> BOOLEAN]
  /\ told \in [Procs -> Nat]
  /\ yields \in [Procs -> Nat]
  /\ changes \in Nat

\* The counters and the callers agree: `running` is exactly the callers that
\* think they hold a slot, `exclusive` exactly "a switch holds".  A lost or
\* doubled decrement, across release, yield, abort and re-entry, breaks it.
Accounting ==
  /\ running = Cardinality(Holders)
  /\ exclusive <=> (\E s \in Switches : s \in Holders)

\* A context-stage switch reloads the model under every run, so while it has
\* the backend nobody else does.
ExclusiveAlone ==
  \A s \in Switches : s \in Holders => Holders = {s}

\* The line is exactly the callers that wait, each once: a stopped run leaves
\* no ghost behind and an admitted one no duplicate.
LineIsWaiters ==
  /\ \A i, j \in DOMAIN waiting : waiting[i] = waiting[j] => i = j
  /\ {waiting[i] : i \in DOMAIN waiting} = {p \in Procs : phase[p] = "waiting"}

\* Under a limit nobody changed, the backend never runs more than it allows,
\* however many enters and pumps were between their question and its answer.
NoOvercommit == changes = 0 => running <= limit

\* An idle backend with a line has a pump on the way: no wake-up is lost.
NoLostWakeup ==
  waiting # <<>> /\ running = 0 => \E m \in 0..MaxLimit : pumps[m] > 0

\* Nobody is admitted past someone who was in line before and still is: not by
\* the fast path, not by a pump, not past a waiting switch.
NoOvertaking ==
  [][\A p, q \in Procs :
       /\ phase[p] = "waiting" /\ phase'[p] = "waiting"
       /\ q \in Holders' \ Holders
       => \E i, j \in DOMAIN waiting : i < j /\ waiting[i] = q /\ waiting[j] = p]_vars

\* A run that was stopped is never handed a slot.
NoSlotForStopped ==
  [][\A p \in Procs : aborted[p] /\ p \notin Holders => p \notin Holders']_vars

\* Everyone in line is admitted or leaves: a stream of new runs cannot starve
\* a switch at the head, nor can a switch strand the runs behind it.
WaitersLeaveLine ==
  \A p \in Procs : phase[p] = "waiting" ~> phase[p] # "waiting"

\* The queue implements the shared/exclusive lock.
Lock == INSTANCE SlotLock WITH holders <- Holders, Capacity <- MaxLimit
ImplementsLock == Lock!Spec
=============================================================================
