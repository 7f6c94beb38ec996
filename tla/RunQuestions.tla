---------------------------- MODULE RunQuestions ----------------------------
(***************************************************************************)
(* What a run asks a person, and what an answer does: approvals of tool    *)
(* calls and step check-ins (streams/runs/engine.ts), kept in the registry *)
(* of live runs (streams/registry.ts) and answered from any socket         *)
(* (ws/run-actions.ts), for a thread's run and the sub-agent it starts.    *)
(*                                                                         *)
(* A run makes its tool calls one at a time, so it waits on at most one    *)
(* person: the `approvals` map and the `stepsDecision` slot are where the  *)
(* run is.  Settling a wait, withdrawing its entry and waking the run are  *)
(* one turn of the event loop.  The inference slot a waiting run gives     *)
(* back and queues for again is RunScheduler's; here its re-entry is a     *)
(* step that may come late.                                                *)
(***************************************************************************)
EXTENDS Integers, FiniteSets, Sequences

CONSTANTS
  People,         \* who answers: Starter, "editor" or "viewer"
  MaxSteps,       \* bound: model responses of the run, one tool call in each
  MaxChildSteps,  \* bound: those of its sub-agent
  MaxAnswers,     \* bound: answers people send
  MaxSwitches,    \* bound: times the mode selector is moved
  AutoContinues,  \* settings: unanswered check-ins in a row that carry on
  IdsRepeat       \* the model calls every call call_0, or numbers its calls

ASSUME QuestionsAssumption ==
  /\ People \subseteq {"starter", "editor", "viewer"}
  /\ {MaxSteps, MaxChildSteps, MaxAnswers, MaxSwitches, AutoContinues} \subseteq Nat
  /\ MaxChildSteps <= MaxSteps
  /\ IdsRepeat \in BOOLEAN

VARIABLES
  life,       \* per run: "absent", "starting", "live", "ended"
  at,         \* per run: where its loop is, see Places
  step,       \* per run: responses so far, which numbers the current call
  mode,       \* per run: handle.mode
  stopped,    \* per run: its abort signal fired
  decidedIn,  \* per run: the mode the gate last decided the call in
  askedIn,    \* per run: the mode the question went out in
  outcome,    \* per run: how its wait ended, until the run is back on a slot
  trusted,    \* per run: its tool runs unasked ("Allow always")
  unattended, \* per run: check-ins in a row that nobody answered
  limitsOff,  \* the owner has switched the step limits off
  asked,      \* history: <<run, step, kind>> of every question put to a person
  answers,    \* answers sent: on the wire, being authorized, or done
  switches

runVars == <<life, at, step, stopped, decidedIn, askedIn, outcome, trusted, unattended>>
vars == <<life, at, step, mode, stopped, decidedIn, askedIn, outcome, trusted, unattended, limitsOff, asked, answers, switches>>

Parent == "parent"
Child == "child"
Runs == {Parent, Child}
StepsOf(r) == IF r = Parent THEN MaxSteps ELSE MaxChildSteps

Starter == "starter"   \* whose run it is, and whose tools
MayActOnRun(u) == u # "viewer"

Places == {"thinking",   \* the model responds, or a tool works
           "checking",   \* permissionGate awaits the auto-mode check
           "asking",     \* waitForApproval: the call is in `approvals`
           "parked",     \* waitForStepsDecision: `stepsDecision` is set
           "returning",  \* yieldWhile is back in the line for a slot
           "delegating"} \* yieldWhile is around the sub-agent's whole run

Modes == {"manual", "auto"}
Outcomes == {"none", "regate", "approved", "denied", "timeout", "aborted", "continue", "answer"}

\* The call id the model gave the call of a step.
Id(n) == IF IdsRepeat THEN 0 ELSE n

\* How a wait ended; an answer's says who gave it, and the question it was
\* given on: a run and a step of it.
Nothing == <<Parent, 0>>

Ended(kind) == [kind |-> kind, by |-> "nobody", about |-> Nothing, always |-> FALSE, named |-> FALSE]

Done == [at |-> "done", run |-> Parent, kind |-> "approval", about |-> Nothing,
         by |-> Starter, yes |-> FALSE, always |-> FALSE, named |-> FALSE]

Init ==
  /\ life = [r \in Runs |-> IF r = Parent THEN "live" ELSE "absent"]
  /\ at = [r \in Runs |-> "thinking"]
  /\ step = [r \in Runs |-> 0]
  /\ mode \in {[r \in Runs |-> m] : m \in Modes}
  /\ stopped = [r \in Runs |-> FALSE]
  /\ decidedIn = mode
  /\ askedIn = mode
  /\ outcome = [r \in Runs |-> Ended("none")]
  /\ trusted = [r \in Runs |-> FALSE]
  /\ unattended = [r \in Runs |-> 0]
  /\ limitsOff = FALSE
  /\ asked = {}
  /\ answers = <<>>
  /\ switches = 0

-----------------------------------------------------------------------------
(* A tool call, from the model's response to its question or its run.      *)

\* A wait settles: its entry is withdrawn and the run queues for its slot.
Settle(r, how) ==
  /\ at' = [at EXCEPT ![r] = "returning"]
  /\ outcome' = [outcome EXCEPT ![r] = how]

\* The run goes on to a place, with no wait of its own to hear from.
Proceed(r, place) ==
  /\ at' = [at EXCEPT ![r] = place]
  /\ outcome' = [outcome EXCEPT ![r] = Ended("none")]

\* waitForApproval, in the turn the gate said so: the question goes out in the
\* mode the run is in by now.  One already stopped is not waited on.
Ask(r, n) ==
  /\ askedIn' = [askedIn EXCEPT ![r] = mode[r]]
  /\ asked' = asked \cup {<<r, n, "approval">>}
  /\ IF stopped[r]
     THEN Settle(r, Ended("aborted"))
     ELSE Proceed(r, "asking")

Unasked(r) ==
  /\ Proceed(r, "thinking")
  /\ UNCHANGED <<askedIn, asked>>

\* permissionGate for the call of step n: what may run unasked in any mode
\* runs; the rest asks in Manual, and in Auto is put to the check.
Gate(r, n, allowed) ==
  /\ decidedIn' = [decidedIn EXCEPT ![r] = mode[r]]
  /\ \/ allowed /\ Unasked(r)
     \/ ~allowed /\ mode[r] = "manual" /\ Ask(r, n)
     \/ ~allowed /\ mode[r] = "auto" /\ Proceed(r, "checking") /\ UNCHANGED <<askedIn, asked>>

\* The model asks for a tool.
NextCall(r) ==
  /\ life[r] = "live" /\ at[r] = "thinking" /\ ~stopped[r]
  /\ step[r] < StepsOf(r)
  /\ step' = [step EXCEPT ![r] = @ + 1]
  /\ \E harmless \in BOOLEAN : Gate(r, step[r] + 1, trusted[r] \/ harmless)
  /\ UNCHANGED <<life, mode, stopped, trusted, unattended, limitsOff,
                 answers, switches>>

\* The check's verdict: the call runs (or a stop refuses it), or it is asked.
Checked(r) ==
  /\ at[r] = "checking"
  /\ Unasked(r) \/ Ask(r, step[r])
  /\ UNCHANGED <<life, step, mode, stopped, decidedIn, trusted, unattended, limitsOff, answers, switches>>

\* "Allow always" counts from the person whose tools they are.
GrantedBy(o) == o.kind = "approved" /\ o.always /\ o.by = Starter

\* Back on a slot.  A regated call is decided again, an approved one runs, any
\* other has its refusal for a result.  A run told to wrap up answers without
\* tools and ends; a stopped one is not let into the line and ends.
Return(r) ==
  /\ at[r] = "returning"
  /\ LET over == stopped[r] \/ outcome[r].kind = "answer"
         again == ~over /\ outcome[r].kind = "regate"
         granted == ~over /\ GrantedBy(outcome[r])
     IN /\ life' = IF over THEN [life EXCEPT ![r] = "ended"] ELSE life
        /\ IF again THEN Gate(r, step[r], trusted[r])
                    ELSE Unasked(r) /\ UNCHANGED decidedIn
        /\ trusted' = [trusted EXCEPT ![r] = @ \/ granted]
  /\ UNCHANGED <<step, mode, stopped, unattended, limitsOff, answers, switches>>

-----------------------------------------------------------------------------
(* The rest of a run's life.                                               *)

AsksNobody_Never(r) == FALSE

\* A sub-agent's check-in would be seen by nobody: it wraps up instead.
AsksNobody(r) == r = Child

\* A finished step has earned a check-in: the window is used up, or it loops.
CheckIn(r) ==
  /\ life[r] = "live" /\ at[r] = "thinking" /\ ~stopped[r]
  /\ step[r] > 0 /\ ~limitsOff
  /\ <<r, step[r], "checkin">> \notin asked
  /\ IF AsksNobody(r)
     THEN life' = [life EXCEPT ![r] = "ended"] /\ UNCHANGED <<at, asked>>
     ELSE /\ at' = [at EXCEPT ![r] = "parked"]
          /\ asked' = asked \cup {<<r, step[r], "checkin">>}
          /\ UNCHANGED life
  /\ UNCHANGED <<step, mode, stopped, decidedIn, askedIn, outcome, trusted, unattended, limitsOff, answers, switches>>

\* unattendedDecision: the first few unanswered check-ins carry on.
CarriesOn(n) == n < AutoContinues

\* The wait's deadline passes.
Timeout(r) ==
  /\ \/ /\ at[r] = "asking"
        /\ Settle(r, Ended("timeout"))
        /\ UNCHANGED unattended
     \/ /\ at[r] = "parked"
        /\ Settle(r, Ended(IF CarriesOn(unattended[r]) THEN "continue" ELSE "answer"))
        /\ unattended' = [unattended EXCEPT ![r] = @ + 1]
  /\ UNCHANGED <<life, step, mode, stopped, decidedIn, askedIn, trusted,
                 limitsOff, asked, answers, switches>>

\* The model has answered, or the abort check after a step says stop.
End(r) ==
  /\ life[r] = "live" /\ at[r] = "thinking"
  /\ life' = [life EXCEPT ![r] = "ended"]
  /\ UNCHANGED <<at, step, mode, stopped, decidedIn, askedIn, outcome, trusted, unattended, limitsOff, asked, answers, switches>>

\* The parent calls the sub-agent tool, with its mode as of this batch, and
\* gives its slot back meanwhile.
Delegate ==
  /\ life[Parent] = "live" /\ at[Parent] = "thinking" /\ ~stopped[Parent]
  /\ life[Child] = "absent"
  /\ life' = [life EXCEPT ![Child] = "starting"]
  /\ at' = [at EXCEPT ![Parent] = "delegating"]
  /\ mode' = [mode EXCEPT ![Child] = mode[Parent]]
  /\ UNCHANGED <<step, stopped, decidedIn, askedIn, outcome, trusted, unattended, limitsOff, asked, answers, switches>>

InheritedMode_AtTheCall == mode[Child]

\* The parent's mode as it is at this moment, not as it was at the call.
InheritedMode == mode[Parent]

\* The child's rows are written: it is registered, with the parent's mode and
\* the parent's stop; or it could not be started.
RegisterChild ==
  /\ life[Child] = "starting"
  /\ \/ /\ life' = [life EXCEPT ![Child] = "live"]
        /\ mode' = [mode EXCEPT ![Child] = InheritedMode]
        /\ stopped' = [stopped EXCEPT ![Child] = stopped[Parent]]
        /\ trusted' = [trusted EXCEPT ![Child] = trusted[Parent]]
     \/ /\ life' = [life EXCEPT ![Child] = "ended"]
        /\ UNCHANGED <<mode, stopped, trusted>>
  /\ UNCHANGED <<at, step, decidedIn, askedIn, outcome, unattended,
                 limitsOff, asked, answers, switches>>

AllSettled_OnceStopped == life[Child] = "ended" \/ stopped[Parent]

\* Promise.all over the children.
AllSettled == life[Child] = "ended"

Delegated ==
  /\ at[Parent] = "delegating"
  /\ AllSettled
  /\ Settle(Parent, Ended("none"))
  /\ UNCHANGED <<life, step, mode, stopped, decidedIn, askedIn, trusted, unattended, limitsOff, asked, answers, switches>>

-----------------------------------------------------------------------------
(* What people do.                                                         *)

\* A question a device has seen is answered on it, however late.
Send ==
  /\ Len(answers) < MaxAnswers
  /\ \E q \in asked, u \in People, yes, always, named \in BOOLEAN :
       /\ always => (yes /\ q[3] = "approval")
       /\ q[3] = "checkin" => named
       /\ answers' = Append(answers, [at |-> "wire", run |-> q[1], kind |-> q[3], about |-> <<q[1], q[2]>>,
                                      by |-> u, yes |-> yes, always |-> always, named |-> named])
  /\ UNCHANGED <<runVars, mode, limitsOff, asked, switches>>

IdOf(a) == Id(a.about[2])

\* The runs whose `approvals` have the call.
Holding(id) == {r \in Runs : at[r] = "asking" /\ Id(step[r]) = id}

Candidates_FallBack(a) ==
  IF a.named /\ a.run \in Holding(IdOf(a)) THEN {a.run} ELSE Holding(IdOf(a))

\* A named run is the only one answered, whoever else holds the call id.
Candidates(a) == Holding(IdOf(a)) \cap (IF a.named THEN {a.run} ELSE Runs)

\* The run an answer is for, as found when it arrives; the first registered of
\* several, since who may act on one run of the thread may act on each.
Targets(a) ==
  IF a.kind = "checkin" THEN {r \in {a.run} : life[r] = "live"}
  ELSE IF Parent \in Candidates(a) THEN {Parent} ELSE Candidates(a)

\* answerApproval and answerCheckin up to mayActOnRun.
Arrive(i) ==
  /\ answers[i].at = "wire"
  /\ LET found == Targets(answers[i])
     IN answers' = [answers EXCEPT ![i] =
          IF found = {} THEN Done
          ELSE [@ EXCEPT !.at = "authz", !.run = CHOOSE r \in found : TRUE]]
  /\ UNCHANGED <<runVars, mode, limitsOff, asked, switches>>

Decided(a) ==
  [kind |-> IF a.kind = "approval" THEN (IF a.yes THEN "approved" ELSE "denied")
            ELSE (IF a.yes THEN "continue" ELSE "answer"),
   by |-> a.by, about |-> a.about, always |-> a.always, named |-> a.named]

\* mayActOnRun has answered: the entry is looked up again, and taken if there
\* is one under the call's id, or in the run's check-in slot.
Land(i) ==
  /\ answers[i].at = "authz"
  /\ answers' = [answers EXCEPT ![i] = Done]
  /\ LET a == answers[i]
         takes == MayActOnRun(a.by) /\ IF a.kind = "approval" THEN a.run \in Holding(IdOf(a))
                                       ELSE at[a.run] = "parked"
     IN IF takes
        THEN /\ Settle(a.run, Decided(a))
             /\ unattended' = IF a.kind = "checkin" THEN [unattended EXCEPT ![a.run] = 0]
                              ELSE unattended
        ELSE UNCHANGED <<at, outcome, unattended>>
  /\ UNCHANGED <<life, step, mode, stopped, decidedIn, askedIn, trusted,
                 limitsOff, asked, switches>>

HearsAbort_IfThinking(r) == FALSE

\* A wait listens to the run's abort signal.
HearsAbort(r) == at[r] \in {"asking", "parked"}

\* stream.stop by someone who may act on the run; a child's signal is tied to
\* its parent's.
Stop(r) ==
  /\ life[r] = "live" /\ ~stopped[r]
  /\ LET hit == {s \in Runs : life[s] = "live" /\ (s = r \/ r = Parent)}
         woken == {s \in hit : ~stopped[s] /\ HearsAbort(s)}
     IN /\ stopped' = [s \in Runs |-> stopped[s] \/ s \in hit]
        /\ at' = [s \in Runs |-> IF s \in woken THEN "returning" ELSE at[s]]
        /\ outcome' = [s \in Runs |-> IF s \in woken THEN Ended("aborted") ELSE outcome[s]]
  /\ UNCHANGED <<life, step, mode, decidedIn, askedIn, trusted, unattended,
                 limitsOff, asked, answers, switches>>

Regated_ParentOnly(r) == r = Parent /\ at[r] = "asking"

\* An approval hears its run's mode change.
Regated(r) == at[r] = "asking"

\* The starter moves the mode selector: the thread's run and its child follow.
SwitchMode ==
  /\ switches < MaxSwitches
  /\ switches' = switches + 1
  /\ life[Parent] = "live"
  /\ LET moved == {r \in Runs : life[r] = "live"}
         to == CHOOSE m \in Modes : m # mode[Parent]
     IN /\ mode' = [r \in Runs |-> IF r \in moved THEN to ELSE mode[r]]
        /\ at' = [r \in Runs |-> IF r \in moved /\ Regated(r) THEN "returning" ELSE at[r]]
        /\ outcome' = [r \in Runs |-> IF r \in moved /\ Regated(r) THEN Ended("regate")
                                      ELSE outcome[r]]
  /\ UNCHANGED <<life, step, stopped, decidedIn, askedIn, trusted, unattended, limitsOff, asked, answers>>

\* The owner flips the limits: off answers a check-in they raised, as Keep
\* going would.
SwitchLimits ==
  /\ switches < MaxSwitches
  /\ switches' = switches + 1
  /\ limitsOff' = ~limitsOff
  /\ IF at[Parent] = "parked" /\ ~limitsOff
     THEN /\ Settle(Parent, [Ended("continue") EXCEPT !.by = Starter, !.about = <<Parent, step[Parent]>>])
          /\ unattended' = [unattended EXCEPT ![Parent] = 0]
     ELSE UNCHANGED <<at, outcome, unattended>>
  /\ UNCHANGED <<life, step, mode, stopped, decidedIn, askedIn, trusted,
                 asked, answers>>

\* Every run has ended.
Rest ==
  /\ life[Parent] = "ended"
  /\ UNCHANGED vars

RunStep(r) == Checked(r) \/ Return(r) \/ (stopped[r] /\ End(r))

Next ==
  \/ \E r \in Runs : NextCall(r) \/ CheckIn(r) \/ Timeout(r) \/ End(r) \/ Stop(r)
                     \/ Checked(r) \/ Return(r)
  \/ Delegate \/ RegisterChild \/ Delegated
  \/ Send \/ \E i \in DOMAIN answers : Arrive(i) \/ Land(i)
  \/ SwitchMode \/ SwitchLimits \/ Rest

Spec == Init /\ [][Next]_vars

\* A check and a database answer, a slot frees up, an aborted request returns.
\* A deadline may be hours away and a person never comes: neither is assumed.
FairSpec ==
  /\ Spec
  /\ \A r \in Runs : WF_vars(RunStep(r))
  /\ WF_vars(RegisterChild) /\ WF_vars(Delegated)

-----------------------------------------------------------------------------
(* Properties.                                                             *)

Kinds == {"approval", "checkin"}
Questions == Runs \X (0..MaxSteps)
Somebody == People \cup {Starter}

OutcomeType == [kind : Outcomes, by : Somebody \cup {"nobody"}, about : Questions,
                always : BOOLEAN, named : BOOLEAN]

AnswerType == [at : {"wire", "authz", "done"}, run : Runs, kind : Kinds, about : Questions,
               by : Somebody, yes : BOOLEAN, always : BOOLEAN, named : BOOLEAN]

\* Types, and who can be where: only live runs wait, a sub-agent is never
\* parked at a check-in, and no check-in is up while its limit is off.
TypeOK ==
  /\ life \in [Runs -> {"absent", "starting", "live", "ended"}]
  /\ at \in [Runs -> Places]
  /\ \A r \in Runs : at[r] # "thinking" => life[r] = "live"
  /\ at[Child] \notin {"parked", "delegating"}
  /\ at[Parent] = "parked" => ~limitsOff
  /\ step \in [Runs -> 0..MaxSteps]
  /\ mode \in [Runs -> Modes] /\ decidedIn \in [Runs -> Modes] /\ askedIn \in [Runs -> Modes]
  /\ stopped \in [Runs -> BOOLEAN] /\ trusted \in [Runs -> BOOLEAN]
  /\ outcome \in [Runs -> OutcomeType]
  /\ unattended \in [Runs -> Nat]
  /\ limitsOff \in BOOLEAN
  /\ asked \subseteq Runs \X (0..MaxSteps) \X Kinds
  /\ switches \in 0..MaxSwitches
  /\ answers \in Seq(AnswerType)
  /\ Len(answers) <= MaxAnswers

\* An answer that names its run decides a call of that run, under the id of the
\* call it was given about: never one of the sub-agent's, which may wait under
\* the same id, however long the answer was on its way ("answering that other
\* one is the mistake being prevented", answerApproval).
AnswersStayInTheirRun ==
  \A r \in Runs :
    at[r] = "returning" /\ outcome[r].kind \in {"approved", "denied"} /\ outcome[r].named
      => /\ outcome[r].about[1] = r
         /\ Id(outcome[r].about[2]) = Id(step[r])

\* An answer that names its run decides the call it was given about, and no
\* other: late, twice or from a second device it is a no-op ("unknown, foreign
\* or already-resolved", answerApproval).
AnswersFindTheirCall ==
  \A r \in Runs :
    at[r] = "returning" /\ outcome[r].kind \in {"approved", "denied"} /\ outcome[r].named
      => outcome[r].about = <<r, step[r]>>

\* A question that waits went out in the mode its run is in: a switch landing
\* anywhere has it decided again (askedIn, waitForApproval).
QuestionInForce == \A r \in Runs : at[r] = "asking" => askedIn[r] = mode[r]

\* A question that waits was decided in the mode its run is in ("any approval
\* still waiting, is decided in this mode", stream-protocol.ts on run.mode).
QuestionDecidedInForce == \A r \in Runs : at[r] = "asking" => decidedIn[r] = mode[r]

\* A sub-agent works in its parent's mode at every moment, a switch while its
\* rows were being written included (runSubagent's re-read).
ChildSharesMode == life[Child] = "live" => mode[Child] = mode[Parent]

\* A sub-agent never runs without its parent waiting for it, stopped or not.
NoOrphan == life[Child] \in {"starting", "live"} => at[Parent] = "delegating"

\* A run carries on by itself AutoContinues times in a row and no more, however
\* answers, switches and deadlines race (unattendedDecision).
UnattendedBounded ==
  \A r \in Runs : outcome[r].kind = "continue" /\ outcome[r].by = "nobody"
                    => unattended[r] <= AutoContinues

\* Stop ends a run that waits on a person, with nobody answering and no
\* deadline passing, and its sub-agent with it (#113).
StopEndsTheRun == \A r \in Runs : stopped[r] ~> life[r] = "ended"
=============================================================================
