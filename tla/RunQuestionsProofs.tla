------------------------- MODULE RunQuestionsProofs -------------------------
(***************************************************************************)
(* Theorems about RunQuestions, for any people, any number of calls,       *)
(* answers and switches, and any setting of the ladder.                    *)
(***************************************************************************)
EXTENDS RunQuestions, TLAPS

USE DEF Runs, Parent, Child

-----------------------------------------------------------------------------
(* Types.                                                                  *)

\* The bounds are numbers.
LEMMA BoundsAreNat ==
  /\ MaxSteps \in Nat /\ MaxChildSteps \in Nat /\ MaxAnswers \in Nat
  /\ MaxSwitches \in Nat /\ AutoContinues \in Nat
  /\ MaxChildSteps <= MaxSteps
BY QuestionsAssumption DEF QuestionsAssumption

\* An outcome nobody gave is an outcome.
LEMMA EndedType ==
  ASSUME NEW kind \in Outcomes
  PROVE  /\ Ended(kind) \in OutcomeType
         /\ Ended(kind).kind = kind
         /\ Ended(kind).by = "nobody"
<1>1. Nothing \in Questions
  BY BoundsAreNat DEF Nothing, Questions
<1> QED BY <1>1 DEF Ended, OutcomeType

\* An answer that is done is an answer.
LEMMA DoneType == Done \in AnswerType /\ Done.at = "done"
<1>1. Nothing \in Questions
  BY BoundsAreNat DEF Nothing, Questions
<1> QED BY <1>1 DEF Done, AnswerType, Kinds, Somebody

\* The first state is typed.
LEMMA InitType == Init => TypeOK
<1> SUFFICES ASSUME Init PROVE TypeOK
  OBVIOUS
<1>1. PICK m \in Modes : mode = [r \in Runs |-> m]
  BY DEF Init
<1>2. Ended("none") \in OutcomeType
  BY EndedType DEF Outcomes
<1>3. answers \in Seq(AnswerType) /\ Len(answers) <= MaxAnswers
  BY BoundsAreNat DEF Init
<1>4. /\ mode \in [Runs -> Modes]
      /\ decidedIn \in [Runs -> Modes]
      /\ askedIn \in [Runs -> Modes]
  BY <1>1 DEF Init
<1>5. /\ life \in [Runs -> {"absent", "starting", "live", "ended"}]
      /\ at \in [Runs -> Places]
      /\ \A r \in Runs : at[r] # "thinking" => life[r] = "live"
      /\ at[Child] \notin {"parked", "delegating"}
      /\ at[Parent] = "parked" => ~limitsOff
  BY DEF Init, Places
<1>6. /\ step \in [Runs -> 0..MaxSteps]
      /\ unattended \in [Runs -> Nat]
      /\ switches \in 0..MaxSwitches
  BY BoundsAreNat DEF Init
<1>7. /\ outcome \in [Runs -> OutcomeType]
      /\ asked \subseteq Runs \X (0..MaxSteps) \X Kinds
  BY <1>2 DEF Init
<1>8. /\ stopped \in [Runs -> BOOLEAN]
      /\ trusted \in [Runs -> BOOLEAN]
      /\ limitsOff \in BOOLEAN
  BY DEF Init
<1> QED BY <1>3, <1>4, <1>5, <1>6, <1>7, <1>8 DEF TypeOK

Lives == {"absent", "starting", "live", "ended"}

\* Where the runs are, and what they last heard.
Whereabouts ==
  /\ life \in [Runs -> Lives]
  /\ at \in [Runs -> Places]
  /\ \A r \in Runs : at[r] # "thinking" => life[r] = "live"
  /\ at[Child] \notin {"parked", "delegating"}
  /\ outcome \in [Runs -> OutcomeType]

\* A run that settles a wait, or moves on, is somewhere.
LEMMA SettleType ==
  ASSUME Whereabouts, NEW r \in Runs, life' = life, life[r] = "live",
         NEW how \in OutcomeType, Settle(r, how)
  PROVE  Whereabouts' /\ at'[r] = "returning" /\ \A s \in Runs \ {r} : at'[s] = at[s]
<1>1. "returning" \in Places
  BY DEF Places
<1> QED BY <1>1 DEF Whereabouts, Settle

\* The same for a run that moves on with no wait to hear from.
LEMMA ProceedType ==
  ASSUME Whereabouts, NEW r \in Runs, life' \in [Runs -> Lives],
         \A s \in Runs \ {r} : life'[s] = life[s],
         NEW place \in Places, Proceed(r, place),
         place # "thinking" => life'[r] = "live",
         r = Child => place \notin {"parked", "delegating"}
  PROVE  Whereabouts' /\ at'[r] = place /\ \A s \in Runs \ {r} : at'[s] = at[s]
<1>1. Ended("none") \in OutcomeType
  BY EndedType DEF Outcomes
<1> QED BY <1>1 DEF Whereabouts, Proceed

\* A question put leaves its run waiting, or already refused.
LEMMA AskType ==
  ASSUME TypeOK, NEW r \in Runs, life' = life, life[r] = "live", NEW n \in 0..MaxSteps, Ask(r, n)
  PROVE  /\ Whereabouts'
         /\ at'[r] \in {"returning", "asking"}
         /\ \A s \in Runs \ {r} : at'[s] = at[s]
         /\ askedIn' \in [Runs -> Modes]
         /\ asked' \subseteq Runs \X (0..MaxSteps) \X Kinds
<1>1. Whereabouts
  BY DEF TypeOK, Whereabouts, Lives
<1>2. askedIn' \in [Runs -> Modes]
  BY DEF Ask, TypeOK
<1>3. asked' \subseteq Runs \X (0..MaxSteps) \X Kinds
  BY DEF Ask, TypeOK, Kinds
<1>4. CASE stopped[r]
  <2>1. Settle(r, Ended("aborted")) /\ Ended("aborted") \in OutcomeType
    BY <1>4, EndedType DEF Ask, Outcomes
  <2> QED BY <1>1, <1>2, <1>3, <2>1, SettleType
<1>5. CASE ~stopped[r]
  <2>1. Proceed(r, "asking") /\ "asking" \in Places
    BY <1>5 DEF Ask, Places
  <2> QED BY <1>1, <1>2, <1>3, <2>1, ProceedType DEF Whereabouts
<1> QED BY <1>4, <1>5

\* A call that needs no question leaves its run where it works.
LEMMA UnaskedType ==
  ASSUME TypeOK, NEW r \in Runs, life' \in [Runs -> Lives],
         \A s \in Runs \ {r} : life'[s] = life[s], Unasked(r)
  PROVE  /\ Whereabouts'
         /\ at'[r] = "thinking"
         /\ \A s \in Runs \ {r} : at'[s] = at[s]
         /\ askedIn' = askedIn /\ asked' = asked
<1>1. Whereabouts /\ Proceed(r, "thinking") /\ "thinking" \in Places
  BY DEF TypeOK, Whereabouts, Lives, Unasked, Places
<1> QED BY <1>1, ProceedType DEF Unasked

\* The gate sends a run to one of four places.
LEMMA GateType ==
  ASSUME TypeOK, NEW r \in Runs, life' = life, life[r] = "live",
         NEW n \in 0..MaxSteps, NEW allowed \in BOOLEAN, Gate(r, n, allowed)
  PROVE  /\ Whereabouts'
         /\ at'[r] \in {"thinking", "checking", "returning", "asking"}
         /\ \A s \in Runs \ {r} : at'[s] = at[s]
         /\ askedIn' \in [Runs -> Modes]
         /\ decidedIn' \in [Runs -> Modes]
         /\ asked' \subseteq Runs \X (0..MaxSteps) \X Kinds
<1>1. decidedIn' \in [Runs -> Modes]
  BY DEF Gate, TypeOK
<1>2. CASE Unasked(r)
  BY <1>1, <1>2, UnaskedType DEF TypeOK, Lives
<1>3. CASE Ask(r, n)
  BY <1>1, <1>3, AskType
<1>4. CASE Proceed(r, "checking") /\ UNCHANGED <<askedIn, asked>>
  <2>1. Whereabouts /\ "checking" \in Places
    BY DEF TypeOK, Whereabouts, Lives, Places
  <2> QED BY <1>1, <1>4, <2>1, ProceedType DEF TypeOK, Lives
<1> QED BY <1>2, <1>3, <1>4 DEF Gate

\* The step of a run stays within what the bounds give it.
LEMMA StepsBound == \A r \in Runs : StepsOf(r) \in Nat /\ StepsOf(r) <= MaxSteps
BY BoundsAreNat DEF StepsOf

\* NextCall keeps the types.
LEMMA NextCallType == ASSUME TypeOK, NEW r \in Runs, NextCall(r) PROVE TypeOK'
<1>1. step[r] + 1 \in 0..MaxSteps /\ step' \in [Runs -> 0..MaxSteps]
  BY StepsBound, BoundsAreNat DEF NextCall, TypeOK
<1>2. PICK harmless \in BOOLEAN : Gate(r, step[r] + 1, trusted[r] \/ harmless)
  BY DEF NextCall
<1>3. /\ Whereabouts'
      /\ at'[r] \in {"thinking", "checking", "returning", "asking"}
      /\ \A s \in Runs \ {r} : at'[s] = at[s]
      /\ askedIn' \in [Runs -> Modes]
      /\ decidedIn' \in [Runs -> Modes]
      /\ asked' \subseteq Runs \X (0..MaxSteps) \X Kinds
  BY <1>1, <1>2, GateType DEF NextCall, TypeOK
<1> QED BY <1>1, <1>3 DEF NextCall, TypeOK, Whereabouts, Lives

\* Checked keeps the types.
LEMMA CheckedType == ASSUME TypeOK, NEW r \in Runs, Checked(r) PROVE TypeOK'
<1>1. life[r] = "live" /\ life' = life /\ step[r] \in 0..MaxSteps /\ life \in [Runs -> Lives]
  BY DEF Checked, TypeOK, Lives
<1>2. /\ Whereabouts'
      /\ at'[r] \in {"thinking", "returning", "asking"}
      /\ \A s \in Runs \ {r} : at'[s] = at[s]
      /\ askedIn' \in [Runs -> Modes]
      /\ asked' \subseteq Runs \X (0..MaxSteps) \X Kinds
  <2>1. CASE Unasked(r)
    BY <1>1, <2>1, UnaskedType DEF TypeOK
  <2>2. CASE Ask(r, step[r])
    BY <1>1, <2>2, AskType
  <2> QED BY <2>1, <2>2 DEF Checked
<1> QED BY <1>1, <1>2 DEF Checked, TypeOK, Whereabouts, Lives

\* Return keeps the types.
LEMMA ReturnType == ASSUME TypeOK, NEW r \in Runs, Return(r) PROVE TypeOK'
<1> DEFINE over == stopped[r] \/ outcome[r].kind = "answer"
           again == ~over /\ outcome[r].kind = "regate"
           granted == ~over /\ GrantedBy(outcome[r])
<1>1. life[r] = "live" /\ step[r] \in 0..MaxSteps /\ life \in [Runs -> Lives]
  BY DEF Return, TypeOK, Lives
<1>2. /\ life' \in [Runs -> Lives]
      /\ \A s \in Runs \ {r} : life'[s] = life[s]
      /\ ~over => life' = life
  BY <1>1 DEF Return, Lives
<1>3. /\ Whereabouts'
      /\ at'[r] \in {"thinking", "checking", "returning", "asking"}
      /\ \A s \in Runs \ {r} : at'[s] = at[s]
      /\ askedIn' \in [Runs -> Modes]
      /\ decidedIn' \in [Runs -> Modes]
      /\ asked' \subseteq Runs \X (0..MaxSteps) \X Kinds
  <2>1. CASE again
    <3>1. Gate(r, step[r], trusted[r]) /\ trusted[r] \in BOOLEAN
      BY <2>1 DEF Return, TypeOK
    <3> QED BY <1>1, <1>2, <2>1, <3>1, GateType
  <2>2. CASE ~again
    <3>1. Unasked(r) /\ UNCHANGED decidedIn
      BY <2>2 DEF Return
    <3> QED BY <1>1, <1>2, <3>1, UnaskedType DEF TypeOK
  <2> QED BY <2>1, <2>2
<1>4. trusted' \in [Runs -> BOOLEAN]
  BY DEF Return, TypeOK
<1> QED BY <1>1, <1>3, <1>4 DEF Return, TypeOK, Whereabouts, Lives

\* CheckIn keeps the types: only the thread's run is parked.
LEMMA CheckInType == ASSUME TypeOK, NEW r \in Runs, CheckIn(r) PROVE TypeOK'
<1>1. <<r, step[r], "checkin">> \in Runs \X (0..MaxSteps) \X Kinds
  BY DEF TypeOK, Kinds
<1>2. "parked" \in Places
  BY DEF Places
<1> QED BY <1>1, <1>2 DEF CheckIn, TypeOK, AsksNobody

\* Timeout keeps the types.
LEMMA TimeoutType == ASSUME TypeOK, NEW r \in Runs, Timeout(r) PROVE TypeOK'
<1>1. life[r] = "live" /\ life' = life /\ Whereabouts
  BY DEF Timeout, TypeOK, Whereabouts, Lives
<1>2. PICK kind \in {"timeout", "continue", "answer"} : Settle(r, Ended(kind))
  BY DEF Timeout
<1>3. Ended(kind) \in OutcomeType
  BY EndedType DEF Outcomes
<1>4. Whereabouts' /\ at'[r] = "returning" /\ \A s \in Runs \ {r} : at'[s] = at[s]
  BY <1>1, <1>2, <1>3, SettleType
<1>5. unattended' \in [Runs -> Nat]
  BY DEF Timeout, TypeOK
<1> QED BY <1>1, <1>4, <1>5 DEF Timeout, TypeOK, Whereabouts, Lives

\* End keeps the types.
LEMMA EndType == ASSUME TypeOK, NEW r \in Runs, End(r) PROVE TypeOK'
BY DEF End, TypeOK

\* Delegate keeps the types.
LEMMA DelegateType == ASSUME TypeOK, Delegate PROVE TypeOK'
BY DEF Delegate, TypeOK, Places

\* RegisterChild keeps the types.
LEMMA RegisterChildType == ASSUME TypeOK, RegisterChild PROVE TypeOK'
BY DEF RegisterChild, TypeOK, InheritedMode

\* Delegated keeps the types.
LEMMA DelegatedType == ASSUME TypeOK, Delegated PROVE TypeOK'
<1>1. life[Parent] = "live" /\ life' = life /\ Whereabouts
  BY DEF Delegated, TypeOK, Whereabouts, Lives
<1>2. Ended("none") \in OutcomeType /\ Settle(Parent, Ended("none"))
  BY EndedType DEF Outcomes, Delegated
<1>3. Whereabouts' /\ at'[Parent] = "returning" /\ \A s \in Runs \ {Parent} : at'[s] = at[s]
  BY <1>1, <1>2, SettleType
<1> QED BY <1>1, <1>3 DEF Delegated, TypeOK, Whereabouts, Lives

\* An answer in hand keeps its type when it is handed on.
LEMMA AnswersType ==
  ASSUME TypeOK, NEW i \in DOMAIN answers, NEW a \in AnswerType
  PROVE  /\ [answers EXCEPT ![i] = a] \in Seq(AnswerType)
         /\ Len([answers EXCEPT ![i] = a]) = Len(answers)
         /\ answers[i] \in AnswerType
BY DEF TypeOK

\* Send keeps the types and the bound on answers.
LEMMA SendType == ASSUME TypeOK, Send PROVE TypeOK'
<1>1. PICK q \in asked, u \in People, yes \in BOOLEAN, always \in BOOLEAN, named \in BOOLEAN :
        answers' = Append(answers, [at |-> "wire", run |-> q[1], kind |-> q[3], about |-> <<q[1], q[2]>>,
                                    by |-> u, yes |-> yes, always |-> always, named |-> named])
  BY DEF Send
<1>2. q[1] \in Runs /\ q[2] \in 0..MaxSteps /\ q[3] \in Kinds
  BY DEF TypeOK
<1>3. [at |-> "wire", run |-> q[1], kind |-> q[3], about |-> <<q[1], q[2]>>,
       by |-> u, yes |-> yes, always |-> always, named |-> named] \in AnswerType
  BY <1>2 DEF AnswerType, Questions, Somebody
<1>4. answers' \in Seq(AnswerType) /\ Len(answers') = Len(answers) + 1
  BY <1>1, <1>3 DEF TypeOK
<1>5. Len(answers) < MaxAnswers /\ Len(answers) \in Nat
  BY DEF Send, TypeOK
<1>6. Len(answers') <= MaxAnswers
  BY <1>4, <1>5, BoundsAreNat
<1> QED BY <1>4, <1>6 DEF Send, runVars, TypeOK

\* An answer is for a run that exists, and a named one for the run it names.
LEMMA TargetsType ==
  ASSUME NEW a \in AnswerType
  PROVE  Targets(a) \subseteq Runs /\ (a.kind = "checkin" \/ a.named => Targets(a) \subseteq {a.run})
BY DEF Targets, Candidates, Holding, AnswerType

\* Arrive keeps the types.
LEMMA ArriveType == ASSUME TypeOK, NEW i \in DOMAIN answers, Arrive(i) PROVE TypeOK'
<1> DEFINE found == Targets(answers[i])
           r0 == CHOOSE r \in found : TRUE
           handed == IF found = {} THEN Done ELSE [answers[i] EXCEPT !.at = "authz", !.run = r0]
<1>1. answers' = [answers EXCEPT ![i] = handed]
  BY DEF Arrive
<1>2. found # {} => r0 \in Runs
  BY TargetsType, AnswersType, DoneType
<1>3. handed \in AnswerType
  BY <1>2, DoneType, AnswersType DEF AnswerType
<1>4. answers' \in Seq(AnswerType) /\ Len(answers') = Len(answers)
  BY <1>1, <1>3, AnswersType
<1> QED BY <1>4 DEF Arrive, runVars, TypeOK

\* What an answer decides is an outcome.
LEMMA DecidedType == ASSUME NEW a \in AnswerType PROVE Decided(a) \in OutcomeType
BY DEF Decided, AnswerType, OutcomeType, Outcomes

\* Land keeps the types.
LEMMA LandType == ASSUME TypeOK, NEW i \in DOMAIN answers, Land(i) PROVE TypeOK'
<1> DEFINE a == answers[i]
<1>1. a \in AnswerType /\ a.run \in Runs
  BY AnswersType, DoneType DEF AnswerType
<1>2. answers' \in Seq(AnswerType) /\ Len(answers') = Len(answers)
  BY AnswersType, DoneType DEF Land
<1>3. /\ Whereabouts'
      /\ at'[Parent] = "parked" => at[Parent] = "parked"
      /\ unattended' \in [Runs -> Nat]
  <2>1. CASE UNCHANGED <<at, outcome, unattended>>
    BY <2>1 DEF TypeOK, Whereabouts, Lives, Land
  <2>2. CASE Settle(a.run, Decided(a)) /\ at[a.run] \in {"asking", "parked"}
             /\ unattended' = IF a.kind = "checkin" THEN [unattended EXCEPT ![a.run] = 0]
                              ELSE unattended
    <3>1. Whereabouts /\ life[a.run] = "live" /\ life' = life
      BY <1>1, <2>2 DEF TypeOK, Whereabouts, Lives, Land
    <3>2. Whereabouts' /\ at'[a.run] = "returning" /\ \A s \in Runs \ {a.run} : at'[s] = at[s]
      BY <1>1, <2>2, <3>1, DecidedType, SettleType
    <3> QED BY <1>1, <2>2, <3>2 DEF TypeOK
  <2> QED BY <2>1, <2>2 DEF Land, Holding
<1> QED BY <1>2, <1>3 DEF Land, TypeOK, Whereabouts, Lives

\* Stop keeps the types.
LEMMA StopType == ASSUME TypeOK, NEW r \in Runs, Stop(r) PROVE TypeOK'
<1>1. Ended("aborted") \in OutcomeType /\ "returning" \in Places
  BY EndedType DEF Outcomes, Places
<1> QED BY <1>1 DEF Stop, TypeOK, HearsAbort

\* SwitchMode keeps the types.
LEMMA SwitchModeType == ASSUME TypeOK, SwitchMode PROVE TypeOK'
<1>1. Ended("regate") \in OutcomeType /\ "returning" \in Places
  BY EndedType DEF Outcomes, Places
<1>2. (CHOOSE m \in Modes : m # mode[Parent]) \in Modes
  BY DEF Modes
<1>3. switches' \in 0..MaxSwitches
  BY BoundsAreNat DEF SwitchMode, TypeOK
<1> QED BY <1>1, <1>2, <1>3 DEF SwitchMode, TypeOK, Regated

\* SwitchLimits keeps the types: no check-in stays up with the limits off.
LEMMA SwitchLimitsType == ASSUME TypeOK, SwitchLimits PROVE TypeOK'
<1>1. switches' \in 0..MaxSwitches
  BY BoundsAreNat DEF SwitchLimits, TypeOK
<1>2. CASE at[Parent] = "parked" /\ ~limitsOff
  <2> DEFINE how == [Ended("continue") EXCEPT !.by = Starter, !.about = <<Parent, step[Parent]>>]
  <2>1. <<Parent, step[Parent]>> \in Questions
    BY DEF TypeOK, Questions
  <2>2. how \in OutcomeType
    BY <2>1, EndedType DEF Outcomes, OutcomeType, Somebody
  <2>3. Whereabouts /\ life[Parent] = "live" /\ life' = life /\ Settle(Parent, how)
    BY <1>2 DEF TypeOK, Whereabouts, Lives, SwitchLimits
  <2>4. Whereabouts' /\ at'[Parent] = "returning"
    BY <2>2, <2>3, SettleType
  <2> QED BY <1>1, <1>2, <2>4 DEF SwitchLimits, TypeOK, Whereabouts, Lives
<1>3. CASE ~(at[Parent] = "parked" /\ ~limitsOff)
  BY <1>1, <1>3 DEF SwitchLimits, TypeOK
<1> QED BY <1>2, <1>3

\* Every step keeps the types.
LEMMA NextType == TypeOK /\ [Next]_vars => TypeOK'
<1> SUFFICES ASSUME TypeOK, [Next]_vars PROVE TypeOK'
  OBVIOUS
<1>1. ASSUME NEW r \in Runs,
             NextCall(r) \/ CheckIn(r) \/ Timeout(r) \/ End(r) \/ Stop(r) \/ Checked(r) \/ Return(r)
      PROVE  TypeOK'
  BY <1>1, NextCallType, CheckInType, TimeoutType, EndType, StopType, CheckedType, ReturnType
<1>2. CASE Delegate \/ RegisterChild \/ Delegated \/ Send \/ SwitchMode \/ SwitchLimits
  BY <1>2, DelegateType, RegisterChildType, DelegatedType, SendType, SwitchModeType, SwitchLimitsType
<1>3. ASSUME NEW i \in DOMAIN answers, Arrive(i) \/ Land(i)
      PROVE  TypeOK'
  BY <1>3, ArriveType, LandType
<1>4. CASE Rest \/ UNCHANGED vars
  BY <1>4 DEF Rest, vars, TypeOK
<1> QED BY <1>1, <1>2, <1>3, <1>4 DEF Next

\* Types, and who can wait where.
THEOREM TypeCorrect == Spec => []TypeOK
BY InitType, NextType, PTL DEF Spec

-----------------------------------------------------------------------------
(* A sub-agent and its parent: NoOrphan and ChildSharesMode.               *)

\* Only the last child's end lets the parent go.
LEMMA NoOrphanStep == TypeOK /\ NoOrphan /\ [Next]_vars => NoOrphan'
<1> SUFFICES ASSUME TypeOK, NoOrphan, [Next]_vars PROVE NoOrphan'
  OBVIOUS
<1> USE DEF NoOrphan
<1>1. ASSUME NEW r \in Runs, NextCall(r) \/ Checked(r) \/ Return(r) PROVE NoOrphan'
  <2>1. /\ life[r] = "live" /\ at[r] \in {"thinking", "checking", "returning"}
        /\ \A s \in Runs \ {r} : at'[s] = at[s]
        /\ \A s \in Runs \ {r} : life'[s] = life[s]
    BY <1>1 DEF NextCall, Checked, Return, Gate, Ask, Unasked, Settle, Proceed, TypeOK
  <2>2. CASE r = Parent
    BY <2>1, <2>2 DEF TypeOK
  <2>3. CASE r = Child
    BY <2>1, <2>3 DEF TypeOK
  <2> QED BY <2>2, <2>3
<1>2. ASSUME NEW r \in Runs, CheckIn(r) PROVE NoOrphan'
  BY <1>2 DEF CheckIn, AsksNobody, TypeOK
<1>3. ASSUME NEW r \in Runs, Timeout(r) PROVE NoOrphan'
  BY <1>3 DEF Timeout, Settle, TypeOK
<1>4. ASSUME NEW r \in Runs, End(r) PROVE NoOrphan'
  BY <1>4 DEF End, TypeOK
<1>5. ASSUME NEW r \in Runs, Stop(r) PROVE NoOrphan'
  BY <1>5 DEF Stop, HearsAbort, TypeOK
<1>6. CASE Delegate
  BY <1>6 DEF Delegate, TypeOK
<1>7. CASE RegisterChild
  BY <1>7 DEF RegisterChild, TypeOK
<1>8. CASE Delegated
  BY <1>8 DEF Delegated, AllSettled, Settle, TypeOK
<1>9. CASE Send
  BY <1>9 DEF Send, runVars
<1>10. ASSUME NEW i \in DOMAIN answers, Arrive(i) PROVE NoOrphan'
  BY <1>10 DEF Arrive, runVars
<1>11. ASSUME NEW i \in DOMAIN answers, Land(i) PROVE NoOrphan'
  BY <1>11 DEF Land, Settle, Holding, TypeOK
<1>12. CASE SwitchMode
  BY <1>12 DEF SwitchMode, Regated, TypeOK
<1>13. CASE SwitchLimits
  BY <1>13 DEF SwitchLimits, Settle, TypeOK
<1>14. CASE Rest \/ UNCHANGED vars
  BY <1>14 DEF Rest, vars
<1> QED BY <1>1, <1>2, <1>3, <1>4, <1>5, <1>6, <1>7, <1>8, <1>9, <1>10, <1>11, <1>12, <1>13, <1>14 DEF Next

\* No sub-agent outlives its parent's wait for it.
THEOREM NoChildIsOrphaned == Spec => []NoOrphan
<1>1. Init => NoOrphan
  BY DEF Init, NoOrphan
<1> QED BY <1>1, NoOrphanStep, TypeCorrect, PTL DEF Spec

\* A switch moves the child with its parent: a parent whose child lives is
\* live itself, because it waits for it.
LEMMA ChildSharesModeStep ==
  TypeOK /\ NoOrphan /\ ChildSharesMode /\ [Next]_vars => ChildSharesMode'
<1> SUFFICES ASSUME TypeOK, NoOrphan, ChildSharesMode, [Next]_vars PROVE ChildSharesMode'
  OBVIOUS
<1> USE DEF ChildSharesMode
<1>1. CASE UNCHANGED mode /\ (life'[Child] = "live" => life[Child] = "live")
  BY <1>1
<1>2. CASE Delegate
  BY <1>2 DEF Delegate, TypeOK
<1>3. CASE RegisterChild
  BY <1>3 DEF RegisterChild, InheritedMode, TypeOK
<1>4. CASE SwitchMode
  BY <1>4 DEF SwitchMode, NoOrphan, TypeOK
<1>5. ASSUME NEW r \in Runs, NextCall(r) \/ Checked(r) \/ Timeout(r) \/ Stop(r)
      PROVE  UNCHANGED <<mode, life>>
  BY <1>5 DEF NextCall, Checked, Timeout, Stop
<1>6. ASSUME NEW r \in Runs, Return(r) \/ CheckIn(r) \/ End(r)
      PROVE  UNCHANGED mode /\ (life'[Child] = "live" => life[Child] = "live")
  BY <1>6 DEF Return, CheckIn, End, TypeOK
<1>7. CASE Delegated \/ Send \/ SwitchLimits
  BY <1>7 DEF Delegated, Send, SwitchLimits, runVars
<1>8. ASSUME NEW i \in DOMAIN answers, Arrive(i) \/ Land(i)
      PROVE  UNCHANGED <<mode, life>>
  BY <1>8 DEF Arrive, Land, runVars
<1>9. CASE Rest \/ UNCHANGED vars
  BY <1>9 DEF Rest, vars
<1> QED BY <1>1, <1>2, <1>3, <1>4, <1>5, <1>6, <1>7, <1>8, <1>9 DEF Next

\* A sub-agent is in its parent's mode.
THEOREM ChildIsInItsParentsMode == Spec => []ChildSharesMode
<1>1. Init => ChildSharesMode
  BY DEF Init, ChildSharesMode
<1> QED BY <1>1, ChildSharesModeStep, NoChildIsOrphaned, TypeCorrect, PTL DEF Spec

-----------------------------------------------------------------------------
(* What each place of a run has to do with its modes and its outcome.      *)

\* A run that waits on no one moves only where the gate sends it, and its
\* question then carries the mode of that very moment.
LEMMA GateAsks ==
  ASSUME TypeOK, NEW r \in Runs, NEW n, NEW allowed,
         Gate(r, n, allowed) \/ Ask(r, n) \/ Unasked(r)
  PROVE  /\ \A s \in Runs \ {r} : at'[s] = at[s] /\ outcome'[s] = outcome[s] /\ askedIn'[s] = askedIn[s]
         /\ at'[r] = "asking" => askedIn'[r] = mode[r]
         /\ outcome'[r].kind \in {"none", "aborted"}
<1>1. Ended("none").kind = "none" /\ Ended("aborted").kind = "aborted"
  BY DEF Ended
<1> QED BY <1>1 DEF Gate, Ask, Unasked, Settle, Proceed, TypeOK

\* A question keeps up with its run's mode: a switch wakes every wait of the run.
LEMMA QuestionInForceStep == TypeOK /\ QuestionInForce /\ [Next]_vars => QuestionInForce'
<1> SUFFICES ASSUME TypeOK, QuestionInForce, [Next]_vars PROVE QuestionInForce'
  OBVIOUS
<1> USE DEF QuestionInForce
<1>1. ASSUME NEW r \in Runs, NextCall(r) \/ Checked(r) \/ Return(r) PROVE QuestionInForce'
  <2>1. UNCHANGED mode
    BY <1>1 DEF NextCall, Checked, Return
  <2>2. \E n, allowed : Gate(r, n, allowed) \/ Ask(r, n) \/ Unasked(r)
    BY <1>1 DEF NextCall, Checked, Return
  <2> QED BY <2>1, <2>2, GateAsks
<1>2. ASSUME NEW r \in Runs, CheckIn(r) \/ End(r) PROVE QuestionInForce'
  BY <1>2 DEF CheckIn, End, TypeOK
<1>3. ASSUME NEW r \in Runs, Timeout(r) \/ Stop(r) PROVE QuestionInForce'
  BY <1>3 DEF Timeout, Stop, Settle, TypeOK
<1>4. CASE Delegate \/ Delegated
  BY <1>4 DEF Delegate, Delegated, Settle, TypeOK
<1>5. CASE RegisterChild
  BY <1>5 DEF RegisterChild, TypeOK
<1>6. CASE Send
  BY <1>6 DEF Send, runVars
<1>7. ASSUME NEW i \in DOMAIN answers, Arrive(i) \/ Land(i) PROVE QuestionInForce'
  BY <1>7 DEF Arrive, Land, Settle, Holding, runVars, TypeOK
<1>8. CASE SwitchMode
  BY <1>8 DEF SwitchMode, Regated, TypeOK
<1>9. CASE SwitchLimits
  BY <1>9 DEF SwitchLimits, Settle, TypeOK
<1>10. CASE Rest \/ UNCHANGED vars
  BY <1>10 DEF Rest, vars
<1> QED BY <1>1, <1>2, <1>3, <1>4, <1>5, <1>6, <1>7, <1>8, <1>9, <1>10 DEF Next

\* A waiting question was put in the mode its run is in.
THEOREM QuestionsAreInForce == Spec => []QuestionInForce
<1>1. Init => QuestionInForce
  BY DEF Init, QuestionInForce
<1> QED BY <1>1, QuestionInForceStep, TypeCorrect, PTL DEF Spec

\* The streak a check-in carries on with is the one the ladder allowed.
LEMMA UnattendedStep == TypeOK /\ UnattendedBounded /\ [Next]_vars => UnattendedBounded'
<1> SUFFICES ASSUME TypeOK, UnattendedBounded, [Next]_vars PROVE UnattendedBounded'
  OBVIOUS
<1> USE DEF UnattendedBounded
<1>1. ASSUME NEW r \in Runs, NextCall(r) \/ Checked(r) \/ Return(r) PROVE UnattendedBounded'
  <2>1. UNCHANGED unattended
    BY <1>1 DEF NextCall, Checked, Return
  <2>2. \E n, allowed : Gate(r, n, allowed) \/ Ask(r, n) \/ Unasked(r)
    BY <1>1 DEF NextCall, Checked, Return
  <2> QED BY <2>1, <2>2, GateAsks
<1>2. ASSUME NEW r \in Runs, CheckIn(r) \/ End(r) PROVE UnattendedBounded'
  BY <1>2 DEF CheckIn, End
<1>3. ASSUME NEW r \in Runs, Timeout(r) PROVE UnattendedBounded'
  <2>1. \A s \in Runs \ {r} : outcome'[s] = outcome[s] /\ unattended'[s] = unattended[s]
    BY <1>3 DEF Timeout, Settle, TypeOK
  <2>2. CASE at[r] = "asking" /\ Settle(r, Ended("timeout"))
    BY <2>1, <2>2 DEF Settle, Ended, TypeOK
  <2>3. CASE /\ at[r] = "parked"
             /\ Settle(r, Ended(IF CarriesOn(unattended[r]) THEN "continue" ELSE "answer"))
             /\ unattended' = [unattended EXCEPT ![r] = @ + 1]
    <3>1. CASE CarriesOn(unattended[r])
      <4>1. unattended[r] + 1 <= AutoContinues /\ unattended'[r] = unattended[r] + 1
        BY <2>3, <3>1, BoundsAreNat DEF CarriesOn, TypeOK
      <4> QED BY <2>1, <4>1
    <3>2. CASE ~CarriesOn(unattended[r])
      <4>1. outcome'[r].kind = "answer"
        BY <2>3, <3>2 DEF Settle, Ended, TypeOK
      <4> QED BY <2>1, <4>1
    <3> QED BY <3>1, <3>2
  <2> QED BY <1>3, <2>2, <2>3 DEF Timeout
<1>4. ASSUME NEW r \in Runs, Stop(r) PROVE UnattendedBounded'
  <2>1. UNCHANGED unattended /\ \A s \in Runs : outcome'[s] = outcome[s] \/ outcome'[s].kind = "aborted"
    BY <1>4 DEF Stop, Ended, TypeOK
  <2> QED BY <2>1
<1>5. CASE Delegate \/ RegisterChild
  BY <1>5 DEF Delegate, RegisterChild
<1>6. CASE Delegated
  BY <1>6 DEF Delegated, Settle, Ended, TypeOK
<1>7. CASE Send
  BY <1>7 DEF Send, runVars
<1>8. ASSUME NEW i \in DOMAIN answers, Arrive(i) PROVE UnattendedBounded'
  BY <1>8 DEF Arrive, runVars
<1>9. ASSUME NEW i \in DOMAIN answers, Land(i) PROVE UnattendedBounded'
  <2> DEFINE a == answers[i]
  <2>1. a \in AnswerType /\ a.run \in Runs /\ a.kind \in Kinds
    BY AnswersType, DoneType DEF AnswerType
  <2>2. CASE UNCHANGED <<at, outcome, unattended>>
    BY <2>2
  <2>3. CASE /\ Settle(a.run, Decided(a))
             /\ unattended' = IF a.kind = "checkin" THEN [unattended EXCEPT ![a.run] = 0] ELSE unattended
    <3>1. CASE a.kind = "checkin"
      <4>1. unattended'[a.run] = 0 /\ \A s \in Runs \ {a.run} :
              outcome'[s] = outcome[s] /\ unattended'[s] = unattended[s]
        BY <2>1, <2>3, <3>1 DEF Settle, TypeOK
      <4> QED BY <2>1, <4>1, BoundsAreNat
    <3>2. CASE a.kind = "approval"
      <4>1. outcome'[a.run].kind \in {"approved", "denied"} /\ UNCHANGED unattended
            /\ \A s \in Runs \ {a.run} : outcome'[s] = outcome[s]
        BY <2>1, <2>3, <3>2 DEF Settle, Decided, TypeOK
      <4> QED BY <2>1, <4>1
    <3> QED BY <2>1, <3>1, <3>2 DEF Kinds
  <2> QED BY <1>9, <2>2, <2>3 DEF Land
<1>10. CASE SwitchMode
  <2>1. UNCHANGED unattended /\ \A s \in Runs : outcome'[s] = outcome[s] \/ outcome'[s].kind = "regate"
    BY <1>10 DEF SwitchMode, Ended, TypeOK
  <2> QED BY <2>1
<1>11. CASE SwitchLimits
  <2>1. CASE UNCHANGED <<outcome, unattended>>
    BY <2>1
  <2>2. CASE unattended' = [unattended EXCEPT ![Parent] = 0] /\ \A s \in Runs \ {Parent} : outcome'[s] = outcome[s]
    BY <2>2, BoundsAreNat DEF TypeOK
  <2> QED BY <1>11, <2>1, <2>2 DEF SwitchLimits, Settle, TypeOK
<1>12. CASE Rest \/ UNCHANGED vars
  BY <1>12 DEF Rest, vars
<1> QED BY <1>1, <1>2, <1>3, <1>4, <1>5, <1>6, <1>7, <1>8, <1>9, <1>10, <1>11, <1>12 DEF Next

\* An abandoned run carries on AutoContinues times in a row at most.
THEOREM AbandonedRunsEnd == Spec => []UnattendedBounded
<1>1. Init => UnattendedBounded
  BY DEF Init, UnattendedBounded, Ended
<1> QED BY <1>1, UnattendedStep, TypeCorrect, PTL DEF Spec

-----------------------------------------------------------------------------
(* Answers and the calls they decide.                                      *)

\* A named answer stays with the run whose question it was given on.
NamedStaysPut ==
  \A i \in DOMAIN answers :
    answers[i].at # "done" /\ answers[i].named => answers[i].about[1] = answers[i].run

\* Only answerApproval's hand-over touches an answer's run, and it looks for the named one only.
LEMMA NamedStaysPutStep == TypeOK /\ NamedStaysPut /\ [Next]_vars => NamedStaysPut'
<1> SUFFICES ASSUME TypeOK, NamedStaysPut, [Next]_vars PROVE NamedStaysPut'
  OBVIOUS
<1> USE DEF NamedStaysPut
<1>1. CASE UNCHANGED answers
  BY <1>1
<1>2. CASE Send
  <2>1. PICK q \in asked, u \in People, yes \in BOOLEAN, always \in BOOLEAN, named \in BOOLEAN :
          answers' = Append(answers, [at |-> "wire", run |-> q[1], kind |-> q[3], about |-> <<q[1], q[2]>>,
                                      by |-> u, yes |-> yes, always |-> always, named |-> named])
    BY <1>2 DEF Send
  <2> QED BY <2>1 DEF TypeOK
<1>3. ASSUME NEW i \in DOMAIN answers, Arrive(i) PROVE NamedStaysPut'
  <2> DEFINE found == Targets(answers[i])
             r0 == CHOOSE r \in found : TRUE
  <2>1. CASE found = {}
    <3>1. answers' = [answers EXCEPT ![i] = Done]
      BY <1>3, <2>1 DEF Arrive
    <3> QED BY <3>1, DoneType
  <2>2. CASE found # {}
    <3>1. answers' = [answers EXCEPT ![i] = [answers[i] EXCEPT !.at = "authz", !.run = r0]]
      BY <1>3, <2>2 DEF Arrive
    <3>2. answers[i].at = "wire" /\ answers[i] \in AnswerType
      BY <1>3, AnswersType, DoneType DEF Arrive
    <3>3. answers[i].named => r0 = answers[i].run
      BY <2>2, <3>2, TargetsType
    <3>4. [answers[i] EXCEPT !.at = "authz", !.run = r0].about = answers[i].about
          /\ [answers[i] EXCEPT !.at = "authz", !.run = r0].named = answers[i].named
          /\ [answers[i] EXCEPT !.at = "authz", !.run = r0].run = r0
      BY <3>2 DEF AnswerType
    <3> HIDE DEF r0, found
    <3> QED BY <3>1, <3>2, <3>3, <3>4
  <2> QED BY <2>1, <2>2
<1>4. ASSUME NEW i \in DOMAIN answers, Land(i) PROVE NamedStaysPut'
  <2>1. answers' = [answers EXCEPT ![i] = Done]
    BY <1>4 DEF Land
  <2> QED BY <2>1, DoneType
<1>5. ASSUME NEW r \in Runs,
             NextCall(r) \/ CheckIn(r) \/ Timeout(r) \/ End(r) \/ Stop(r) \/ Checked(r) \/ Return(r)
      PROVE  UNCHANGED answers
  BY <1>5 DEF NextCall, CheckIn, Timeout, End, Stop, Checked, Return
<1>6. CASE Delegate \/ RegisterChild \/ Delegated \/ SwitchMode \/ SwitchLimits
  BY <1>6 DEF Delegate, RegisterChild, Delegated, SwitchMode, SwitchLimits
<1>7. CASE Rest \/ UNCHANGED vars
  BY <1>7 DEF Rest, vars
<1> QED BY <1>1, <1>2, <1>3, <1>4, <1>5, <1>6, <1>7 DEF Next

\* An answer that names its run is never handed to another.
THEOREM NamedAnswersStayPut == Spec => []NamedStaysPut
<1>1. Init => NamedStaysPut
  BY DEF Init, NamedStaysPut
<1> QED BY <1>1, NamedStaysPutStep, TypeCorrect, PTL DEF Spec

\* An answer settles a wait it finds under its own call's id, in the run it names.
LEMMA AnswersStayStep ==
  TypeOK /\ NamedStaysPut /\ AnswersStayInTheirRun /\ [Next]_vars => AnswersStayInTheirRun'
<1> SUFFICES ASSUME TypeOK, NamedStaysPut, AnswersStayInTheirRun, [Next]_vars
             PROVE  AnswersStayInTheirRun'
  OBVIOUS
<1> USE DEF AnswersStayInTheirRun
<1>1. ASSUME NEW r \in Runs, Checked(r) \/ Return(r) \/ NextCall(r) PROVE AnswersStayInTheirRun'
  <2>1. \A s \in Runs \ {r} : step'[s] = step[s]
    BY <1>1 DEF NextCall, Checked, Return, TypeOK
  <2>2. \E n, allowed : Gate(r, n, allowed) \/ Ask(r, n) \/ Unasked(r)
    BY <1>1 DEF NextCall, Checked, Return
  <2> QED BY <2>1, <2>2, GateAsks
<1>2. ASSUME NEW r \in Runs, CheckIn(r) \/ End(r) PROVE AnswersStayInTheirRun'
  BY <1>2 DEF CheckIn, End, TypeOK
<1>3. ASSUME NEW r \in Runs, Timeout(r) PROVE AnswersStayInTheirRun'
  <2>1. UNCHANGED step /\ \A s \in Runs \ {r} : at'[s] = at[s] /\ outcome'[s] = outcome[s]
    BY <1>3 DEF Timeout, Settle, TypeOK
  <2>2. outcome'[r].kind \in {"timeout", "continue", "answer"}
    BY <1>3 DEF Timeout, Settle, Ended, TypeOK
  <2> QED BY <2>1, <2>2
<1>4. ASSUME NEW r \in Runs, Stop(r) PROVE AnswersStayInTheirRun'
  <2>1. /\ UNCHANGED step
        /\ \A s \in Runs : (at'[s] = at[s] /\ outcome'[s] = outcome[s]) \/ outcome'[s].kind = "aborted"
    BY <1>4 DEF Stop, Ended, TypeOK
  <2> QED BY <2>1
<1>5. CASE Delegate \/ RegisterChild
  BY <1>5 DEF Delegate, RegisterChild, TypeOK
<1>6. CASE Delegated
  BY <1>6 DEF Delegated, Settle, Ended, TypeOK
<1>7. CASE Send
  BY <1>7 DEF Send, runVars
<1>8. ASSUME NEW i \in DOMAIN answers, Arrive(i) PROVE AnswersStayInTheirRun'
  BY <1>8 DEF Arrive, runVars
<1>9. ASSUME NEW i \in DOMAIN answers, Land(i) PROVE AnswersStayInTheirRun'
  <2> DEFINE a == answers[i]
  <2>1. a \in AnswerType /\ a.run \in Runs /\ a.kind \in Kinds /\ a.about \in Questions
    BY AnswersType, DoneType DEF AnswerType
  <2>2. CASE UNCHANGED <<at, outcome>>
    BY <1>9, <2>2 DEF Land
  <2>3. CASE Settle(a.run, Decided(a)) /\ (a.kind = "approval" => a.run \in Holding(IdOf(a)))
    <3>1. /\ UNCHANGED step
          /\ \A s \in Runs \ {a.run} : at'[s] = at[s] /\ outcome'[s] = outcome[s]
          /\ outcome'[a.run] = Decided(a)
      BY <1>9, <2>1, <2>3 DEF Land, Settle, TypeOK
    <3>2. CASE a.kind = "checkin"
      BY <2>1, <3>1, <3>2 DEF Decided
    <3>3. CASE a.kind = "approval"
      <4>1. Id(step[a.run]) = Id(a.about[2])
        BY <2>3, <3>3 DEF Holding, IdOf
      <4>2. a.named => a.about[1] = a.run
        BY <1>9 DEF NamedStaysPut, Land
      <4>3. Decided(a).about = a.about /\ Decided(a).named = a.named
        BY DEF Decided
      <4>4. a.named => /\ outcome'[a.run].about[1] = a.run
                       /\ Id(outcome'[a.run].about[2]) = Id(step'[a.run])
        BY <3>1, <4>1, <4>2, <4>3
      <4>5. outcome'[a.run].named = a.named
        BY <3>1, <4>3
      <4> QED BY <2>1, <3>1, <4>4, <4>5
    <3> QED BY <2>1, <3>2, <3>3 DEF Kinds
  <2> QED BY <1>9, <2>2, <2>3 DEF Land
<1>10. CASE SwitchMode
  <2>1. /\ UNCHANGED step
        /\ \A s \in Runs : (at'[s] = at[s] /\ outcome'[s] = outcome[s]) \/ outcome'[s].kind = "regate"
    BY <1>10 DEF SwitchMode, Ended, TypeOK
  <2> QED BY <2>1
<1>11. CASE SwitchLimits
  <2>1. CASE UNCHANGED <<at, outcome>>
    BY <1>11, <2>1 DEF SwitchLimits
  <2>2. CASE Settle(Parent, [Ended("continue") EXCEPT !.by = Starter, !.about = <<Parent, step[Parent]>>])
    <3>1. UNCHANGED step /\ outcome'[Parent].kind = "continue"
          /\ at'[Child] = at[Child] /\ outcome'[Child] = outcome[Child]
      BY <1>11, <2>2 DEF SwitchLimits, Settle, Ended, TypeOK
    <3> QED BY <3>1
  <2> QED BY <1>11, <2>1, <2>2 DEF SwitchLimits
<1>12. CASE Rest \/ UNCHANGED vars
  BY <1>12 DEF Rest, vars
<1> QED BY <1>1, <1>2, <1>3, <1>4, <1>5, <1>6, <1>7, <1>8, <1>9, <1>10, <1>11, <1>12 DEF Next

\* An answer that names its run decides a call of that run under its own call's
\* id, whoever else answers, and however late; ids may repeat or not.
THEOREM AnswersKeepToTheirRun == Spec => []AnswersStayInTheirRun
<1>1. Init => AnswersStayInTheirRun
  BY DEF Init, AnswersStayInTheirRun
<1> QED BY <1>1, AnswersStayStep, NamedAnswersStayPut, TypeCorrect, PTL DEF Spec
=============================================================================
