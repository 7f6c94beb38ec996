\* Two calls of the thread's run and one of its sub-agent, an answer, a stop and
\* a switch of mode or limits at any moment, and every call named alike (call_0).
CONSTANTS
  People = {"starter", "editor"}
  MaxSteps = 2
  MaxChildSteps = 1
  MaxAnswers = 1
  MaxSwitches = 1
  AutoContinues = 1
  IdsRepeat = TRUE
SPECIFICATION FairSpec
INVARIANTS TypeOK AnswersStayInTheirRun QuestionInForce ChildSharesMode NoOrphan
PROPERTIES StopEndsTheRun
