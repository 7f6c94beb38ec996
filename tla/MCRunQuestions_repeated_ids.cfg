\* An answer given on a call named call_0, when the next is named the same.
CONSTANTS
  People = {"starter", "editor"}
  MaxSteps = 2
  MaxChildSteps = 1
  MaxAnswers = 1
  MaxSwitches = 1
  AutoContinues = 1
  IdsRepeat = TRUE
SPECIFICATION Spec
INVARIANTS AnswersFindTheirCall
