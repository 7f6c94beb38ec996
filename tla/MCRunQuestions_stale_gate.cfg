\* A switch to Manual while the check of Auto is still out.
CONSTANTS
  People = {"starter", "editor"}
  MaxSteps = 2
  MaxChildSteps = 1
  MaxAnswers = 1
  MaxSwitches = 1
  AutoContinues = 1
  IdsRepeat = TRUE
SPECIFICATION Spec
INVARIANTS QuestionDecidedInForce
