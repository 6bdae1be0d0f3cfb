SPECIFICATION Spec
CONSTANTS
  Tolerance = 1
  StepSize = 4
  MaxSteps = 3
  Diagrams <- LateCompletion
PROPERTY
  EndedActionsStay
CHECK_DEADLOCK FALSE
