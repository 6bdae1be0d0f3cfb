SPECIFICATION Spec
CONSTANTS
  Tolerance = 1
  StepSize = 4
  MaxSteps = 3
  Diagrams <- EarlyEnd
PROPERTY
  InitialActionsPrecedeEnd
CHECK_DEADLOCK FALSE
