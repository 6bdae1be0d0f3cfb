SPECIFICATION FairSpec
CONSTANTS
  Tolerance = 1
  StepSize = 4
  MaxSteps = 3
  Diagrams <- Scenarios
INVARIANTS
  TypeOK
  TreeConsistent
  NoConflictInForce
  EndedPhasesAreClosed
  ClientsHearOfEnds
  StableAfterUpdate
  ActorsExistWhenNeeded
  ReportsAgree
PROPERTIES
  DurationsAreExact
  EventsEnd
CHECK_DEADLOCK FALSE
