SPECIFICATION FairSpec
CONSTANTS
  a = a
  b = b
  r1 = r1
  r2 = r2
  r3 = r3
  r4 = r4
  k1 = k1
  k2 = k2
  k3 = k3
  w1 = w1
  w2 = w2
  None = None
  Callers = {a, b}
  Ops <- OneStarter
  MaxCalls <- ThreeTimes
  StartModes = {0, 1, 2}
  Runs = {r1, r2}
  Restarters = {}
  EndsByItself = TRUE
  Worlds = {w1, w2}
  InvalidWorlds = {w2}
  Settings = {1}
CHECK_DEADLOCK FALSE
INVARIANTS
  TypeOK
  WorldStable
  NoLostResume
  OneRun
  NoStepWithheld
PROPERTIES
  StepsTaken
  StopEndsLoop
