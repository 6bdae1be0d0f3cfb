SPECIFICATION FairSpec
CONSTANTS
  a = a
  b = b
  r1 = r1
  r2 = r2
  r3 = r3
  r4 = r4
  k1 = k1
  k2 = k2
  k3 = k3
  w1 = w1
  w2 = w2
  None = None
  Callers = {a, b}
  Ops <- TwoStarters
  MaxCalls <- Twice
  StartModes = {0}
  Runs = {r1, r2, r3, r4}
  Restarters = {k1, k2, k3}
  EndsByItself = FALSE
  Worlds = {w1}
  InvalidWorlds = {}
  Settings = {1}
CHECK_DEADLOCK FALSE
PROPERTIES
  RestartHappens
  RestartKeepsPause
