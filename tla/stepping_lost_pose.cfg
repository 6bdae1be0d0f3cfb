SPECIFICATION Spec
CONSTANTS
  car = car
  trailer = trailer
  world = world
  t1 = t1
  ping = ping
  pong = pong
  Actors = {car, trailer}
  World = world
  Parent <- CarAndTrailer
  Callers = {t1}
  Names = {ping, pong}
  StepSize = 4
  Tolerance = 1
  StopTimes = {0, 2, 3, 5, 6}
  MaxRuns = 1
  MaxCalls = 3
INVARIANT
  RefusedCallsHaveNoEffect
CHECK_DEADLOCK FALSE
