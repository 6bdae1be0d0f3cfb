SPECIFICATION Spec
CONSTANTS
  t1 = t1
  t2 = t2
  d1 = d1
  c1 = c1
  c2 = c2
  s1 = s1
  s2 = s2
  a1 = a1
  a2 = a2
  y1 = y1
  y2 = y2
  Threads = {t1, t2}
  Reporters = {d1}
  Clients = {c1, c2}
  Services = {s1, s2}
  Actors = {a1}
  Types = {y1, y2}
  Limits = {0, 2}
  SizeRange = 64
  MaxTime = 2
  MaxEntries = 3
INVARIANTS
  TypeOK
  IndicesFollowLog
  CallQueriesAreExact
  StateQueriesAreExact
  ReportQueriesAreExact
SYMMETRY Symmetric
CHECK_DEADLOCK FALSE
