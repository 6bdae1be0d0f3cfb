SPECIFICATION Spec
CONSTANTS
  c1 = c1
  c2 = c2
  h1 = h1
  h2 = h2
  sim = sim
  rpc = rpc
  destructor = destructor
  Clients <- TwoClients
  Handlers <- TwoHandlers
  SimThread = sim
  RpcPublishers = {rpc}
  Shutdown = destructor
  None = None
  Proposals = {2}
  MinTimeout = 2
  TimeoutBound = 9
  ConfigTimeout = 2
  SpuriousReady = FALSE
  MaxEvents = 2
  MaxJoins = 1
  MaxBusy = 0
INVARIANT UnreadyEmptyOnEntry
SYMMETRY HandlerSymmetry
CHECK_DEADLOCK FALSE
