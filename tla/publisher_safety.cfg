SPECIFICATION Spec
CONSTANTS
  c1 = c1
  c2 = c2
  h1 = h1
  h2 = h2
  sim = sim
  rpc = rpc
  destructor = destructor
  Clients <- TwoClients
  Handlers <- TwoHandlers
  SimThread = sim
  RpcPublishers = {}
  Shutdown = destructor
  None = None
  Proposals = {2, 4}
  MinTimeout = 2
  TimeoutBound = 9
  ConfigTimeout = 3
  SpuriousReady = TRUE
  MaxEvents = 2
  MaxJoins = 1
  MaxBusy = 1
INVARIANTS TypeOK NoLostWakeup TimeoutsTrackSubscribers
PROPERTIES BarrierHonoured OnlyAwaitedClientsExpire OnlySilentClientsExpire ImplementsBarrier
SYMMETRY HandlerSymmetry
CHECK_DEADLOCK FALSE
