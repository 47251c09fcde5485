CONSTANTS
  Asked = 2
  Cores = 4
  WorkerFaults = {1, 2}
  Lines = 2
  LineSize = 2
  Window = 2
  RecvMax = 1
  ClientFaults = {"epoll"}
SPECIFICATION FairSpec
INVARIANTS TypeOK NoOrphans CleanQuit
PROPERTIES DisconnectReturns RepliesRead EndNoticed StopStops
CHECK_DEADLOCK FALSE
