CONSTANTS
  w1 = w1
  w2 = w2
  c1 = c1
  c2 = c2
  c3 = c3
  f1 = f1
  f2 = f2
  Workers = {w1, w2}
  Conns = {c1, c2}
  Fds = {f1}
  ListenFd = ListenFd
  NoFd = NoFd
  NoConn = NoConn
  RxMax = 1
  RecvMax = 1
  BatchMax = 3
  Faults = {"add"}
  MayStop = TRUE
SPECIFICATION FairSpec
PROPERTIES ClientsServed QueueServed WorkersStop
CHECK_DEADLOCK FALSE
