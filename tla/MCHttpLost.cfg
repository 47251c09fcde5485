CONSTANTS
  w1 = w1
  w2 = w2
  c1 = c1
  c2 = c2
  c3 = c3
  f1 = f1
  f2 = f2
  Workers = {w1, w2}
  Conns = {c1, c2}
  Fds = {f1, f2}
  ListenFd = ListenFd
  NoFd = NoFd
  NoConn = NoConn
  RxMax = 1
  RecvMax = 1
  BatchMax = 3
  Faults = {}
  MayStop = FALSE
  ReqLen = 2
  RespLen = 0
  TxMax = 0
  Pipelined = TRUE
SPECIFICATION HSpec
INVARIANT SessionPerClient
CHECK_DEADLOCK FALSE
