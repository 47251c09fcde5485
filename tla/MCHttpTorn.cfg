CONSTANTS
  w1 = w1
  w2 = w2
  c1 = c1
  c2 = c2
  c3 = c3
  f1 = f1
  f2 = f2
  Workers = {w1}
  Conns = {c1}
  Fds = {f1}
  ListenFd = ListenFd
  NoFd = NoFd
  NoConn = NoConn
  RxMax = 4
  RecvMax = 4
  BatchMax = 3
  Faults = {}
  MayStop = FALSE
  ReqLen = 2
  RespLen = 2
  TxMax = 3
  Pipelined = TRUE
SPECIFICATION HSpec
INVARIANT ResponsesWhole
CHECK_DEADLOCK FALSE
