CONSTANTS
  w1 = w1
  w2 = w2
  c1 = c1
  c2 = c2
  c3 = c3
  f1 = f1
  f2 = f2
  Workers = {w1, w2}
  Conns = {c1, c2}
  Fds = {f1, f2}
  ListenFd = ListenFd
  NoFd = NoFd
  NoConn = NoConn
  RxMax = 2
  RecvMax = 1
  BatchMax = 3
  Faults = {}
  MayStop = TRUE
  ReqLen = 2
  RespLen = 2
  TxMax = 2
  Pipelined = FALSE
SPECIFICATION HSpec
INVARIANTS HTypeOK SessionsExact ResponsesWhole
SYMMETRY Symmetry
CHECK_DEADLOCK FALSE
