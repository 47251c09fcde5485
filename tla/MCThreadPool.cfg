CONSTANTS
  c1 = c1
  c2 = c2
  w1 = w1
  w2 = w2
  Main = main
  Pool = {w1, w2}
  Threads = {main, w1, w2}
  Reactors = {main}
  Listener = listener
  Listeners = {listener}
  Fresh = fresh
  Conns = {c1, c2}
  Fds = {3, 4, 5}
  Objects <- Places
  Files <- MCFiles
  NoFile = NoFile
  SendMax <- MCSendMax
  TxMax = 1
  RecvMax = 1
  BatchMax = 2
  Faults = {"bind", "epoll", "add"}
SPECIFICATION FairSpec
INVARIANTS TypeOK SingleOwner OneJob NoLostWakeup
PROPERTIES EchoFaithful ClientsServed PoolEnds
CHECK_DEADLOCK FALSE
