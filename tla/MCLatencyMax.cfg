CONSTANTS
  c1 = c1
  c2 = c2
  w1 = w1
  w2 = w2
  Main = main
  Port = port
  Workers = {w1}
  Threads = {main, c1, w1}
  Reactors = {main, w1}
  Listeners = {port, w1}
  Fresh = fresh
  Conns = {c1}
  Users = {c1}
  Fds = {3, 4, 5}
  Objects <- Places
  Files <- MCFiles
  NoFile = NoFile
  SendMax <- MCSendMax
  LineMax = 2
  TxMax = 1
  RecvMax = 1
  BatchMax = 2
  Latencies = {1, 2}
  Rounds = 2
  Nobody = nobody
  Faults = {}
  Stages = {"08_MultiReactor"}
SPECIFICATION Spec
INVARIANT MaximumIsMaximum
CHECK_DEADLOCK FALSE
