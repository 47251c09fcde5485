CONSTANTS
  c1 = c1
  c2 = c2
  w1 = w1
  w2 = w2
  Main = main
  Port = port
  Workers = {w1, w2}
  Threads = {main, c1, c2, w1, w2}
  Reactors = {main, w1, w2}
  Listeners = {port, w1, w2}
  Fresh = fresh
  Conns = {c1, c2}
  Users = {c1}
  Fds = {3, 4, 5}
  Objects <- Places
  Files <- MCFiles
  NoFile = NoFile
  SendMax <- MCSendMax
  LineMax = 2
  TxMax = 1
  RecvMax = 1
  BatchMax = 2
  Latencies = {1}
  Rounds = 1
  Nobody = nobody
  Faults = {"bind", "epoll", "thread", "accept"}
  Stages = {"01_skeleton", "02_EchoLoop", "03_SocketClass", "04_MultiThread", "05_Latency", "06_NonBlock", "07_epoll", "08_MultiReactor"}
SPECIFICATION FairSpec
INVARIANTS TypeOK SingleOwner MergedTotals
PROPERTIES EchoFaithful KeepsClients Admitted Answered InputRead ProgramsEnd
CHECK_DEADLOCK FALSE
