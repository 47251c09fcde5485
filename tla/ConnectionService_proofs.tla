---------------------- MODULE ConnectionService_proofs ----------------------
(***************************************************************************)
(* MultiReactorServer implements ConnectionService under the mapping given  *)
(* there by Status and InFlight, for any number of workers, connections and *)
(* descriptors, and any of the faults.  Status(c) is found from the worker  *)
(* that handles c, so the proof first says what the mapping gives for a     *)
(* connection by its descriptor and its place in the handlers (OpenMapped), *)
(* then that a step changes it for the one connection the step is about     *)
(* (OtherConns), and then what the step is of ConnectionService.            *)
(***************************************************************************)
EXTENDS MultiReactorServer_proofs

-----------------------------------------------------------------------------
(* The inductive invariant: that of MultiReactorServer_proofs, and what the *)
(* guards of ConnectionService need.                                        *)

\* A connection that is open has a descriptor.
OpenInv == \A c \in Conns : conn[c] = "open" => \E f \in Fds : fdtab[f] = c

\* Before its loop a worker has no clients; on_read_ is given data; and when
\* on_disconnect_ is called the client has ended and been drained.
HandlerInv ==
  \A w \in Workers :
    /\ wpc[w] \in {"bind", "epoll"} => clients[w] = {}
    /\ wpc[w] = "read" => held[w] # 0
    /\ wpc[w] = "closing" => rx[fdtab[cur[w]]] = 0 /\ peer[fdtab[cur[w]]] # "open"

CInv == EInv /\ OpenInv /\ HandlerInv

\* A worker that handles an event has its descriptor to itself.
LEMMA CurOpen ==
  EInv => \A w \in Workers : ~Idle(w) =>
    /\ cur[w] \in Fds /\ fdtab[cur[w]] \in Conns /\ conn[fdtab[cur[w]]] = "open"
    /\ \A v \in Workers : v # w => cur[v] # cur[w] /\ cur[w] \notin Owned(v)
<1>. SUFFICES ASSUME EInv, NEW w \in Workers, ~Idle(w)
              PROVE  /\ cur[w] \in Fds /\ fdtab[cur[w]] \in Conns
                     /\ conn[fdtab[cur[w]]] = "open"
                     /\ \A v \in Workers : v # w => cur[v] # cur[w] /\ cur[w] \notin Owned(v)
  OBVIOUS
<1>1. \A v \in Workers : ~Idle(v) => cur[v] \in Owned(v) /\ cur[v] \in Fds
  BY EngineAssumption DEF EInv, CurInv, TypeOK, Idle, Handlers, Owned, EngineAssumption
<1>2. fdtab[cur[w]] \in Conns /\ conn[fdtab[cur[w]]] = "open"
  BY <1>1 DEF EInv, OwnerInv, ConnInv, TypeOK
<1>3. \A v \in Workers : v # w => cur[w] \notin Owned(v)
  BY <1>1 DEF EInv, OwnerInv
<1>4. \A v \in Workers : Idle(v) => cur[v] = NoFd
  BY DEF EInv, CurInv
<1>. QED
  BY <1>1, <1>2, <1>3, <1>4, EngineAssumption DEF EngineAssumption

\* What the mapping says of a connection with descriptor f ...
LEMMA OpenMapped ==
  EInv => \A f \in Fds : fdtab[f] # NoConn =>
    /\ \A w \in Workers : cur[w] = f =>
         /\ Status(fdtab[f]) = IF wpc[w] = "connect" THEN "none"
                               ELSE IF wpc[w] = "erase" THEN "disconnected" ELSE "connected"
         /\ InFlight(fdtab[f]) = rx[fdtab[f]] + IF wpc[w] = "read" THEN held[w] ELSE 0
    /\ (\A w \in Workers : cur[w] # f) =>
         Status(fdtab[f]) = "connected" /\ InFlight(fdtab[f]) = rx[fdtab[f]]
<1>. SUFFICES ASSUME EInv, NEW f \in Fds, fdtab[f] # NoConn
     PROVE
    /\ \A w \in Workers : cur[w] = f =>
         /\ Status(fdtab[f]) = IF wpc[w] = "connect" THEN "none"
                               ELSE IF wpc[w] = "erase" THEN "disconnected" ELSE "connected"
         /\ InFlight(fdtab[f]) = rx[fdtab[f]] + IF wpc[w] = "read" THEN held[w] ELSE 0
    /\ (\A w \in Workers : cur[w] # f) =>
         Status(fdtab[f]) = "connected" /\ InFlight(fdtab[f]) = rx[fdtab[f]]
  OBVIOUS
<1>1. conn[fdtab[f]] = "open" /\ FdOf(fdtab[f]) = f /\ rx[fdtab[f]] \in Int
  BY EngineAssumption DEF EInv, ConnInv, FdOf, TypeOK, EngineAssumption
<1>2. ASSUME NEW w \in Workers, cur[w] = f
      PROVE  \A v \in Workers : cur[v] = f => v = w
  BY <1>2, CurOpen, EngineAssumption DEF EInv, CurInv, EngineAssumption
<1>3. ASSUME NEW w \in Workers, cur[w] = f
      PROVE  \A l : At(fdtab[f], l) <=> wpc[w] = l
  BY <1>1, <1>2, <1>3 DEF At
<1>4. ASSUME NEW w \in Workers, cur[w] = f
      PROVE  /\ Status(fdtab[f]) = IF wpc[w] = "connect" THEN "none"
                               ELSE IF wpc[w] = "erase" THEN "disconnected" ELSE "connected"
             /\ InFlight(fdtab[f]) = rx[fdtab[f]] + IF wpc[w] = "read" THEN held[w] ELSE 0
  <2>1. Status(fdtab[f]) = IF wpc[w] = "connect" THEN "none"
                           ELSE IF wpc[w] = "erase" THEN "disconnected" ELSE "connected"
    BY <1>1, <1>3, <1>4 DEF Status
  <2>2. wpc[w] = "read" => (CHOOSE v \in Workers : wpc[v] = "read" /\ cur[v] = FdOf(fdtab[f])) = w
    BY <1>1, <1>2, <1>4
  <2>3. InFlight(fdtab[f]) = rx[fdtab[f]] + IF wpc[w] = "read" THEN held[w] ELSE 0
    <3>1. CASE wpc[w] # "read"
      BY <1>1, <1>3, <1>4, <3>1 DEF InFlight
    <3>2. CASE wpc[w] = "read"
      <4>. DEFINE v == CHOOSE u \in Workers : wpc[u] = "read" /\ cur[u] = FdOf(fdtab[f])
      <4>1. InFlight(fdtab[f]) = rx[fdtab[f]] + held[v]
        BY <1>1, <1>3, <1>4, <3>2, Zenon DEF InFlight
      <4>2. v = w
        BY <2>2, <3>2
      <4>. QED
        BY <3>2, <4>1, <4>2
    <3>. QED
      BY <3>1, <3>2
  <2>. QED
    BY <2>1, <2>3
<1>5. ASSUME \A w \in Workers : cur[w] # f
      PROVE  Status(fdtab[f]) = "connected" /\ InFlight(fdtab[f]) = rx[fdtab[f]]
  <2>1. \A l : ~At(fdtab[f], l)
    BY <1>1, <1>5 DEF At
  <2>. QED
    BY <1>1, <2>1 DEF Status, InFlight
<1>. QED
  BY <1>4, <1>5

\* ... and of one without.
LEMMA OtherMapped ==
  EInv => \A c \in Conns : conn[c] # "open" =>
    /\ Status(c) = IF conn[c] \in {"idle", "queued"} THEN "none"
                   ELSE IF conn[c] = "closed" THEN "disconnected" ELSE "dropped"
    /\ InFlight(c) = rx[c]
  BY DEF EInv, TypeOK, Status, InFlight

LEMMA OpenMappedNext ==
  EInv' => (\A f \in Fds : fdtab[f] # NoConn =>
    /\ \A w \in Workers : cur[w] = f =>
         /\ Status(fdtab[f]) = IF wpc[w] = "connect" THEN "none"
                               ELSE IF wpc[w] = "erase" THEN "disconnected" ELSE "connected"
         /\ InFlight(fdtab[f]) = rx[fdtab[f]] + IF wpc[w] = "read" THEN held[w] ELSE 0
    /\ (\A w \in Workers : cur[w] # f) =>
         Status(fdtab[f]) = "connected" /\ InFlight(fdtab[f]) = rx[fdtab[f]])'
  BY OpenMapped, PTL

LEMMA OtherMappedNext ==
  EInv' => (\A c \in Conns : conn[c] # "open" =>
    /\ Status(c) = IF conn[c] \in {"idle", "queued"} THEN "none"
                   ELSE IF conn[c] = "closed" THEN "disconnected" ELSE "dropped"
    /\ InFlight(c) = rx[c])'
  BY OtherMapped, PTL

\* A step that concerns another connection leaves the mapped state of c.
LEMMA Unconcerned ==
  ASSUME CInv, CInv', NEW c \in Conns, conn'[c] = conn[c], rx'[c] = rx[c],
         \A f \in Fds : fdtab[f] = c =>
           /\ fdtab'[f] = c
           /\ \A v \in Workers : cur[v] = f \/ cur'[v] = f =>
                cur'[v] = cur[v] /\ wpc'[v] = wpc[v] /\ held'[v] = held[v]
  PROVE  Status(c)' = Status(c) /\ InFlight(c)' = InFlight(c)
<1>1. CASE conn[c] # "open"
  BY <1>1, OtherMapped, OtherMappedNext DEF CInv
<1>2. CASE conn[c] = "open"
  <2>1. PICK f \in Fds : fdtab[f] = c /\ fdtab'[f] = c /\ c # NoConn
    BY <1>2, EngineAssumption DEF CInv, OpenInv, EngineAssumption
  <2>2. CASE \E w \in Workers : cur[w] = f
    <3>1. PICK w \in Workers : cur[w] = f
      BY <2>2
    <3>2. cur'[w] = f /\ wpc'[w] = wpc[w] /\ held'[w] = held[w]
      BY <2>1, <3>1
    <3>. QED
      BY <2>1, <3>1, <3>2, OpenMapped, OpenMappedNext DEF CInv
  <2>3. CASE \A w \in Workers : cur[w] # f
    <3>1. \A w \in Workers : cur'[w] # f
      BY <2>1, <2>3
    <3>. QED
      BY <2>1, <2>3, <3>1, OpenMapped, OpenMappedNext DEF CInv
  <2>. QED
    BY <2>2, <2>3
<1>. QED
  BY <1>1, <1>2

-----------------------------------------------------------------------------
(* What a step of a worker leaves of the other workers.                     *)

OthersKept(w) ==
  \A v \in Workers : v # w =>
    /\ wpc'[v] = wpc[v] /\ cur'[v] = cur[v] /\ held'[v] = held[v]
    /\ clients'[v] = clients[v]
    /\ ~Idle(v) => /\ fdtab'[cur[v]] = fdtab[cur[v]]
                   /\ rx'[fdtab[cur[v]]] = rx[fdtab[cur[v]]]

LEMMA LeaveKeeps ==
  ASSUME EInv, NEW w \in Workers, Leave(w), wpc[w] \in {"epoll", "loop", "wait"}
  PROVE  OthersKept(w)
<1>1. \A v \in Workers : v # w => wpc'[v] = wpc[v] /\ clients'[v] = clients[v]
  BY DEF Leave, Goto, EInv, TypeOK
<1>2. \A v \in Workers : v # w /\ ~Idle(v) => cur[v] \in Fds /\ cur[v] \notin clients[w]
  BY CurOpen DEF Owned
<1>3. \A f \in Fds : f \notin clients[w] => fdtab'[f] = fdtab[f]
  BY DEF Leave, Closed
<1>. QED
  BY <1>1, <1>2, <1>3 DEF OthersKept, Leave

LEMMA WorkerKeeps ==
  ASSUME EInv, NEW w \in Workers, Loop(w) \/ Callback(w)
  PROVE  OthersKept(w)
<1>1. CASE Bind(w) \/ EndOfBatch(w) \/ ClientEvent(w) \/ Callback(w)
  <2>1. UNCHANGED <<fdtab, rx>>
    BY <1>1 DEF Bind, EndOfBatch, ClientEvent, Callback, OnConnect, OnRead, OnDisconnect, kernel
  <2>2. \A v \in Workers : v # w =>
          wpc'[v] = wpc[v] /\ cur'[v] = cur[v] /\ held'[v] = held[v] /\ clients'[v] = clients[v]
    BY <1>1 DEF Bind, EndOfBatch, ClientEvent, Callback, OnConnect, OnRead, OnDisconnect,
       Goto, EInv, TypeOK
  <2>. QED
    BY <2>1, <2>2 DEF OthersKept
<1>2. CASE (EpollSetup(w) \/ TestRunning(w) \/ EpollWait(w)) /\ ~Leave(w)
  <2>1. UNCHANGED <<fdtab, rx>>
    BY <1>2 DEF EpollSetup, TestRunning, EpollWait, Timeout, kernel
  <2>2. \A v \in Workers : v # w =>
          wpc'[v] = wpc[v] /\ cur'[v] = cur[v] /\ held'[v] = held[v] /\ clients'[v] = clients[v]
    BY <1>2 DEF EpollSetup, TestRunning, EpollWait, Timeout, Goto, EInv, TypeOK
  <2>. QED
    BY <2>1, <2>2 DEF OthersKept
<1>3. CASE (EpollSetup(w) \/ TestRunning(w) \/ EpollWait(w)) /\ Leave(w)
  BY <1>3, LeaveKeeps DEF EpollSetup, TestRunning, EpollWait
<1>4. CASE Accept(w)
  <2>1. \A v \in Workers : v # w =>
          wpc'[v] = wpc[v] /\ cur'[v] = cur[v] /\ held'[v] = held[v] /\ clients'[v] = clients[v]
    BY <1>4 DEF Accept, Register, Goto, EInv, TypeOK
  <2>2. \A f \in Fds : fdtab[f] # NoConn => fdtab'[f] = fdtab[f]
    BY <1>4 DEF Accept, Register, Free, kernel, EInv, TypeOK
  <2>3. rx' = rx
    BY <1>4 DEF Accept, kernel
  <2>. QED
    BY <2>1, <2>2, <2>3, CurOpen, EngineAssumption DEF OthersKept, EngineAssumption
<1>5. CASE Recv(w)
  <2>1. \A v \in Workers : v # w =>
          wpc'[v] = wpc[v] /\ cur'[v] = cur[v] /\ held'[v] = held[v] /\ clients'[v] = clients[v]
    BY <1>5 DEF Recv, RecvData, RecvEnd, RecvAgain, Goto, EInv, TypeOK
  <2>2. fdtab' = fdtab /\ \A c \in Conns : c # fdtab[cur[w]] => rx'[c] = rx[c]
    BY <1>5 DEF Recv, RecvData, RecvEnd, RecvAgain, EInv, TypeOK
  <2>3. \A v \in Workers : v # w /\ ~Idle(v) =>
          fdtab[cur[v]] \in Conns /\ fdtab[cur[v]] # fdtab[cur[w]]
    <3>1. ~Idle(w)
      BY <1>5 DEF Recv, Idle
    <3>. QED
      BY <3>1, CurOpen, EngineAssumption DEF EInv, ConnInv, EngineAssumption
  <2>. QED
    BY <2>1, <2>2, <2>3 DEF OthersKept
<1>6. CASE Erase(w)
  <2>1. \A v \in Workers : v # w =>
          wpc'[v] = wpc[v] /\ cur'[v] = cur[v] /\ held'[v] = held[v] /\ clients'[v] = clients[v]
    BY <1>6 DEF Erase, Goto, EInv, TypeOK
  <2>2. rx' = rx /\ \A f \in Fds : f # cur[w] => fdtab'[f] = fdtab[f]
    BY <1>6 DEF Erase, Closed
  <2>3. \A v \in Workers : v # w /\ ~Idle(v) => cur[v] \in Fds /\ cur[v] # cur[w]
    BY <1>6, CurOpen DEF Erase, Idle
  <2>. QED
    BY <2>1, <2>2, <2>3 DEF OthersKept
<1>. QED
  BY <1>1, <1>2, <1>3, <1>4, <1>5, <1>6 DEF Loop

-----------------------------------------------------------------------------
(* The strengthened invariant. *)

LEMMA ClientCInv ==
  ASSUME CInv, NEW c \in Conns, Client(c)
  PROVE  OpenInv' /\ HandlerInv'
<1>1. UNCHANGED <<wpc, cur, held, clients, fdtab>>
  BY DEF Client, ClientConnects, ClientSends, ClientCloses, ClientResets, worker, kernel
<1>2. \A d \in Conns : conn'[d] = "open" => conn[d] = "open"
  BY DEF Client, ClientConnects, ClientSends, ClientCloses, ClientResets, kernel, CInv, EInv, TypeOK
<1>3. \A d \in Conns : rx[d] = 0 /\ peer[d] # "open" => rx'[d] = 0 /\ peer'[d] # "open"
  BY DEF Client, ClientConnects, ClientSends, ClientCloses, ClientResets, kernel, CInv, EInv, TypeOK
<1>4. \A w \in Workers : wpc[w] = "closing" => fdtab[cur[w]] \in Conns
  BY CurOpen DEF CInv, Idle
<1>. QED
  BY <1>1, <1>2, <1>3, <1>4 DEF CInv, OpenInv, HandlerInv

LEMMA WorkerHandlerInv ==
  ASSUME CInv, NEW w \in Workers, Loop(w) \/ Callback(w)
  PROVE  HandlerInv'
<1>1. OthersKept(w) /\ peer' = peer
  BY WorkerKeeps DEF CInv, Loop, Bind, EpollSetup, TestRunning, EpollWait, EndOfBatch, Accept,
     ClientEvent, Recv, Erase, Callback, OnConnect, OnRead, OnDisconnect
<1>2. ASSUME NEW v \in Workers, v # w
      PROVE  /\ wpc'[v] \in {"bind", "epoll"} => clients'[v] = {}
             /\ wpc'[v] = "read" => held'[v] # 0
             /\ wpc'[v] = "closing" =>
                  rx'[fdtab'[cur'[v]]] = 0 /\ peer'[fdtab'[cur'[v]]] # "open"
  BY <1>1, <1>2 DEF OthersKept, CInv, HandlerInv, Idle
<1>3. wpc'[w] \in {"bind", "epoll"} => clients'[w] = {}
  BY DEF Loop, Bind, EpollSetup, TestRunning, EpollWait, Timeout, EndOfBatch, Accept, Register,
     ClientEvent, Recv, RecvData, RecvEnd, RecvAgain, Erase, Leave, Goto,
     Callback, OnConnect, OnRead, OnDisconnect, CInv, EInv, TypeOK, HandlerInv
<1>4. wpc'[w] = "read" => held'[w] # 0
  <2>1. ASSUME wpc'[w] = "read" PROVE Recv(w) /\ RecvData(w, fdtab[cur[w]])
    BY <2>1 DEF Loop, Bind, EpollSetup, TestRunning, EpollWait, Timeout, EndOfBatch, Accept,
       Register, ClientEvent, Recv, RecvData, RecvEnd, RecvAgain, Erase, Leave, Goto,
       Callback, OnConnect, OnRead, OnDisconnect, CInv, EInv, TypeOK
  <2>2. ASSUME RecvData(w, fdtab[cur[w]]) PROVE held'[w] # 0
    BY <2>2, EngineAssumption DEF RecvData, CInv, EInv, TypeOK, EngineAssumption
  <2>. QED
    BY <2>1, <2>2
<1>5. wpc'[w] = "closing" => rx'[fdtab'[cur'[w]]] = 0 /\ peer'[fdtab'[cur'[w]]] # "open"
  <2>1. ASSUME wpc'[w] = "closing" PROVE Recv(w) /\ RecvEnd(w, fdtab[cur[w]])
    BY <2>1 DEF Loop, Bind, EpollSetup, TestRunning, EpollWait, Timeout, EndOfBatch, Accept,
       Register, ClientEvent, Recv, RecvData, RecvEnd, RecvAgain, Erase, Leave, Goto,
       Callback, OnConnect, OnRead, OnDisconnect, CInv, EInv, TypeOK
  <2>. QED
    BY <1>1, <2>1 DEF RecvEnd
<1>. QED
  BY <1>2, <1>3, <1>4, <1>5 DEF HandlerInv

LEMMA WorkerOpenInv ==
  ASSUME CInv, NEW w \in Workers, Loop(w) \/ Callback(w)
  PROVE  OpenInv'
<1>. USE DEF CInv, OpenInv
<1>1. ASSUME UNCHANGED <<conn, fdtab>> PROVE OpenInv'
  BY <1>1
<1>2. CASE Accept(w)
  <2>1. ASSUME NEW c \in backlog[w], NEW f \in Free, Register(w, c, f) PROVE OpenInv'
    <3>1. c \in Conns /\ f \in Fds /\ fdtab[f] = NoConn
      BY DEF EInv, TypeOK, Free
    <3>2. \A d \in Conns : d # c => conn'[d] = conn[d]
      BY <2>1 DEF Register, EInv, TypeOK
    <3>3. \A g \in Fds : g # f => fdtab'[g] = fdtab[g]
      BY <2>1 DEF Register, EInv, TypeOK
    <3>4. conn'[c] = "open" => fdtab'[f] = c
      BY <2>1, <3>1 DEF Register, EInv, TypeOK
    <3>. QED
      BY <3>1, <3>2, <3>3, <3>4, EngineAssumption DEF EngineAssumption
  <2>. QED
    BY <1>1, <1>2, <2>1 DEF Accept, kernel
<1>3. ASSUME Leave(w) PROVE OpenInv'
  <2>1. ASSUME NEW c \in Conns, conn'[c] = "open" PROVE \E f \in Fds : fdtab'[f] = c
    <3>1. conn[c] = "open" /\ \A f \in clients[w] : fdtab[f] # c
      BY <1>3, <2>1 DEF Leave
    <3>2. PICK f \in Fds : fdtab[f] = c
      BY <3>1
    <3>. QED
      BY <1>3, <3>1, <3>2 DEF Leave, Closed
  <2>. QED
    BY <2>1
<1>4. CASE Erase(w)
  <2>1. fdtab[cur[w]] \in Conns
    BY <1>4, CurOpen DEF Erase, Idle
  <2>2. ASSUME NEW c \in Conns, conn'[c] = "open" PROVE \E f \in Fds : fdtab'[f] = c
    <3>1. conn[c] = "open" /\ c # fdtab[cur[w]]
      BY <1>4, <2>1, <2>2 DEF Erase, EInv, TypeOK
    <3>2. PICK f \in Fds : fdtab[f] = c
      BY <3>1
    <3>. QED
      BY <1>4, <3>1, <3>2 DEF Erase, Closed
  <2>. QED
    BY <2>2
<1>. QED
  BY <1>1, <1>2, <1>3, <1>4
     DEF Loop, Bind, EpollSetup, TestRunning, EpollWait, Timeout, EndOfBatch, ClientEvent,
         Recv, RecvData, RecvEnd, RecvAgain, Callback, OnConnect, OnRead, OnDisconnect, kernel

LEMMA NextCInv == CInv /\ [Next]_vars => CInv'
<1>. SUFFICES ASSUME CInv, [Next]_vars PROVE CInv'
  OBVIOUS
<1>1. EInv'
  BY NextEInv DEF CInv
<1>2. CASE Stop \/ UNCHANGED vars
  <2>1. UNCHANGED <<wpc, cur, held, clients, fdtab, conn, rx, peer>>
    BY <1>2 DEF Stop, vars, worker, kernel
  <2>. QED
    BY <1>1, <2>1 DEF CInv, OpenInv, HandlerInv
<1>. QED
  BY <1>1, <1>2, ClientCInv, WorkerHandlerInv, WorkerOpenInv DEF Next, CInv

LEMMA InitCInv == Init => CInv
  BY InitEInv, EngineAssumption DEF Init, CInv, OpenInv, HandlerInv, EngineAssumption

LEMMA AlwaysCInv == Spec => []CInv
  BY InitCInv, NextCInv, PTL DEF Spec

-----------------------------------------------------------------------------
(* The refinement: what each step is of ConnectionService, given what it     *)
(* does to the callbacks and the data of the connections.                    *)

Same(c) == Status(c)' = Status(c) /\ InFlight(c)' = InFlight(c)

LEMMA StutterMaps ==
  ASSUME \A c \in Conns : Same(c), peer' = peer, running' = running
  PROVE  UNCHANGED Service!svars
BY DEF Same, Service!svars

LEMMA ConnectedMaps ==
  ASSUME NEW c \in Conns, Status(c) = "none", Status(c)' = "connected",
         InFlight(c)' = InFlight(c), \A d \in Conns : d # c => Same(d),
         peer' = peer, running' = running
  PROVE  Service!Connected(c)
BY DEF Same, Service!Connected

LEMMA DeliveredMaps ==
  ASSUME NEW c \in Conns, Status(c) = "connected", Status(c)' = "connected",
         NEW n \in 1 .. RecvMax, n <= InFlight(c), InFlight(c)' = InFlight(c) - n,
         \A d \in Conns : d # c => Same(d), peer' = peer, running' = running
  PROVE  Service!Delivered(c)
BY DEF Same, Service!Delivered

LEMMA DisconnectedMaps ==
  ASSUME NEW c \in Conns, Status(c) = "connected", Status(c)' = "disconnected",
         peer[c] # "open", InFlight(c) = 0, InFlight(c)' = 0,
         \A d \in Conns : d # c => Same(d), peer' = peer, running' = running
  PROVE  Service!Disconnected(c)
BY DEF Same, Service!Disconnected

LEMMA DroppedMaps ==
  ASSUME NEW lost \in SUBSET Conns,
         \A c \in lost : \/ Status(c) = "none"
                         \/ Status(c) = "connected" /\ (~running \/ "wait" \in Faults),
         \A c \in lost : Status(c)' = "dropped" /\ InFlight(c)' = InFlight(c),
         \A c \in Conns : c \notin lost => Same(c),
         peer' = peer, running' = running
  PROVE  Service!Dropped
BY DEF Same, Service!Dropped

LEMMA SentMaps ==
  ASSUME NEW c \in Conns, peer[c] = "open",
         Status(c)' = Status(c), InFlight(c)' = InFlight(c) + 1,
         \A d \in Conns : d # c => Same(d), peer' = peer, running' = running
  PROVE  Service!Sent(c)
BY DEF Same, Service!Sent

LEMMA ClosedMaps ==
  ASSUME NEW c \in Conns, peer[c] = "open", peer' = [peer EXCEPT ![c] = "closed"],
         \A d \in Conns : Same(d), running' = running
  PROVE  Service!PeerEnds(c)
BY DEF Same, Service!PeerEnds

LEMMA ResetMaps ==
  ASSUME NEW c \in Conns, peer[c] # "reset", peer' = [peer EXCEPT ![c] = "reset"],
         Status(c)' = Status(c), NEW n \in 0 .. InFlight(c), InFlight(c)' = n,
         \A d \in Conns : d # c => Same(d), running' = running
  PROVE  Service!PeerEnds(c)
BY DEF Same, Service!PeerEnds

-----------------------------------------------------------------------------
(* The connections a worker's step is not about. *)

LEMMA OtherConns ==
  ASSUME CInv, CInv', NEW w \in Workers, OthersKept(w), NEW c \in Conns,
         conn'[c] = conn[c], rx'[c] = rx[c],
         \A f \in Fds : fdtab[f] = c => fdtab'[f] = c /\ f # cur[w] /\ f # cur'[w]
  PROVE  Same(c)
<1>1. \A f \in Fds : fdtab[f] = c =>
        /\ fdtab'[f] = c
        /\ \A v \in Workers : cur[v] = f \/ cur'[v] = f =>
             cur'[v] = cur[v] /\ wpc'[v] = wpc[v] /\ held'[v] = held[v]
  BY DEF OthersKept
<1>. QED
  BY <1>1, Unconcerned DEF Same

\* A step outside the handlers, or from one into the same one, that touches
\* no descriptor.
LEMMA NoConns ==
  ASSUME CInv, CInv', NEW w \in Workers, OthersKept(w),
         cur[w] = NoFd, cur'[w] = NoFd,
         UNCHANGED <<conn, rx, fdtab, peer, running>>
  PROVE  UNCHANGED Service!svars
<1>1. \A c \in Conns : Same(c)
  BY OtherConns, EngineAssumption DEF EngineAssumption
<1>. QED
  BY <1>1, StutterMaps

\* A step of a handler that keeps its descriptor: only its own connection,
\* the one cur[w] refers to, may change.
LEMMA HandlerStep ==
  ASSUME CInv, CInv', NEW w \in Workers, OthersKept(w), ~Idle(w), cur'[w] = cur[w],
         conn' = conn, fdtab' = fdtab, NEW c \in Conns, c = fdtab[cur[w]],
         \A d \in Conns : d # c => rx'[d] = rx[d]
  PROVE  /\ \A d \in Conns : d # c => Same(d)
         /\ Status(c) = IF wpc[w] = "connect" THEN "none"
                        ELSE IF wpc[w] = "erase" THEN "disconnected" ELSE "connected"
         /\ Status(c)' = IF wpc'[w] = "connect" THEN "none"
                         ELSE IF wpc'[w] = "erase" THEN "disconnected" ELSE "connected"
         /\ InFlight(c) = rx[c] + IF wpc[w] = "read" THEN held[w] ELSE 0
         /\ InFlight(c)' = rx'[c] + IF wpc'[w] = "read" THEN held'[w] ELSE 0
<1>1. c # NoConn /\ cur[w] \in Fds
  BY CurOpen, EngineAssumption DEF CInv, EngineAssumption
<1>2. \A d \in Conns : d # c => Same(d)
  BY OtherConns
<1>3. fdtab'[cur'[w]] = c
  OBVIOUS
<1>. QED
  BY <1>1, <1>2, <1>3, OpenMapped, OpenMappedNext DEF CInv

\* A worker takes up or puts down one of its connections without a callback
\* having returned.
LEMMA TakenUp ==
  ASSUME CInv, CInv', NEW w \in Workers, ClientEvent(w)
  PROVE  UNCHANGED Service!svars
<1>1. OthersKept(w) /\ cur[w] = NoFd
  BY WorkerKeeps DEF Loop, CInv, EInv, CurInv, Idle, ClientEvent
<1>2. CASE cur'[w] = cur[w]
  BY <1>1, <1>2, NoConns DEF ClientEvent, kernel
<1>3. CASE cur'[w] # cur[w]
  <2>1. PICK f \in clients[w] : cur'[w] = f /\ wpc'[w] = "recv" /\ f \in Fds
    BY <1>3 DEF ClientEvent, Goto, CInv, EInv, TypeOK
  <2>2. \A v \in Workers : cur[v] # f
    <3>1. ASSUME NEW v \in Workers, cur[v] = f, v # w PROVE FALSE
      <4>1. ~Idle(v)
        BY <2>1, <3>1, EngineAssumption DEF CInv, EInv, CurInv, EngineAssumption
      <4>. QED
        BY <2>1, <3>1, <4>1, CurOpen DEF CInv, Owned
    <3>. QED
      BY <1>1, <2>1, <3>1, EngineAssumption DEF EngineAssumption
  <2>3. fdtab[f] # NoConn /\ fdtab[f] \in Conns
    BY <2>1 DEF CInv, EInv, OwnerInv, Owned, TypeOK
  <2>4. UNCHANGED <<conn, rx, fdtab, peer, running>>
    BY DEF ClientEvent, kernel
  <2>5. Same(fdtab[f])
    <3>1. Status(fdtab[f]) = "connected" /\ InFlight(fdtab[f]) = rx[fdtab[f]]
      BY <2>1, <2>2, <2>3, OpenMapped DEF CInv
    <3>2. fdtab'[f] = fdtab[f] /\ rx' = rx /\ rx[fdtab[f]] \in Nat
      BY <2>3, <2>4, EngineAssumption DEF CInv, EInv, TypeOK, EngineAssumption
    <3>3. Status(fdtab[f])' = "connected" /\ InFlight(fdtab[f])' = rx[fdtab[f]]
      BY <2>1, <2>3, <3>2, OpenMappedNext DEF CInv
    <3>. QED
      BY <3>1, <3>3 DEF Same
  <2>6. \A c \in Conns : c # fdtab[f] => Same(c)
    BY <1>1, <2>1, <2>4, OtherConns, EngineAssumption DEF EngineAssumption
  <2>. QED
    BY <2>4, <2>5, <2>6, StutterMaps
<1>. QED
  BY <1>2, <1>3

\* After Rearm and OnConnect nobody handles the descriptor any more.
LEMMA PutDown ==
  ASSUME CInv, CInv', NEW w \in Workers, OthersKept(w), ~Idle(w), cur'[w] = NoFd,
         conn' = conn, rx' = rx, fdtab' = fdtab, NEW c \in Conns, c = fdtab[cur[w]]
  PROVE  /\ \A d \in Conns : d # c => Same(d)
         /\ Status(c) = IF wpc[w] = "connect" THEN "none"
                        ELSE IF wpc[w] = "erase" THEN "disconnected" ELSE "connected"
         /\ Status(c)' = "connected"
         /\ InFlight(c) = rx[c] + IF wpc[w] = "read" THEN held[w] ELSE 0
         /\ InFlight(c)' = rx[c]
<1>1. /\ c # NoConn /\ cur[w] \in Fds
      /\ \A v \in Workers : v # w => cur[v] # cur[w]
  BY CurOpen, EngineAssumption DEF CInv, EngineAssumption
<1>2. \A d \in Conns : d # c => Same(d)
  BY OtherConns, EngineAssumption DEF EngineAssumption
<1>3. \A v \in Workers : cur'[v] # cur[w]
  BY <1>1, EngineAssumption DEF OthersKept, EngineAssumption
<1>4. fdtab'[cur[w]] = c /\ rx'[c] = rx[c]
  OBVIOUS
<1>5. Status(c)' = "connected" /\ InFlight(c)' = rx[c]
  BY <1>1, <1>3, <1>4, OpenMappedNext DEF CInv
<1>6. /\ Status(c) = IF wpc[w] = "connect" THEN "none"
                     ELSE IF wpc[w] = "erase" THEN "disconnected" ELSE "connected"
      /\ InFlight(c) = rx[c] + IF wpc[w] = "read" THEN held[w] ELSE 0
  BY <1>1, OpenMapped DEF CInv
<1>. QED
  BY <1>1, <1>2, <1>5, <1>6

LEMMA OnConnectMaps ==
  ASSUME CInv, CInv', NEW w \in Workers, OnConnect(w)
  PROVE  \E c \in Conns : Service!Connected(c)
<1>1. OthersKept(w)
  BY WorkerKeeps DEF Callback, CInv
<1>2. /\ ~Idle(w) /\ wpc[w] = "connect" /\ cur'[w] = NoFd
      /\ UNCHANGED <<conn, rx, fdtab, peer, running>>
  BY DEF OnConnect, Idle, CInv, EInv, TypeOK, kernel
<1>3. PICK c \in Conns : c = fdtab[cur[w]] /\ rx[c] \in Nat
  BY <1>2, CurOpen, EngineAssumption DEF CInv, EInv, TypeOK, EngineAssumption
<1>4. /\ \A d \in Conns : d # c => Same(d)
      /\ Status(c) = "none" /\ Status(c)' = "connected" /\ InFlight(c)' = InFlight(c)
  BY <1>1, <1>2, <1>3, PutDown
<1>. QED
  BY <1>2, <1>4, ConnectedMaps

LEMMA OnReadMaps ==
  ASSUME CInv, CInv', NEW w \in Workers, OnRead(w)
  PROVE  \E c \in Conns : Service!Delivered(c)
<1>1. OthersKept(w)
  BY WorkerKeeps DEF Callback, CInv
<1>2. /\ ~Idle(w) /\ wpc[w] = "read" /\ wpc'[w] = "recv" /\ cur'[w] = cur[w]
      /\ UNCHANGED <<conn, rx, fdtab, peer, running>>
  BY DEF OnRead, Idle, CInv, EInv, TypeOK, kernel, Goto
<1>3. held[w] \in 1 .. RecvMax
  BY <1>2, EngineAssumption DEF CInv, HandlerInv, EInv, TypeOK, EngineAssumption
<1>4. PICK c \in Conns : c = fdtab[cur[w]] /\ rx[c] \in Nat
  BY <1>2, CurOpen, EngineAssumption DEF CInv, EInv, TypeOK, EngineAssumption
<1>5. /\ Status(c) = "connected" /\ Status(c)' = "connected"
      /\ InFlight(c) = rx[c] + held[w] /\ InFlight(c)' = rx[c]
      /\ \A d \in Conns : d # c => Same(d)
  BY <1>1, <1>2, <1>4, HandlerStep
<1>6. held[w] <= InFlight(c) /\ InFlight(c)' = InFlight(c) - held[w]
  BY <1>3, <1>4, <1>5
<1>. QED
  BY <1>2, <1>3, <1>5, <1>6, DeliveredMaps

LEMMA OnDisconnectMaps ==
  ASSUME CInv, CInv', NEW w \in Workers, OnDisconnect(w)
  PROVE  \E c \in Conns : Service!Disconnected(c)
<1>1. OthersKept(w)
  BY WorkerKeeps DEF Callback, CInv
<1>2. /\ ~Idle(w) /\ wpc[w] = "closing" /\ wpc'[w] = "erase" /\ cur'[w] = cur[w]
      /\ UNCHANGED <<conn, rx, fdtab, peer, running>>
  BY DEF OnDisconnect, Idle, CInv, EInv, TypeOK, kernel, Goto
<1>3. PICK c \in Conns : c = fdtab[cur[w]]
  BY <1>2, CurOpen DEF CInv
<1>4. rx[c] = 0 /\ peer[c] # "open"
  BY <1>2, <1>3 DEF CInv, HandlerInv
<1>5. /\ Status(c) = "connected" /\ Status(c)' = "disconnected"
      /\ InFlight(c) = 0 /\ InFlight(c)' = 0
      /\ \A d \in Conns : d # c => Same(d)
  BY <1>1, <1>2, <1>3, <1>4, HandlerStep
<1>. QED
  BY <1>2, <1>4, <1>5, DisconnectedMaps

LEMMA RecvMaps ==
  ASSUME CInv, CInv', NEW w \in Workers, Recv(w)
  PROVE  UNCHANGED Service!svars
<1>1. OthersKept(w)
  BY WorkerKeeps DEF Loop, CInv
<1>2. ~Idle(w) /\ wpc[w] = "recv" /\ UNCHANGED <<conn, fdtab, peer, running>>
  BY DEF Recv, RecvData, RecvEnd, RecvAgain, Idle
<1>3. PICK c \in Conns : c = fdtab[cur[w]] /\ rx[c] \in Nat
  BY <1>2, CurOpen, EngineAssumption DEF CInv, EInv, TypeOK, EngineAssumption
<1>4. CASE RecvData(w, c)
  <2>1. /\ wpc'[w] = "read" /\ cur'[w] = cur[w] /\ rx'[c] + held'[w] = rx[c]
        /\ \A d \in Conns : d # c => rx'[d] = rx[d]
    BY <1>3, <1>4, EngineAssumption DEF RecvData, Goto, CInv, EInv, TypeOK, EngineAssumption
  <2>2. \A d \in Conns : Same(d)
    BY <1>1, <1>2, <1>3, <2>1, HandlerStep DEF Same
  <2>. QED
    BY <1>2, <2>2, StutterMaps
<1>5. CASE RecvEnd(w, c)
  <2>1. wpc'[w] = "closing" /\ cur'[w] = cur[w] /\ rx' = rx
    BY <1>5 DEF RecvEnd, Goto, CInv, EInv, TypeOK
  <2>2. \A d \in Conns : Same(d)
    BY <1>1, <1>2, <1>3, <2>1, HandlerStep DEF Same
  <2>. QED
    BY <1>2, <2>2, StutterMaps
<1>6. CASE RecvAgain(w, c)
  <2>1. cur'[w] = NoFd /\ rx' = rx
    BY <1>6 DEF RecvAgain, CInv, EInv, TypeOK
  <2>2. \A d \in Conns : Same(d)
    BY <1>1, <1>2, <1>3, <2>1, PutDown DEF Same
  <2>. QED
    BY <1>2, <2>2, StutterMaps
<1>. QED
  BY <1>3, <1>4, <1>5, <1>6 DEF Recv

LEMMA EraseMaps ==
  ASSUME CInv, CInv', NEW w \in Workers, Erase(w)
  PROVE  UNCHANGED Service!svars
<1>1. OthersKept(w)
  BY WorkerKeeps DEF Loop, CInv
<1>2. /\ ~Idle(w) /\ wpc[w] = "erase" /\ cur'[w] = NoFd
      /\ rx' = rx /\ peer' = peer /\ running' = running
  BY DEF Erase, Idle, CInv, EInv, TypeOK
<1>3. PICK c \in Conns : c = fdtab[cur[w]] /\ rx[c] \in Nat
  BY <1>2, CurOpen, EngineAssumption DEF CInv, EInv, TypeOK, EngineAssumption
<1>4. cur[w] \in Fds /\ c # NoConn
  BY <1>2, <1>3, CurOpen, EngineAssumption DEF CInv, EngineAssumption
<1>5. /\ conn'[c] = "closed" /\ \A d \in Conns : d # c => conn'[d] = conn[d]
      /\ \A f \in Fds : f # cur[w] => fdtab'[f] = fdtab[f]
  BY <1>3 DEF Erase, Closed, CInv, EInv, TypeOK
<1>6. Same(c)
  <2>1. Status(c) = "disconnected" /\ InFlight(c) = rx[c]
    BY <1>2, <1>3, <1>4, OpenMapped DEF CInv
  <2>2. Status(c)' = "disconnected" /\ InFlight(c)' = rx[c]
    BY <1>2, <1>5, OtherMappedNext DEF CInv
  <2>. QED
    BY <2>1, <2>2 DEF Same
<1>7. \A d \in Conns : d # c => Same(d)
  BY <1>1, <1>2, <1>3, <1>5, OtherConns, EngineAssumption DEF EngineAssumption
<1>. QED
  BY <1>2, <1>6, <1>7, StutterMaps

\* An accepted connection has had no callback yet; one that is not registered
\* never gets one.
LEMMA AcceptMaps ==
  ASSUME CInv, CInv', NEW w \in Workers, Accept(w)
  PROVE  UNCHANGED Service!svars \/ Service!Dropped
<1>1. OthersKept(w) /\ cur[w] = NoFd /\ peer' = peer /\ running' = running
  BY WorkerKeeps DEF Loop, CInv, EInv, CurInv, Idle, Accept
<1>2. CASE UNCHANGED <<wpc, cur, armed, kernel>>
  BY <1>1, <1>2, NoConns DEF kernel
<1>3. ASSUME NEW c \in backlog[w], NEW f \in Free, Register(w, c, f), rx' = rx
      PROVE  UNCHANGED Service!svars \/ Service!Dropped
  <2>1. /\ c \in Conns /\ f \in Fds /\ fdtab[f] = NoConn /\ conn[c] = "queued" /\ c # NoConn
        /\ \A g \in Fds : fdtab[g] # c
    <3>1. c \in Conns /\ f \in Fds /\ fdtab[f] = NoConn
      BY DEF Free, CInv, EInv, TypeOK
    <3>2. conn[c] = "queued" /\ c # NoConn
      BY <3>1, EngineAssumption DEF CInv, EInv, ConnInv, EngineAssumption
    <3>3. \A g \in Fds : fdtab[g] # NoConn => conn[fdtab[g]] = "open"
      BY DEF CInv, EInv, ConnInv
    <3>. QED
      BY <3>1, <3>2, <3>3
  <2>2. Status(c) = "none" /\ InFlight(c) = rx[c] /\ rx[c] \in Nat
    BY <2>1, OtherMapped, EngineAssumption DEF CInv, EInv, TypeOK, EngineAssumption
  <2>3. CASE conn' = [conn EXCEPT ![c] = "dropped"] /\ UNCHANGED <<cur, fdtab>>
    <3>1. conn'[c] = "dropped" /\ \A d \in Conns : d # c => conn'[d] = conn[d]
      BY <2>1, <2>3 DEF CInv, EInv, TypeOK
    <3>2. Status(c)' = "dropped" /\ InFlight(c)' = rx[c]
      BY <1>3, <2>1, <3>1, OtherMappedNext DEF CInv
    <3>3. \A d \in Conns : d # c => Same(d)
      BY <1>1, <1>3, <2>3, <3>1, OtherConns, EngineAssumption DEF EngineAssumption
    <3>4. Service!Dropped
      <4>. DEFINE lost == {c}
      <4>1. lost \in SUBSET Conns /\ \A d \in Conns : d \notin lost => Same(d)
        BY <2>1, <3>3
      <4>2. \A d \in lost : Status(d) = "none"
        BY <2>2
      <4>3. \A d \in lost : Status(d)' = "dropped" /\ InFlight(d)' = InFlight(d)
        BY <2>2, <3>2
      <4>. HIDE DEF lost
      <4>. QED
        BY <1>1, <4>1, <4>2, <4>3, DroppedMaps
    <3>. QED
      BY <3>4
  <2>4. CASE /\ fdtab' = [fdtab EXCEPT ![f] = c] /\ conn' = [conn EXCEPT ![c] = "open"]
             /\ cur' = [cur EXCEPT ![w] = f] /\ Goto(w, "connect")
    <3>1. /\ fdtab'[f] = c /\ cur'[w] = f /\ wpc'[w] = "connect"
          /\ \A d \in Conns : d # c => conn'[d] = conn[d]
          /\ \A g \in Fds : g # f => fdtab'[g] = fdtab[g]
      BY <2>1, <2>4 DEF Goto, CInv, EInv, TypeOK
    <3>2. Status(c)' = "none" /\ InFlight(c)' = rx'[c] + 0
      BY <2>1, <3>1, OpenMappedNext DEF CInv
    <3>3. Same(c)
      BY <1>3, <2>2, <3>2 DEF Same
    <3>4. \A d \in Conns : d # c => Same(d)
      BY <1>1, <1>3, <2>1, <3>1, OtherConns, EngineAssumption DEF EngineAssumption
    <3>. QED
      BY <1>1, <3>3, <3>4, StutterMaps
  <2>. QED
    BY <1>3, <2>3, <2>4 DEF Register
<1>. QED
  BY <1>1, <1>2, <1>3 DEF Accept

\* A worker that leaves its loop gives up the connections it has and those of
\* its accept queue; it has none before the loop, and leaves the loop only
\* when the server has been stopped or epoll_wait failed.
LEMMA LeaveMaps ==
  ASSUME CInv, CInv', NEW w \in Workers, Leave(w),
         wpc[w] \in {"epoll", "loop", "wait"},
         wpc[w] = "loop" => ~running, wpc[w] = "wait" => "wait" \in Faults,
         peer' = peer, running' = running
  PROVE  Service!Dropped
<1>. DEFINE lost == {c \in Conns : c \in backlog[w] \/ \E f \in clients[w] : fdtab[f] = c}
<1>1. OthersKept(w) /\ cur[w] = NoFd /\ cur' = cur /\ rx' = rx
  BY LeaveKeeps DEF CInv, EInv, CurInv, Idle, Leave
<1>2. ASSUME NEW c \in Conns, c \notin lost
      PROVE  Same(c)
  <2>1. conn'[c] = conn[c] /\ \A f \in Fds : fdtab[f] = c => fdtab'[f] = c
    BY <1>2 DEF Leave, Closed
  <2>. QED
    BY <1>1, <2>1, OtherConns, EngineAssumption DEF EngineAssumption
<1>3. ASSUME NEW c \in lost
      PROVE  /\ \/ Status(c) = "none"
                \/ Status(c) = "connected" /\ (~running \/ "wait" \in Faults)
             /\ Status(c)' = "dropped" /\ InFlight(c)' = InFlight(c)
  <2>1. Status(c)' = "dropped" /\ InFlight(c)' = rx[c]
    <3>1. c \in Conns /\ conn'[c] = "dropped" /\ rx'[c] = rx[c]
      BY <1>1 DEF Leave
    <3>. QED
      BY <3>1, OtherMappedNext DEF CInv
  <2>2. CASE c \in backlog[w]
    <3>1. c \in Conns /\ conn[c] = "queued"
      BY <2>2 DEF CInv, EInv, ConnInv
    <3>. QED
      BY <2>1, <3>1, OtherMapped DEF CInv
  <2>3. CASE \E f \in clients[w] : fdtab[f] = c
    <3>1. PICK f \in clients[w] : fdtab[f] = c /\ f \in Fds /\ c # NoConn
      BY <2>3, EngineAssumption DEF CInv, EInv, TypeOK, EngineAssumption
    <3>2. \A v \in Workers : cur[v] # f
      <4>1. ASSUME NEW v \in Workers, cur[v] = f, v # w PROVE FALSE
        <5>1. ~Idle(v)
          BY <3>1, <4>1, EngineAssumption DEF CInv, EInv, CurInv, EngineAssumption
        <5>. QED
          BY <3>1, <4>1, <5>1, CurOpen DEF CInv, Owned
      <4>. QED
        BY <1>1, <3>1, <4>1, EngineAssumption DEF EngineAssumption
    <3>3. Status(c) = "connected" /\ InFlight(c) = rx[c]
      BY <3>1, <3>2, OpenMapped DEF CInv
    <3>4. ~running \/ "wait" \in Faults
      BY <3>1 DEF CInv, HandlerInv
    <3>. QED
      BY <2>1, <3>3, <3>4
  <2>. QED
    BY <2>2, <2>3
<1>4. lost \in SUBSET Conns
  OBVIOUS
<1>. HIDE DEF lost
<1>. QED
  BY <1>2, <1>3, <1>4, DroppedMaps

\* The rest of the loop moves between places where the worker has no event.
LEMMA LoopMaps ==
  ASSUME CInv, CInv', NEW w \in Workers, Loop(w)
  PROVE  UNCHANGED Service!svars \/ Service!Dropped
<1>1. OthersKept(w) /\ peer' = peer /\ running' = running
  BY WorkerKeeps DEF CInv, Loop, Bind, EpollSetup, TestRunning, EpollWait, EndOfBatch, Accept,
     ClientEvent, Recv, Erase
<1>2. CASE (EpollSetup(w) \/ TestRunning(w) \/ EpollWait(w)) /\ Leave(w)
  <2>1. \/ wpc[w] = "epoll"
        \/ wpc[w] = "loop" /\ ~running
        \/ wpc[w] = "wait" /\ "wait" \in Faults
    <3>1. wpc'[w] = "exited"
      BY <1>2 DEF Leave, Goto, CInv, EInv, TypeOK
    <3>. QED
      BY <1>2, <3>1 DEF EpollSetup, TestRunning, EpollWait, Timeout, Goto, CInv, EInv, TypeOK
  <2>. QED
    BY <1>1, <1>2, <2>1, LeaveMaps
<1>3. CASE \/ Bind(w) \/ EndOfBatch(w)
           \/ (EpollSetup(w) \/ TestRunning(w) \/ EpollWait(w)) /\ ~Leave(w)
  <2>1. cur' = cur /\ cur[w] = NoFd
    BY <1>3 DEF Bind, EndOfBatch, EpollSetup, TestRunning, EpollWait, Timeout, CInv, EInv,
       CurInv, Idle
  <2>2. UNCHANGED kernel
    BY <1>3 DEF Bind, EndOfBatch, EpollSetup, TestRunning, EpollWait, Timeout
  <2>. QED
    BY <1>1, <2>1, <2>2, NoConns DEF kernel
<1>4. CASE Accept(w)
  BY <1>4, AcceptMaps
<1>5. CASE ClientEvent(w)
  BY <1>5, TakenUp
<1>6. CASE Recv(w)
  BY <1>6, RecvMaps
<1>7. CASE Erase(w)
  BY <1>7, EraseMaps
<1>. QED
  BY <1>2, <1>3, <1>4, <1>5, <1>6, <1>7 DEF Loop

-----------------------------------------------------------------------------
(* The clients and stop. *)

LEMMA ClientMaps ==
  ASSUME CInv, CInv', NEW c \in Conns, Client(c)
  PROVE  UNCHANGED Service!svars \/ Service!Sent(c) \/ Service!PeerEnds(c)
<1>1. UNCHANGED <<wpc, cur, held, fdtab, running>>
  BY DEF Client, ClientConnects, ClientSends, ClientCloses, ClientResets, worker, kernel
<1>2. /\ \A d \in Conns : d # c => conn'[d] = conn[d] /\ rx'[d] = rx[d]
      /\ rx[c] \in Nat
  BY EngineAssumption DEF Client, ClientConnects, ClientSends, ClientCloses, ClientResets,
     kernel, CInv, EInv, TypeOK, EngineAssumption
<1>3. \A d \in Conns : d # c => Same(d)
  BY <1>1, <1>2, Unconcerned DEF Same
<1>4. CASE ClientConnects(c)
  <2>1. conn[c] = "idle" /\ conn'[c] = "queued" /\ rx' = rx /\ peer' = peer
    BY <1>4 DEF ClientConnects, CInv, EInv, TypeOK
  <2>2. Same(c)
    BY <2>1, OtherMapped, OtherMappedNext DEF CInv, Same
  <2>. QED
    BY <1>1, <1>3, <2>1, <2>2, StutterMaps
<1>5. CASE ClientCloses(c)
  <2>1. /\ peer[c] = "open" /\ peer' = [peer EXCEPT ![c] = "closed"]
        /\ conn' = conn /\ rx' = rx
    BY <1>5 DEF ClientCloses, kernel
  <2>2. Same(c)
    BY <1>1, <2>1, Unconcerned DEF Same
  <2>. QED
    BY <1>1, <1>3, <2>1, <2>2, ClosedMaps
<1>6. ASSUME conn' = conn, conn[c] \in {"queued", "open"}, rx'[c] \in Nat
      PROVE  \E n \in Nat :
               /\ Status(c)' = Status(c)
               /\ InFlight(c) = rx[c] + n /\ InFlight(c)' = rx'[c] + n
  <2>1. CASE conn[c] = "queued"
    <3>1. Status(c) = "none" /\ InFlight(c) = rx[c]
      BY <2>1, OtherMapped DEF CInv
    <3>2. Status(c)' = "none" /\ InFlight(c)' = rx'[c]
      BY <1>6, <2>1, OtherMappedNext DEF CInv
    <3>. QED
      BY <1>2, <1>6, <3>1, <3>2
  <2>2. CASE conn[c] = "open"
    <3>1. PICK f \in Fds : fdtab[f] = c /\ fdtab'[f] = c /\ c # NoConn
      BY <1>1, <2>2, EngineAssumption DEF CInv, OpenInv, EngineAssumption
    <3>2. CASE \E w \in Workers : cur[w] = f
      <4>1. PICK w \in Workers : cur[w] = f /\ cur'[w] = f
        BY <1>1, <3>2
      <4>2. PICK n \in Nat : n = IF wpc[w] = "read" THEN held[w] ELSE 0
        BY EngineAssumption DEF CInv, EInv, TypeOK, EngineAssumption
      <4>3. Status(c) = IF wpc[w] = "connect" THEN "none"
                        ELSE IF wpc[w] = "erase" THEN "disconnected" ELSE "connected"
        BY <3>1, <4>1, OpenMapped DEF CInv
      <4>4. InFlight(c) = rx[c] + n
        BY <3>1, <4>1, <4>2, OpenMapped DEF CInv
      <4>5. Status(c)' = Status(c)
        BY <1>1, <3>1, <4>1, <4>3, OpenMappedNext DEF CInv
      <4>6. InFlight(c)' = rx'[c] + n
        BY <1>1, <3>1, <4>1, <4>2, OpenMappedNext DEF CInv
      <4>. QED
        BY <4>4, <4>5, <4>6
    <3>3. CASE \A w \in Workers : cur[w] # f
      <4>1. \A w \in Workers : cur'[w] # f
        BY <1>1, <3>3
      <4>2. Status(c) = "connected" /\ InFlight(c) = rx[c]
        BY <3>1, <3>3, OpenMapped DEF CInv
      <4>3. Status(c)' = "connected" /\ InFlight(c)' = rx'[c]
        BY <3>1, <4>1, OpenMappedNext DEF CInv
      <4>. QED
        BY <1>2, <1>6, <4>2, <4>3
    <3>. QED
      BY <3>2, <3>3
  <2>. QED
    BY <1>6, <2>1, <2>2
<1>7. CASE ClientSends(c)
  <2>1. /\ conn' = conn /\ conn[c] \in {"queued", "open"} /\ rx'[c] = rx[c] + 1
        /\ peer[c] = "open" /\ peer' = peer
    BY <1>7 DEF ClientSends, CInv, EInv, TypeOK
  <2>2. Status(c)' = Status(c) /\ InFlight(c)' = InFlight(c) + 1
    <3>1. PICK n \in Nat :
            /\ Status(c)' = Status(c)
            /\ InFlight(c) = rx[c] + n /\ InFlight(c)' = rx'[c] + n
      BY <1>2, <1>6, <2>1
    <3>. QED
      BY <1>2, <2>1, <3>1
  <2>. QED
    BY <1>1, <1>3, <2>1, <2>2, SentMaps
<1>8. CASE ClientResets(c)
  <2>1. /\ conn' = conn /\ conn[c] \in {"queued", "open"} /\ rx'[c] \in {0, rx[c]}
        /\ peer[c] # "reset" /\ peer' = [peer EXCEPT ![c] = "reset"]
    BY <1>8 DEF ClientResets, CInv, EInv, TypeOK
  <2>2. PICK n \in Nat :
          /\ Status(c)' = Status(c)
          /\ InFlight(c) = rx[c] + n /\ InFlight(c)' = rx'[c] + n
    BY <1>2, <1>6, <2>1
  <2>3. PICK m \in 0 .. InFlight(c) : InFlight(c)' = m
    BY <1>2, <2>1, <2>2
  <2>. QED
    BY <1>1, <1>3, <2>1, <2>2, <2>3, ResetMaps
<1>. QED
  BY <1>4, <1>5, <1>7, <1>8 DEF Client

LEMMA NextMaps ==
  ASSUME CInv, CInv', [Next]_vars
  PROVE  [Service!SNext]_Service!svars
<1>1. CASE UNCHANGED vars
  <2>1. \A c \in Conns : Same(c)
    BY <1>1, Unconcerned DEF vars, worker, kernel, Same
  <2>. QED
    BY <1>1, <2>1, StutterMaps DEF vars
<1>2. CASE Stop
  <2>1. \A c \in Conns : Same(c)
    BY <1>2, Unconcerned DEF Stop, worker, kernel, Same
  <2>2. Service!Stopped
    BY <1>2, <2>1 DEF Stop, Same, Service!Stopped
  <2>. QED
    BY <2>2 DEF Service!SNext
<1>3. ASSUME NEW c \in Conns, Client(c)
      PROVE  [Service!SNext]_Service!svars
  BY <1>3, ClientMaps DEF Service!SNext
<1>4. ASSUME NEW w \in Workers, Loop(w)
      PROVE  [Service!SNext]_Service!svars
  BY <1>4, LoopMaps DEF Service!SNext
<1>5. ASSUME NEW w \in Workers, Callback(w)
      PROVE  [Service!SNext]_Service!svars
  BY <1>5, OnConnectMaps, OnReadMaps, OnDisconnectMaps DEF Callback, Service!SNext
<1>. QED
  BY <1>1, <1>2, <1>3, <1>4, <1>5 DEF Next

\* The engine gives every connection on_connect once, then on_read for all it
\* sent and in that order, then on_disconnect once, and nothing after that;
\* one it gives up without on_disconnect had not been registered, or belongs
\* to a worker that leaves its loop (MultiReactorServer.cpp:56-130).
THEOREM CallbacksInOrder == Spec => CallbackProtocol
<1>1. Init => Service!SInit
  <2>. SUFFICES ASSUME Init PROVE Service!SInit
    OBVIOUS
  <2>1. CInv
    BY InitCInv
  <2>2. \A c \in Conns : Status(c) = "none" /\ InFlight(c) = 0
    BY <2>1, OtherMapped DEF Init, CInv
  <2>. QED
    BY <2>2 DEF Init, Service!SInit
<1>2. CInv /\ CInv' /\ [Next]_vars => [Service!SNext]_Service!svars
  BY NextMaps
<1>. QED
  BY <1>1, <1>2, AlwaysCInv, PTL DEF Spec, CallbackProtocol, Service!SSpec
=============================================================================
