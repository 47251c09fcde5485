-------------------------- MODULE HttpServer_proofs --------------------------
(***************************************************************************)
(* The callbacks of 10_HTTP/server.cpp drive the engine only through the   *)
(* returns of OnConnect, OnRead and OnDisconnect, so every behaviour of    *)
(* HttpServer is a behaviour of MultiReactorServer, and what is proved of  *)
(* the engine holds of the HTTP server.  Then what the application adds:   *)
(* its sessions, the types of its variables, and its responses.            *)
(***************************************************************************)
EXTENDS HttpServer, ConnectionService_proofs, SequenceTheorems

\* Each part of a callback is a stuttering step of the engine or the return
\* of the callback.
LEMMA CallbackStep ==
  ASSUME NEW w \in Workers, HttpCallback(w)
  PROVE  Callback(w) \/ UNCHANGED vars
  <1>1. CASE BeginConnect(w) \/ BeginRead(w) \/ BeginDisconnect(w)
    BY <1>1 DEF BeginConnect, BeginRead, BeginDisconnect, Enter
  <1>2. CASE EndConnect(w)
    BY <1>2 DEF EndConnect, Callback
  <1>3. CASE EndFind(w)
    BY <1>3 DEF EndFind, Callback
  <1>4. CASE Reply(w)
    BY <1>4 DEF Reply
  <1>5. CASE EndRead(w)
    BY <1>5 DEF EndRead, Callback
  <1>6. CASE EndDisconnect(w)
    BY <1>6 DEF EndDisconnect, Callback
  <1> QED
    BY <1>1, <1>2, <1>3, <1>4, <1>5, <1>6 DEF HttpCallback

\* Every step of the HTTP server is a step of the engine or leaves it alone.
LEMMA StepRefines ==
  ASSUME [HNext]_hvars
  PROVE  [Next]_vars
  <1>1. CASE UNCHANGED hvars
    BY <1>1 DEF hvars
  <1>2. CASE EngineStep
    BY <1>2 DEF EngineStep, Next, Client
  <1>3. ASSUME NEW c \in Conns, Request(c)
        PROVE  [Next]_vars
    BY <1>3 DEF Request, Next, Client
  <1>4. ASSUME NEW c \in Conns, ReadResponse(c)
        PROVE  [Next]_vars
    BY <1>4 DEF ReadResponse
  <1>5. ASSUME NEW w \in Workers, HttpCallback(w)
        PROVE  [Next]_vars
    BY <1>5, CallbackStep DEF Next
  <1>6. ASSUME NEW w \in Workers, Crash(w)
        PROVE  [Next]_vars
    BY <1>6 DEF Crash
  <1> QED
    BY <1>1, <1>2, <1>3, <1>4, <1>5, <1>6 DEF HNext

\* The HTTP server is an instance of the engine: its callbacks
\* (server.cpp:40-66) return to the engine as workerLoop expects and change
\* nothing of its state, overlapping map operations included.
THEOREM HttpServerRefinesEngine == HSpec => Spec
  <1>1. HInit => Init
    BY DEF HInit
  <1>2. [HNext]_hvars => [Next]_vars
    BY StepRefines
  <1> QED
    BY <1>1, <1>2, PTL DEF HSpec, Spec

\* So the callbacks of server.cpp are called for each connection as
\* ConnectionService says, whatever the map operations they race in do.
THEOREM HttpCallbacksInOrder == HSpec => CallbackProtocol
  BY HttpServerRefinesEngine, CallbacksInOrder

-----------------------------------------------------------------------------
(* The sessions.  SessionsExact is inductive together with EInv and with    *)
(* three facts about the callbacks in progress.                             *)

\* A worker is in an operation of the map in the callback that calls it.
CallInv ==
  /\ using \in [Workers -> {"none", "emplace", "find", "erase", "reply"}]
  /\ \A w \in Workers :
       /\ using[w] = "emplace" => wpc[w] = "connect"
       /\ using[w] \in {"find", "reply"} => wpc[w] = "read"
       /\ using[w] = "erase" => wpc[w] = "closing"

RaceInv == ~raced => racing = {}

\* Of a connection that has no session yet on_read has read nothing.
FreshInv ==
  /\ part \in [Conns -> Int]
  /\ \A c \in Conns : conn[c] \in {"idle", "queued"} => part[c] = 0
  /\ \A w \in Workers : wpc[w] = "connect" => part[fdtab[cur[w]]] = 0

HInv == EInv /\ CallInv /\ RaceInv /\ FreshInv /\ SessionsExact

\* In a handler, the worker owns the descriptor it handles, and it alone.
LEMMA HandledDescriptor ==
  ASSUME EInv, NEW w \in Workers, ~Idle(w)
  PROVE  /\ cur[w] \in Fds
         /\ cur[w] \in Owned(w)
         /\ fdtab[cur[w]] \in Conns
         /\ conn[fdtab[cur[w]]] = "open"
         /\ \A v \in Workers : v # w => cur[w] \notin Owned(v)
  <1>1. cur[w] \in Fds
    BY DEF EInv, CurInv, TypeOK
  <1>2. cur[w] \in Owned(w)
    BY DEF EInv, CurInv, TypeOK, Idle, Handlers, Owned
  <1>3. fdtab[cur[w]] # NoConn
    BY <1>2 DEF EInv, OwnerInv
  <1> QED
    BY <1>1, <1>2, <1>3 DEF EInv, TypeOK, OwnerInv, ConnInv

\* What a step of the engine outside the callbacks keeps.
LEMMA LoopKnown ==
  ASSUME EInv, NEW w \in Workers, Loop(w), wpc'[w] # "exited", NEW f \in Fds
  PROVE  /\ Known(f)' <=> Known(f)
         /\ Known(f) => fdtab'[f] = fdtab[f]
  <1>1. CASE Accept(w)
    BY <1>1 DEF Accept, Register, Known, EInv, TypeOK, OwnerInv, Owned, Free, Goto, kernel
  <1>2. CASE Erase(w)
    <2>1. ~Idle(w)
      BY <1>2 DEF Erase, Idle
    <2> QED
      BY <1>2, <2>1, HandledDescriptor DEF Erase, Closed, Known, EInv, TypeOK, Owned, Goto
  <1>3. CASE Recv(w)
    BY <1>3 DEF Recv, RecvData, RecvEnd, RecvAgain, Known, EInv, TypeOK, Goto
  <1>4. CASE ClientEvent(w)
    BY <1>4 DEF ClientEvent, Known, EInv, TypeOK, Goto, kernel
  <1>5. CASE EpollWait(w)
    BY <1>5 DEF EpollWait, Timeout, Leave, Known, EInv, TypeOK, Goto, kernel
  <1>6. CASE Bind(w) \/ EpollSetup(w) \/ TestRunning(w) \/ EndOfBatch(w)
    BY <1>6 DEF Bind, EpollSetup, TestRunning, EndOfBatch, Leave, Known, EInv, TypeOK,
       Goto, kernel
  <1> QED
    BY <1>1, <1>2, <1>3, <1>4, <1>5, <1>6 DEF Loop

\* The engine moves no worker that is in an operation of the map.
LEMMA LoopCalls ==
  ASSUME EInv, CallInv, NEW w \in Workers, Loop(w), UNCHANGED using
  PROVE  CallInv'
  <1>1. wpc[w] \notin {"connect", "read", "closing"}
    BY DEF Loop, Bind, EpollSetup, TestRunning, EpollWait, EndOfBatch, Accept,
       ClientEvent, Recv, Erase
  <1>2. \A v \in Workers : v # w => wpc'[v] = wpc[v]
    BY DEF Loop, Bind, EpollSetup, TestRunning, EpollWait, Timeout, EndOfBatch, Accept,
       Register, ClientEvent, Recv, RecvData, RecvEnd, RecvAgain, Erase, Leave, Goto,
       EInv, TypeOK
  <1> QED
    BY <1>1, <1>2 DEF CallInv

LEMMA LoopFresh ==
  ASSUME EInv, FreshInv, NEW w \in Workers, Loop(w), UNCHANGED part
  PROVE  FreshInv'
  <1>1. CASE Accept(w)
    <2>1. CASE Free = {} /\ UNCHANGED <<wpc, cur, armed, kernel>>
      BY <2>1 DEF FreshInv, kernel
    <2>2. ASSUME NEW c \in backlog[w], NEW f \in Free, Register(w, c, f)
          PROVE  FreshInv'
      <3>1. c \in Conns /\ conn[c] = "queued" /\ f \in Fds /\ fdtab[f] = NoConn
        BY DEF EInv, TypeOK, ConnInv, Free
      <3>2. \A d \in Conns : conn'[d] \in {"idle", "queued"} => conn[d] \in {"idle", "queued"}
        BY <2>2, <3>1 DEF Register, EInv, TypeOK
      <3>3. \A v \in Workers : wpc[v] = "connect" => f # cur[v]
        BY <3>1, HandledDescriptor, EngineAssumption DEF Idle, EngineAssumption
      <3>4. ASSUME NEW v \in Workers, wpc'[v] = "connect"
            PROVE  part[fdtab'[cur'[v]]] = 0
        <4>1. CASE v = w /\ wpc'[w] # wpc[w]
          BY <2>2, <3>1, <4>1 DEF Register, FreshInv, EInv, TypeOK, Goto
        <4>2. CASE v # w \/ wpc'[w] = wpc[w]
          BY <1>1, <2>2, <3>3, <3>4, <4>2, HandledDescriptor
             DEF Register, Accept, FreshInv, EInv, TypeOK, Goto, Idle
        <4> QED
          BY <4>1, <4>2
      <3> QED
        BY <3>2, <3>4 DEF FreshInv
    <2> QED
      BY <1>1, <2>1, <2>2 DEF Accept
  <1>2. ASSUME Leave(w), wpc[w] \in {"epoll", "loop", "wait"}
        PROVE  FreshInv'
    <2>1. \A d \in Conns : conn'[d] \in {"idle", "queued"} => conn'[d] = conn[d]
      BY <1>2 DEF Leave
    <2>2. ASSUME NEW v \in Workers, wpc'[v] = "connect"
          PROVE  v # w /\ wpc[v] = "connect" /\ fdtab'[cur'[v]] = fdtab[cur[v]]
      <3>1. v # w /\ wpc[v] = "connect" /\ cur' = cur
        BY <1>2, <2>2 DEF Leave, Goto, EInv, TypeOK
      <3>2. cur[v] \in Fds /\ cur[v] \notin clients[w]
        BY <3>1, HandledDescriptor DEF Idle, Owned
      <3> QED
        BY <1>2, <3>1, <3>2 DEF Leave, Closed
    <2> QED
      BY <2>1, <2>2 DEF FreshInv
  <1>3. CASE Erase(w)
    <2>1. cur[w] \in Fds /\ ~Idle(w) /\ fdtab[cur[w]] \in Conns
      BY <1>3, HandledDescriptor DEF Erase, Idle
    <2>2. \A d \in Conns : conn'[d] \in {"idle", "queued"} => conn'[d] = conn[d]
      BY <1>3, <2>1 DEF Erase, EInv, TypeOK
    <2>3. ASSUME NEW v \in Workers, wpc'[v] = "connect"
          PROVE  v # w /\ wpc[v] = "connect" /\ fdtab'[cur'[v]] = fdtab[cur[v]]
      <3>1. v # w /\ wpc[v] = "connect" /\ cur'[v] = cur[v]
        BY <1>3, <2>3 DEF Erase, Goto, EInv, TypeOK
      <3>2. cur[v] \in Fds /\ cur[v] # cur[w]
        BY <2>1, <3>1, HandledDescriptor DEF Idle
      <3> QED
        BY <1>3, <3>1, <3>2 DEF Erase, Closed
    <2> QED
      BY <2>2, <2>3 DEF FreshInv
  <1>4. ASSUME UNCHANGED <<conn, fdtab>>,
               \A v \in Workers : wpc'[v] = "connect" => wpc[v] = "connect" /\ cur'[v] = cur[v]
        PROVE  FreshInv'
    BY <1>4 DEF FreshInv
  <1>5. CASE Recv(w)
    BY <1>4, <1>5 DEF Recv, RecvData, RecvEnd, RecvAgain, EInv, TypeOK, Goto
  <1>6. CASE ClientEvent(w)
    BY <1>4, <1>6 DEF ClientEvent, EInv, TypeOK, Goto, kernel
  <1>7. CASE Bind(w) \/ EndOfBatch(w)
    BY <1>4, <1>7 DEF Bind, EndOfBatch, EInv, TypeOK, Goto, kernel
  <1>8. CASE EpollSetup(w) \/ TestRunning(w)
    BY <1>2, <1>4, <1>8 DEF EpollSetup, TestRunning, EInv, TypeOK, Goto, kernel
  <1>9. CASE EpollWait(w)
    BY <1>2, <1>4, <1>9 DEF EpollWait, Timeout, EInv, TypeOK, Goto, kernel
  <1> QED
    BY <1>1, <1>3, <1>5, <1>6, <1>7, <1>8, <1>9 DEF Loop

\* The engine's steps and the clients' leave the map alone.
LEMMA EngineSessions ==
  ASSUME HInv, EngineStep
  PROVE  CallInv' /\ RaceInv' /\ FreshInv' /\ SessionsExact'
  <1>0. UNCHANGED <<sessions, using, racing, raced, part>>
    BY DEF EngineStep, app, map
  <1>1. RaceInv'
    BY <1>0 DEF HInv, RaceInv
  <1>2. CASE Stop
    BY <1>0, <1>1, <1>2 DEF Stop, HInv, CallInv, FreshInv, SessionsExact, Known, worker, kernel
  <1>3. ASSUME NEW c \in Conns, ClientConnects(c) \/ ClientCloses(c) \/ ClientResets(c)
        PROVE  CallInv' /\ FreshInv' /\ SessionsExact'
    <2>1. UNCHANGED <<worker, fdtab>>
      BY <1>3 DEF ClientConnects, ClientCloses, ClientResets, kernel
    <2>2. \A d \in Conns : conn'[d] \in {"idle", "queued"} => conn[d] \in {"idle", "queued"}
      BY <1>3 DEF ClientConnects, ClientCloses, ClientResets, kernel, HInv, EInv, TypeOK
    <2> QED
      BY <1>0, <2>1, <2>2 DEF HInv, CallInv, FreshInv, SessionsExact, Known, worker
  <1>4. ASSUME NEW w \in Workers, Loop(w)
        PROVE  CallInv' /\ FreshInv' /\ SessionsExact'
    <2>1. CallInv'
      BY <1>0, <1>4, LoopCalls DEF HInv
    <2>2. FreshInv'
      BY <1>0, <1>4, LoopFresh DEF HInv
    <2>3. SUFFICES ASSUME ~raced', \A v \in Workers : wpc'[v] # "exited", NEW f \in Fds
                   PROVE  /\ f \in DOMAIN sessions' <=> Known(f)'
                          /\ f \in DOMAIN sessions' => sessions'[f] = part'[fdtab'[f]]
      BY <2>1, <2>2 DEF SessionsExact
    <2>4. \A v \in Workers : wpc[v] # "exited"
      BY <1>4, <2>3 DEF Loop, Bind, EpollSetup, TestRunning, EpollWait, Timeout, EndOfBatch,
         Accept, Register, ClientEvent, Recv, RecvData, RecvEnd, RecvAgain, Erase, Leave,
         Goto, HInv, EInv, TypeOK
    <2> QED
      BY <1>0, <1>4, <2>3, <2>4, LoopKnown DEF HInv, SessionsExact
  <1> QED
    BY <1>1, <1>2, <1>3, <1>4 DEF EngineStep

\* Steps that change neither the engine nor the sessions.
LEMMA QuietSessions ==
  ASSUME HInv, UNCHANGED <<vars, sessions, part>>, CallInv', RaceInv', raced => raced'
  PROVE  FreshInv' /\ SessionsExact'
  <1>1. UNCHANGED <<conn, wpc, cur, clients, fdtab>>
    BY DEF vars, worker, kernel
  <1> QED
    BY <1>1 DEF HInv, FreshInv, SessionsExact, Known

LEMMA EnterSessions ==
  ASSUME HInv, NEW w \in Workers, NEW op \in {"emplace", "find", "erase"}, Enter(w, op),
         /\ op = "emplace" => wpc[w] = "connect"
         /\ op = "find" => wpc[w] = "read"
         /\ op = "erase" => wpc[w] = "closing"
  PROVE  CallInv' /\ RaceInv' /\ FreshInv' /\ SessionsExact'
  <1>1. UNCHANGED <<vars, sessions, part>> /\ (raced => raced')
    BY DEF Enter, client
  <1>2. RaceInv'
    BY DEF HInv, RaceInv, Enter
  <1>3. wpc' = wpc
    BY <1>1 DEF vars, worker
  <1>4. /\ using' \in [Workers -> {"none", "emplace", "find", "erase", "reply"}]
        /\ \A v \in Workers : v # w => using'[v] = using[v]
        /\ using'[w] = op
    BY DEF Enter, HInv, CallInv
  <1>5. CallInv'
    BY <1>3, <1>4 DEF HInv, CallInv
  <1> QED
    BY <1>1, <1>2, <1>5, QuietSessions

\* The return of a callback: no other worker's client or call is touched.
LEMMA ReturnFacts ==
  ASSUME HInv, NEW w \in Workers, OnConnect(w) \/ OnRead(w) \/ OnDisconnect(w),
         using[w] # "none",
         using' = [using EXCEPT ![w] = "none"]
  PROVE  /\ CallInv'
         /\ UNCHANGED <<conn, fdtab>>
         /\ \A v \in Workers : wpc'[v] = "connect" =>
              v # w /\ wpc[v] = "connect" /\ cur'[v] = cur[v]
         /\ (\A v \in Workers : wpc'[v] # "exited") => \A v \in Workers : wpc[v] # "exited"
  BY DEF OnConnect, OnRead, OnDisconnect, Goto, kernel, HInv, EInv, TypeOK, CallInv

\* sessions.emplace: the key was free, as no earlier owner of the descriptor
\* has left a session behind.
LEMMA EndConnectSessions ==
  ASSUME HInv, NEW w \in Workers, EndConnect(w)
  PROVE  CallInv' /\ RaceInv' /\ FreshInv' /\ SessionsExact'
  <1>1. RaceInv' /\ raced' = raced
    BY DEF HInv, RaceInv, EndConnect, Return
  <1>2. /\ OnConnect(w) /\ using[w] # "none" /\ using' = [using EXCEPT ![w] = "none"]
        /\ part' = part /\ wpc[w] = "connect"
    BY DEF EndConnect, Return, OnConnect
  <1>3. /\ CallInv'
        /\ UNCHANGED <<conn, fdtab>>
        /\ \A v \in Workers : wpc'[v] = "connect" =>
             v # w /\ wpc[v] = "connect" /\ cur'[v] = cur[v]
        /\ (\A v \in Workers : wpc'[v] # "exited") => \A v \in Workers : wpc[v] # "exited"
    BY <1>2, ReturnFacts
  <1>4. FreshInv'
    BY <1>2, <1>3 DEF HInv, FreshInv
  <1>5. SUFFICES ASSUME ~raced', \A v \in Workers : wpc'[v] # "exited", NEW f \in Fds
                 PROVE  /\ f \in DOMAIN sessions' <=> Known(f)'
                        /\ f \in DOMAIN sessions' => sessions'[f] = part'[fdtab'[f]]
    BY <1>1, <1>3, <1>4 DEF SessionsExact
  <1>6. sessions' = Emplaced(cur[w])
    BY <1>1, <1>5 DEF HInv, RaceInv, EndConnect
  <1>7. /\ f \in DOMAIN sessions <=> Known(f)
        /\ f \in DOMAIN sessions => sessions[f] = part[fdtab[f]]
    BY <1>1, <1>3, <1>5 DEF HInv, SessionsExact
  <1>8. cur[w] \in Fds /\ \A v \in Workers : cur[w] \notin clients[v]
    BY <1>2, HandledDescriptor DEF HInv, EInv, CurInv, Idle, Owned
  <1>9. /\ clients'[w] = clients[w] \cup {cur[w]}
        /\ cur'[w] = NoFd
        /\ \A v \in Workers : v # w => /\ clients'[v] = clients[v] /\ cur'[v] = cur[v]
                                      /\ wpc'[v] = wpc[v]
    BY <1>2 DEF OnConnect, HInv, EInv, TypeOK, Goto
  <1>10. CASE f = cur[w]
    <2>1. f \notin DOMAIN sessions
      BY <1>7, <1>8, <1>10 DEF Known
    <2>2. f \in DOMAIN sessions' /\ sessions'[f] = 0
      BY <1>6, <1>10, <2>1 DEF Emplaced
    <2>3. part'[fdtab'[f]] = 0
      BY <1>2, <1>3, <1>10 DEF HInv, FreshInv
    <2>4. Known(f)'
      BY <1>8, <1>9, <1>10, EngineAssumption DEF Known, EngineAssumption
    <2> QED
      BY <2>2, <2>3, <2>4
  <1>11. CASE f # cur[w]
    <2>1. /\ f \in DOMAIN sessions' <=> f \in DOMAIN sessions
          /\ f \in DOMAIN sessions => sessions'[f] = sessions[f]
      BY <1>6, <1>11 DEF Emplaced
    <2>2. Known(f)' <=> Known(f)
      BY <1>2, <1>9, <1>11, EngineAssumption DEF Known, EngineAssumption
    <2> QED
      BY <1>2, <1>3, <1>7, <2>1, <2>2
  <1> QED
    BY <1>10, <1>11

\* sessions.erase, while the descriptor is still open.
LEMMA EndDisconnectSessions ==
  ASSUME HInv, NEW w \in Workers, EndDisconnect(w)
  PROVE  CallInv' /\ RaceInv' /\ FreshInv' /\ SessionsExact'
  <1>1. RaceInv' /\ raced' = raced
    BY DEF HInv, RaceInv, EndDisconnect, Return
  <1>2. /\ OnDisconnect(w) /\ using[w] # "none" /\ using' = [using EXCEPT ![w] = "none"]
        /\ part' = part /\ wpc[w] = "closing"
    BY DEF EndDisconnect, Return, OnDisconnect
  <1>3. /\ CallInv'
        /\ UNCHANGED <<conn, fdtab>>
        /\ \A v \in Workers : wpc'[v] = "connect" =>
             v # w /\ wpc[v] = "connect" /\ cur'[v] = cur[v]
        /\ (\A v \in Workers : wpc'[v] # "exited") => \A v \in Workers : wpc[v] # "exited"
    BY <1>2, ReturnFacts
  <1>4. FreshInv'
    BY <1>2, <1>3 DEF HInv, FreshInv
  <1>5. SUFFICES ASSUME ~raced', \A v \in Workers : wpc'[v] # "exited", NEW f \in Fds
                 PROVE  /\ f \in DOMAIN sessions' <=> Known(f)'
                        /\ f \in DOMAIN sessions' => sessions'[f] = part'[fdtab'[f]]
    BY <1>1, <1>3, <1>4 DEF SessionsExact
  <1>6. sessions' = Erased(cur[w])
    BY <1>1, <1>5 DEF HInv, RaceInv, EndDisconnect
  <1>7. /\ f \in DOMAIN sessions <=> Known(f)
        /\ f \in DOMAIN sessions => sessions[f] = part[fdtab[f]]
    BY <1>1, <1>3, <1>5 DEF HInv, SessionsExact
  <1>8. \A v \in Workers : v # w => cur[w] \notin clients[v]
    BY <1>2, HandledDescriptor DEF HInv, Idle, Owned
  <1>9. /\ UNCHANGED <<clients, cur>>
        /\ wpc'[w] = "erase"
        /\ \A v \in Workers : v # w => wpc'[v] = wpc[v]
    BY <1>2 DEF OnDisconnect, HInv, EInv, TypeOK, Goto
  <1>10. Known(f)' <=> Known(f) /\ f # cur[w]
    BY <1>2, <1>8, <1>9 DEF Known
  <1>11. /\ f \in DOMAIN sessions' <=> f \in DOMAIN sessions /\ f # cur[w]
         /\ f \in DOMAIN sessions' => sessions'[f] = sessions[f]
    BY <1>6 DEF Erased
  <1> QED
    BY <1>2, <1>3, <1>7, <1>10, <1>11

\* sessions.find and the parse: session and history advance together, and
\* those of no other descriptor do.
LEMMA EndFindSessions ==
  ASSUME HInv, NEW w \in Workers, EndFind(w)
  PROVE  CallInv' /\ RaceInv' /\ FreshInv' /\ SessionsExact'
  <1> DEFINE f == cur[w]
             c == fdtab[f]
  <1>1. RaceInv' /\ raced' = raced
    BY DEF HInv, RaceInv, EndFind, Return
  <1>2. using[w] = "find" /\ wpc[w] = "read"
    BY DEF EndFind, HInv, CallInv
  <1>3. /\ f \in Fds /\ c \in Conns /\ conn[c] = "open" /\ f \in Owned(w)
        /\ \A v \in Workers : v # w => f \notin Owned(v)
    BY <1>2, HandledDescriptor DEF HInv, Idle
  <1>4. /\ UNCHANGED <<conn, fdtab, cur, clients>>
        /\ wpc' \in {wpc, [wpc EXCEPT ![w] = "recv"]}
        /\ \/ using' = [using EXCEPT ![w] = "reply"] /\ wpc' = wpc
           \/ using' = [using EXCEPT ![w] = "none"]
    BY DEF EndFind, Return, OnRead, Goto, vars, worker, kernel
  <1>5. CallInv'
    BY <1>2, <1>4 DEF HInv, EInv, TypeOK, CallInv
  <1>6. part' = [part EXCEPT ![c] = (part[c] + held[w]) % ReqLen]
    BY DEF EndFind
  <1>7. part' \in [Conns -> Int] /\ \A d \in Conns : d # c => part'[d] = part[d]
    BY <1>3, <1>6, HttpAssumption DEF HInv, FreshInv, EInv, TypeOK, HttpAssumption
  <1>8. \A g \in Fds : g # f /\ fdtab[g] # NoConn => fdtab[g] \in Conns /\ fdtab[g] # c
    BY <1>3 DEF HInv, EInv, TypeOK, ConnInv
  <1>9. FreshInv'
    <2>1. \A d \in Conns : conn'[d] \in {"idle", "queued"} => part'[d] = 0
      BY <1>3, <1>4, <1>7 DEF HInv, FreshInv
    <2>2. ASSUME NEW v \in Workers, wpc'[v] = "connect"
          PROVE  part'[fdtab'[cur'[v]]] = 0
      <3>1. v # w /\ wpc[v] = "connect"
        BY <1>2, <1>4, <2>2 DEF HInv, EInv, TypeOK
      <3>2. cur[v] \in Fds /\ cur[v] # f /\ fdtab[cur[v]] \in Conns
        BY <1>3, <3>1, HandledDescriptor DEF HInv, Idle
      <3> QED
        BY <1>4, <1>7, <1>8, <3>1, <3>2, EngineAssumption DEF HInv, FreshInv, EngineAssumption
    <2> QED
      BY <1>7, <2>1, <2>2 DEF FreshInv
  <1>10. SUFFICES ASSUME ~raced', \A v \in Workers : wpc'[v] # "exited", NEW g \in Fds
                  PROVE  /\ g \in DOMAIN sessions' <=> Known(g)'
                         /\ g \in DOMAIN sessions' => sessions'[g] = part'[fdtab'[g]]
    BY <1>1, <1>5, <1>9 DEF SessionsExact
  <1>11. \A v \in Workers : wpc[v] # "exited"
    BY <1>2, <1>4, <1>10 DEF HInv, EInv, TypeOK
  <1>12. \A h \in Fds : /\ h \in DOMAIN sessions <=> Known(h)
                        /\ h \in DOMAIN sessions => sessions[h] = part[fdtab[h]]
    BY <1>1, <1>10, <1>11 DEF HInv, SessionsExact
  <1>13. Known(f)
    BY <1>2, <1>3 DEF Known, Owned
  <1>14. /\ DOMAIN sessions' = DOMAIN sessions
         /\ sessions'[f] = (sessions[f] + held[w]) % ReqLen
         /\ \A h \in DOMAIN sessions : h # f => sessions'[h] = sessions[h]
    <2>1. f \in DOMAIN sessions
      BY <1>3, <1>12, <1>13
    <2>2. w \notin racing
      BY <1>1, <1>10 DEF HInv, RaceInv
    <2>3. sessions' = [sessions EXCEPT ![f] = (sessions[f] + held[w]) % ReqLen]
      BY <2>1, <2>2 DEF EndFind
    <2> QED
      BY <2>1, <2>3
  <1>15. Known(g)' <=> Known(g)
    BY <1>2, <1>4, <1>10 DEF Known, HInv, EInv, TypeOK
  <1>16. CASE g = f
    BY <1>3, <1>4, <1>6, <1>12, <1>13, <1>14, <1>15, <1>16 DEF HInv, FreshInv
  <1>17. CASE g # f
    <2>1. /\ g \in DOMAIN sessions' <=> Known(g)'
          /\ g \in DOMAIN sessions => sessions'[g] = sessions[g]
      BY <1>12, <1>14, <1>15, <1>17
    <2>2. ASSUME Known(g)
          PROVE  part'[fdtab'[g]] = part[fdtab[g]]
      <3>1. fdtab[g] # NoConn
        BY <2>2 DEF Known, HInv, EInv, OwnerInv, Owned
      <3> QED
        BY <1>4, <1>7, <1>8, <1>17, <3>1
    <2> QED
      BY <1>12, <1>15, <2>1, <2>2
  <1> QED
    BY <1>16, <1>17

LEMMA EndReadSessions ==
  ASSUME HInv, NEW w \in Workers, EndRead(w)
  PROVE  CallInv' /\ RaceInv' /\ FreshInv' /\ SessionsExact'
  <1>1. RaceInv'
    BY DEF HInv, RaceInv, EndRead
  <1>2. /\ OnRead(w) /\ using[w] # "none" /\ using' = [using EXCEPT ![w] = "none"]
        /\ UNCHANGED <<part, sessions, raced, cur, clients>>
        /\ wpc[w] = "read" /\ wpc' = [wpc EXCEPT ![w] = "recv"]
    BY DEF EndRead, OnRead, Goto
  <1>3. /\ CallInv'
        /\ UNCHANGED <<conn, fdtab>>
        /\ \A v \in Workers : wpc'[v] = "connect" =>
             v # w /\ wpc[v] = "connect" /\ cur'[v] = cur[v]
        /\ (\A v \in Workers : wpc'[v] # "exited") => \A v \in Workers : wpc[v] # "exited"
    BY <1>2, ReturnFacts
  <1>4. FreshInv'
    BY <1>2, <1>3 DEF HInv, FreshInv
  <1>5. \A f \in Fds : Known(f)' <=> Known(f)
    BY <1>2 DEF Known, HInv, EInv, TypeOK
  <1>6. SessionsExact'
    BY <1>2, <1>3, <1>5 DEF HInv, SessionsExact
  <1> QED
    BY <1>1, <1>3, <1>4, <1>6

LEMMA CallbackSessions ==
  ASSUME HInv, NEW w \in Workers, HttpCallback(w)
  PROVE  CallInv' /\ RaceInv' /\ FreshInv' /\ SessionsExact'
  <1>1. CASE BeginConnect(w)
    BY <1>1, EnterSessions DEF BeginConnect
  <1>2. CASE BeginRead(w)
    BY <1>2, EnterSessions DEF BeginRead
  <1>3. CASE BeginDisconnect(w)
    BY <1>3, EnterSessions DEF BeginDisconnect
  <1>4. CASE Reply(w)
    <2>1. UNCHANGED <<vars, sessions, using, racing, raced, part>>
      BY <1>4 DEF Reply, map
    <2>2. CallInv' /\ RaceInv'
      BY <2>1 DEF vars, worker, HInv, CallInv, RaceInv
    <2> QED
      BY <2>1, <2>2, QuietSessions
  <1> QED
    BY <1>1, <1>2, <1>3, <1>4, EndConnectSessions, EndFindSessions, EndReadSessions,
       EndDisconnectSessions DEF HttpCallback

LEMMA NextHInv == HInv /\ [HNext]_hvars => HInv'
  <1> SUFFICES ASSUME HInv, [HNext]_hvars
               PROVE  HInv'
    OBVIOUS
  <1>1. EInv'
    BY StepRefines, NextEInv DEF HInv
  <1>2. ASSUME UNCHANGED <<vars, sessions, using, racing, raced, part>>
        PROVE  HInv'
    <2>1. CallInv' /\ RaceInv'
      BY <1>2 DEF vars, worker, HInv, CallInv, RaceInv
    <2> QED
      BY <1>1, <1>2, <2>1, QuietSessions DEF HInv
  <1>3. CASE UNCHANGED hvars
    BY <1>2, <1>3 DEF hvars, app, map
  <1>4. CASE EngineStep
    BY <1>1, <1>4, EngineSessions DEF HInv
  <1>5. ASSUME NEW c \in Conns, Request(c)
        PROVE  HInv'
    <2>1. UNCHANGED <<running, worker, conn, fdtab, sessions, using, racing, raced, part>>
      BY <1>5 DEF Request, ClientSends, map
    <2> QED
      BY <1>1, <2>1 DEF worker, HInv, CallInv, RaceInv, FreshInv, SessionsExact, Known
  <1>6. ASSUME NEW c \in Conns, ReadResponse(c)
        PROVE  HInv'
    BY <1>2, <1>6 DEF ReadResponse, map
  <1>7. ASSUME NEW w \in Workers, HttpCallback(w)
        PROVE  HInv'
    BY <1>1, <1>7, CallbackSessions DEF HInv
  <1>8. ASSUME NEW w \in Workers, Crash(w)
        PROVE  HInv'
    BY <1>2, <1>8 DEF Crash, map
  <1> QED
    BY <1>3, <1>4, <1>5, <1>6, <1>7, <1>8 DEF HNext

LEMMA AlwaysHInv == HSpec => []HInv
  <1>1. HInit => HInv
    BY InitEInv DEF HInit, HInv, Init, CallInv, RaceInv, FreshInv, SessionsExact, Known
  <1> QED
    BY <1>1, NextHInv, PTL DEF HSpec

\* For any number of workers and clients: as long as no two operations of the
\* shared map have overlapped and no worker has left its loop, the sessions
\* are exactly those of the connected descriptors, each with what its own
\* connection has sent (server.cpp:40-66, MultiReactorServer.cpp:118-121).
THEOREM SessionsAreExact == HSpec => []SessionsExact
  <1>1. HInv => SessionsExact
    BY DEF HInv
  <1> QED
    BY <1>1, AlwaysHInv, PTL

-----------------------------------------------------------------------------
(* Types of the application's variables. *)

LEMMA Division ==
  ASSUME NEW n \in Nat
  PROVE  n % ReqLen \in 0 .. ReqLen - 1 /\ n \div ReqLen \in Nat
  BY HttpAssumption DEF HttpAssumption

\* The units of one response that the kernel takes.
LEMMA SentUnits ==
  ASSUME NEW s \in Seq(1 .. RespLen), NEW n \in Int, n <= RespLen
  PROVE  s \o [k \in 1 .. n |-> k] \in Seq(1 .. RespLen)
  <1>1. RespLen \in Nat
    BY HttpAssumption DEF HttpAssumption
  <1>2. CASE n >= 0
    <2>1. [k \in 1 .. n |-> k] \in Seq(1 .. RespLen)
      BY <1>1, <1>2
    <2> QED
      BY <2>1
  <1>3. CASE n < 0
    <2>1. [k \in 1 .. n |-> k] = [k \in 1 .. 0 |-> k]
      BY <1>3
    <2>2. [k \in 1 .. 0 |-> k] \in Seq(1 .. RespLen)
      BY <1>1
    <2> QED
      BY <2>1, <2>2
  <1> QED
    BY <1>2, <1>3

LEMMA TypeEngineStep ==
  ASSUME HTypeOK, EngineStep \/ UNCHANGED hvars
  PROVE  HTypeOK'
  BY DEF HTypeOK, EngineStep, hvars, app, map, client

LEMMA TypeClient ==
  ASSUME HTypeOK, NEW c \in Conns, Request(c) \/ ReadResponse(c)
  PROVE  HTypeOK'
  <1>1. ReqLen \in Nat \ {0} /\ RespLen \in Nat
    BY HttpAssumption DEF HttpAssumption
  <1>2. CASE Request(c)
    BY <1>1, <1>2 DEF HTypeOK, Request, map
  <1>3. CASE ReadResponse(c)
    <2>1. tx[c] \in Seq(1 .. RespLen) /\ tx[c] # <<>>
      BY <1>3 DEF HTypeOK, ReadResponse
    <2>2. tx' \in [Conns -> Seq(1 .. RespLen)]
      BY <1>3, <2>1 DEF HTypeOK, ReadResponse
    <2>3. RespLen >= 1
      BY <1>1, <2>1
    <2>4. want' \in [Conns -> 1 .. RespLen + 1]
      BY <1>1, <1>3, <2>3 DEF HTypeOK, ReadResponse
    <2> QED
      <3>1. asked' \in [Conns -> 0 .. ReqLen] /\ UNCHANGED <<map, todo, dead, part>>
        BY <1>1, <1>3 DEF HTypeOK, ReadResponse, map
      <3> QED
        BY <2>2, <2>4, <3>1 DEF HTypeOK, map
  <1> QED
    BY <1>2, <1>3

LEMMA TypeMapStep ==
  ASSUME HTypeOK, NEW w \in Workers, NEW op \in {"emplace", "find", "erase"},
         Enter(w, op) \/ Crash(w)
  PROVE  HTypeOK'
  <1>1. CASE Enter(w, op)
    BY <1>1 DEF HTypeOK, Enter, client
  <1>2. CASE Crash(w)
    BY <1>2 DEF HTypeOK, Crash, map, client
  <1> QED
    BY <1>1, <1>2

LEMMA TypeCallback ==
  ASSUME HTypeOK, HInv, NEW w \in Workers, HttpCallback(w)
  PROVE  HTypeOK'
  <1>1. CASE BeginConnect(w) \/ BeginRead(w) \/ BeginDisconnect(w)
    BY <1>1, TypeMapStep DEF BeginConnect, BeginRead, BeginDisconnect
  <1>2. CASE EndConnect(w)
    <2>1. cur[w] \in Fds
      BY <1>2, HandledDescriptor DEF EndConnect, OnConnect, HInv, Idle
    <2>2. /\ DOMAIN sessions' \subseteq Fds
          /\ \A f \in DOMAIN sessions' : sessions'[f] \in 0 .. ReqLen - 1
      BY <1>2, <2>1, HttpAssumption DEF EndConnect, Emplaced, HTypeOK, HttpAssumption
    <2> QED
      BY <1>2, <2>2 DEF HTypeOK, EndConnect, Return, client
  <1>3. CASE EndFind(w)
    <2>1. held[w] \in Nat /\ fdtab[cur[w]] \in Conns
      BY <1>3, HandledDescriptor, EngineAssumption
         DEF EndFind, HInv, CallInv, EInv, TypeOK, Idle, EngineAssumption
    <2>2. part' \in [Conns -> 0 .. ReqLen - 1]
      <3>1. (part[fdtab[cur[w]]] + held[w]) % ReqLen \in 0 .. ReqLen - 1
        <4>1. part[fdtab[cur[w]]] + held[w] \in Nat
          BY <2>1 DEF HTypeOK
        <4> QED
          BY <4>1, Division
      <3> QED
        BY <1>3, <2>1, <3>1 DEF EndFind, HTypeOK
    <2>3. CASE UNCHANGED <<sessions, todo>>
      BY <1>3, <2>2, <2>3 DEF HTypeOK, EndFind, Return, client
    <2> DEFINE n    == sessions[cur[w]] + held[w]
               rest == n % ReqLen
               done == n \div ReqLen
    <2>4. CASE /\ cur[w] \in DOMAIN sessions
               /\ sessions' = [sessions EXCEPT ![cur[w]] = rest]
               /\ todo' = [todo EXCEPT ![w] = done]
      <3>1. rest \in 0 .. ReqLen - 1 /\ done \in Nat
        <4>1. n \in Nat
          BY <2>1, <2>4 DEF HTypeOK
        <4> HIDE DEF n
        <4> QED
          BY <4>1, Division
      <3> HIDE DEF rest, done
      <3>2. todo' \in [Workers -> Nat]
        BY <2>4, <3>1 DEF HTypeOK
      <3>3. /\ DOMAIN sessions' \subseteq Fds
            /\ \A f \in DOMAIN sessions' : sessions'[f] \in 0 .. ReqLen - 1
        BY <2>4, <3>1 DEF HTypeOK
      <3> QED
        BY <1>3, <2>2, <3>2, <3>3 DEF HTypeOK, EndFind, Return, client
    <2>5. \/ UNCHANGED <<sessions, todo>>
          \/ /\ cur[w] \in DOMAIN sessions
             /\ sessions' = [sessions EXCEPT ![cur[w]] = rest]
             /\ todo' = [todo EXCEPT ![w] = done]
      BY <1>3 DEF EndFind, Completed
    <2> HIDE DEF rest, done
    <2> QED
      BY <2>3, <2>4, <2>5
  <1>4. CASE Reply(w)
    <2>1. fdtab[cur[w]] \in Conns
      BY <1>4, HandledDescriptor DEF Reply, HInv, CallInv, Idle
    <2>2. tx' \in [Conns -> Seq(1 .. RespLen)]
      <3>1. CASE peer[fdtab[cur[w]]] # "reset"
        <4> DEFINE c     == fdtab[cur[w]]
                   space == TxMax - Len(tx[c])
                   n     == IF RespLen <= space THEN RespLen ELSE space
        <4>1. tx[c] \in Seq(1 .. RespLen) /\ RespLen \in Nat /\ TxMax \in Nat
          BY <2>1, HttpAssumption DEF HTypeOK, HttpAssumption
        <4>2. n \in Int /\ n <= RespLen
          BY <4>1
        <4>3. tx[c] \o [k \in 1 .. n |-> k] \in Seq(1 .. RespLen)
          BY <4>1, <4>2, SentUnits
        <4>4. tx' = [tx EXCEPT ![c] = tx[c] \o [k \in 1 .. n |-> k]]
          BY <1>4, <3>1 DEF Reply
        <4> HIDE DEF n, c
        <4> QED
          BY <4>3, <4>4 DEF HTypeOK
      <3>2. CASE peer[fdtab[cur[w]]] = "reset"
        BY <1>4, <3>2 DEF Reply, HTypeOK
      <3> QED
        BY <3>1, <3>2
    <2>3. todo' \in [Workers -> Nat]
      <3>1. todo[w] > 0 /\ todo' = [todo EXCEPT ![w] = todo[w] - 1]
        BY <1>4 DEF Reply
      <3>2. todo \in [Workers -> Nat]
        BY DEF HTypeOK
      <3> QED
        BY <3>1, <3>2
    <2>4. dead' \in BOOLEAN
      BY <1>4 DEF Reply, HTypeOK
    <2> QED
      BY <1>4, <2>2, <2>3, <2>4 DEF Reply, HTypeOK, map, client
  <1>5. CASE EndRead(w)
    BY <1>5 DEF HTypeOK, EndRead, client
  <1>6. CASE EndDisconnect(w)
    BY <1>6 DEF HTypeOK, EndDisconnect, Return, Erased, client
  <1> QED
    BY <1>1, <1>2, <1>3, <1>4, <1>5, <1>6 DEF HttpCallback

\* The application's variables keep their types, of which the partial request
\* in a session is the one a lost or doubled reset would break.
THEOREM HttpTypeCorrect == HSpec => []HTypeOK
  <1>1. ASSUME HInit
        PROVE  HTypeOK
    <2>1. ReqLen \in Nat \ {0} /\ RespLen \in Nat
      BY HttpAssumption DEF HttpAssumption
    <2>2. DOMAIN sessions = {}
      BY <1>1 DEF HInit
    <2>3. tx \in [Conns -> Seq(1 .. RespLen)]
      BY <1>1 DEF HInit
    <2>4. asked \in [Conns -> 0 .. ReqLen] /\ part \in [Conns -> 0 .. ReqLen - 1]
      BY <1>1, <2>1 DEF HInit
    <2>5. want \in [Conns -> 1 .. RespLen + 1]
      BY <1>1, <2>1 DEF HInit
    <2>6. racing = {} /\ dead \in BOOLEAN /\ raced \in BOOLEAN /\ todo \in [Workers -> Nat]
      BY <1>1 DEF HInit
    <2>7. using \in [Workers -> {"none", "emplace", "find", "erase", "reply"}]
      BY <1>1 DEF HInit
    <2> QED
      BY <2>2, <2>3, <2>4, <2>5, <2>6, <2>7 DEF HTypeOK
  <1>2. HTypeOK /\ HInv /\ [HNext]_hvars => HTypeOK'
    BY TypeEngineStep, TypeClient, TypeMapStep, TypeCallback DEF HNext
  <1> QED
    BY <1>1, <1>2, AlwaysHInv, PTL DEF HSpec

-----------------------------------------------------------------------------
(* Responses.  A client that waits for each answer has at most one under way *)
(* when what it sends is counted against what it may send: the units of a    *)
(* connection that no answer has been made for, and those of an answer it has *)
(* not finished reading, exceed the request it is sending by less than one   *)
(* request, and by that only when races left it another's session.           *)

Session(f) == IF f \in DOMAIN sessions THEN sessions[f] ELSE 0

\* Units worker w has taken from the kernel and not yet handed to parse.
Reading(w) == IF wpc[w] = "read" /\ using[w] # "reply" THEN held[w] ELSE 0

\* An answer that is being read, or made by worker w, counts as its request.
Unread(c)  == IF tx[c] # <<>> THEN ReqLen ELSE 0
Owed(w, c) == IF todo[w] # 0 \/ tx[c] # <<>> THEN ReqLen ELSE 0

Rest(k) == [i \in 1 .. RespLen - k + 1 |-> k + i - 1]

\* A client reads responses in order, and no two follow each other unread.
TxInv ==
  \A c \in Conns : \/ tx[c] = <<>> /\ want[c] = 1
                   \/ want[c] \in 1 .. RespLen /\ tx[c] = Rest(want[c])

TodoInv ==
  \A w \in Workers :
    /\ todo[w] # 0 => using[w] = "reply"
    /\ todo[w] # 0 => todo[w] = 1 /\ tx[fdtab[cur[w]]] = <<>>

QueueInv ==
  \A c \in Conns : conn[c] \in {"idle", "queued"} => rx[c] <= asked[c] /\ tx[c] = <<>>

AheadInv ==
  \A f \in Fds, c \in Conns : fdtab[f] = c =>
    /\ rx[c] + Session(f) + Unread(c) <= asked[c] + ReqLen - 1
    /\ \A w \in Workers : cur[w] = f =>
         rx[c] + Session(f) + Reading(w) + Owed(w, c) <= asked[c] + ReqLen - 1

RInv == TxInv /\ TodoInv /\ QueueInv /\ AheadInv

\* The ranges of the terms of AheadInv, before and after a step.
LEMMA Types ==
  HTypeOK /\ EInv =>
    /\ ReqLen \in Nat \ {0} /\ RespLen \in Nat /\ TxMax \in Nat
    /\ \A f \in Fds : Session(f) \in 0 .. ReqLen - 1
    /\ \A w \in Workers : Reading(w) \in Nat
    /\ \A c \in Conns : rx[c] \in Nat /\ asked[c] \in 0 .. ReqLen
    /\ \A c : Unread(c) \in {0, ReqLen} /\ \A w : Owed(w, c) \in {0, ReqLen}
    /\ todo \in [Workers -> Nat]
  <1> SUFFICES ASSUME HTypeOK, EInv
               PROVE  /\ \A f \in Fds : Session(f) \in 0 .. ReqLen - 1
                      /\ \A w \in Workers : Reading(w) \in Nat
                      /\ \A c \in Conns : rx[c] \in Nat /\ asked[c] \in 0 .. ReqLen
                      /\ \A c : /\ Unread(c) \in {0, ReqLen}
                               /\ \A w : Owed(w, c) \in {0, ReqLen}
                      /\ todo \in [Workers -> Nat]
    BY HttpAssumption DEF HttpAssumption
  <1>1. ReqLen \in Nat \ {0}
    BY HttpAssumption DEF HttpAssumption
  <1>2. \A w \in Workers : Reading(w) \in Nat
    BY EngineAssumption DEF EInv, TypeOK, Reading, EngineAssumption
  <1>3. \A c \in Conns : rx[c] \in Nat /\ asked[c] \in 0 .. ReqLen
    BY EngineAssumption DEF EInv, TypeOK, HTypeOK, EngineAssumption
  <1> QED
    BY <1>1, <1>2, <1>3 DEF HTypeOK, Session, Unread, Owed

LEMMA TypesNext ==
  HTypeOK' /\ EInv' => (
    /\ ReqLen \in Nat \ {0} /\ RespLen \in Nat /\ TxMax \in Nat
    /\ \A f \in Fds : Session(f) \in 0 .. ReqLen - 1
    /\ \A w \in Workers : Reading(w) \in Nat
    /\ \A c \in Conns : rx[c] \in Nat /\ asked[c] \in 0 .. ReqLen
    /\ \A c : Unread(c) \in {0, ReqLen} /\ \A w : Owed(w, c) \in {0, ReqLen}
    /\ todo \in [Workers -> Nat])'
  BY Types, PTL

\* A worker outside on_read has no chunk and no request in hand.
LEMMA NotReading ==
  ASSUME CallInv, TodoInv, NEW w \in Workers, wpc[w] # "read"
  PROVE  Reading(w) = 0 /\ todo[w] = 0
  BY DEF CallInv, TodoInv, Reading

\* What parse does with fewer units than two requests have.
LEMMA OneRequest ==
  ASSUME NEW n \in Nat, n <= 2 * ReqLen - 1
  PROVE  \/ n < ReqLen /\ n % ReqLen = n /\ n \div ReqLen = 0
         \/ n >= ReqLen /\ n % ReqLen = n - ReqLen /\ n \div ReqLen = 1
  <1>1. ReqLen \in Nat \ {0}
    BY HttpAssumption DEF HttpAssumption
  <1>2. CASE n < ReqLen
    BY <1>1, <1>2
  <1>3. CASE n >= ReqLen
    BY <1>1, <1>3
  <1> QED
    BY <1>1, <1>2, <1>3

-----------------------------------------------------------------------------
(* The engine's steps. *)

\* A worker's loop leaves the kernel's data and the application alone, but
\* for what Recv takes, and a connection that it opens was waiting.
LEMMA LoopData ==
  ASSUME EInv, NEW w \in Workers, Loop(w)
  PROVE  /\ \A c \in Conns : rx'[c] <= rx[c]
         /\ \A c \in Conns : conn'[c] \in {"idle", "queued"} => conn[c] \in {"idle", "queued"}
         /\ \A f \in Fds : fdtab'[f] # NoConn /\ fdtab'[f] # fdtab[f] =>
              fdtab'[f] \in Conns /\ conn[fdtab'[f]] = "queued"
         /\ wpc[w] # "read"
         /\ wpc'[w] = "read" => RecvData(w, fdtab[cur[w]]) /\ Recv(w)
  <1>1. CASE Accept(w)
    BY <1>1, EngineAssumption DEF Accept, Register, Free, Goto, kernel, EInv, TypeOK, ConnInv,
       EngineAssumption
  <1>2. CASE Recv(w)
    <2>1. ~Idle(w) /\ wpc[w] = "recv"
      BY <1>2 DEF Recv, Idle
    <2>2. fdtab[cur[w]] \in Conns
      BY <2>1, HandledDescriptor
    <2>3. \A c \in Conns : rx'[c] <= rx[c]
      BY <1>2, <2>2, EngineAssumption DEF Recv, RecvData, RecvEnd, RecvAgain, EInv, TypeOK,
         EngineAssumption
    <2> QED
      BY <1>2, <2>1, <2>3 DEF Recv, RecvData, RecvEnd, RecvAgain, Goto, EInv, TypeOK
  <1>3. CASE Erase(w)
    BY <1>3, EngineAssumption DEF Erase, Closed, Goto, EInv, TypeOK, EngineAssumption
  <1>4. CASE \/ Bind(w) \/ EndOfBatch(w) \/ ClientEvent(w)
             \/ (EpollSetup(w) \/ TestRunning(w) \/ EpollWait(w)) /\ ~Leave(w)
    BY <1>4, EngineAssumption DEF Bind, EpollSetup, TestRunning, EpollWait, Timeout, EndOfBatch,
       ClientEvent, Goto, kernel, EInv, TypeOK, EngineAssumption
  <1>5. CASE Leave(w) /\ (EpollSetup(w) \/ TestRunning(w) \/ EpollWait(w))
    BY <1>5, EngineAssumption DEF EpollSetup, TestRunning, EpollWait, Leave, Closed, Goto,
       EInv, TypeOK, EngineAssumption
  <1> QED
    BY <1>1, <1>2, <1>3, <1>4, <1>5 DEF Loop

LEMMA LoopResponses ==
  ASSUME HTypeOK, HTypeOK', EInv, EInv', CallInv, RInv, NEW w \in Workers, Loop(w),
         UNCHANGED app
  PROVE  RInv'
  <1>1. OthersKept(w)
    BY WorkerKeeps
  <1>2. UNCHANGED <<sessions, using, todo, tx, asked, want>>
    BY DEF app, map, client
  <1>3. TxInv'
    BY <1>2 DEF RInv, TxInv, Rest
  <1>4. CallInv'
    BY <1>2, LoopCalls
  <1>5. todo[w] = 0 /\ todo'[w] = 0
    BY <1>2, LoopData, NotReading DEF RInv
  <1>6. TodoInv'
    <2>1. ASSUME NEW v \in Workers, todo'[v] # 0
          PROVE  using'[v] = "reply" /\ todo'[v] = 1 /\ tx'[fdtab'[cur'[v]]] = <<>>
      <3>1. v # w /\ todo[v] # 0 /\ ~Idle(v)
        BY <1>2, <1>5, <2>1 DEF RInv, TodoInv, CallInv, Idle
      <3> QED
        BY <1>1, <1>2, <3>1 DEF OthersKept, RInv, TodoInv
    <2> QED
      BY <2>1 DEF TodoInv
  <1>7. QueueInv'
    BY <1>2, LoopData, Types, TypesNext DEF RInv, QueueInv
  <1>8. ASSUME NEW f \in Fds, NEW c \in Conns, fdtab'[f] = c
        PROVE  rx'[c] + Session(f)' + Unread(c)' <= asked'[c] + ReqLen - 1
    <2>1. Session(f)' = Session(f) /\ Unread(c)' = Unread(c)
      BY <1>2 DEF Session, Unread
    <2>2. rx'[c] <= rx[c]
      BY LoopData
    <2>3. rx[c] + Session(f) + Unread(c) <= asked[c] + ReqLen - 1
      <3>1. CASE fdtab[f] = c
        BY <3>1 DEF RInv, AheadInv
      <3>2. CASE fdtab[f] # c
        <4>1. conn[c] = "queued"
          BY <1>8, <3>2, LoopData, EngineAssumption DEF EngineAssumption
        <4>2. rx[c] <= asked[c] /\ Unread(c) = 0
          BY <4>1 DEF RInv, QueueInv, Unread
        <4> QED
          BY <4>2, Types
      <3> QED
        BY <3>1, <3>2
    <2> QED
      BY <1>2, <2>1, <2>2, <2>3, Types, TypesNext
  <1>9. ASSUME NEW f \in Fds, NEW c \in Conns, fdtab'[f] = c,
               NEW v \in Workers, cur'[v] = f
        PROVE  rx'[c] + Session(f)' + Reading(v)' + Owed(v, c)' <= asked'[c] + ReqLen - 1
    <2>1. Session(f)' = Session(f) /\ Unread(c)' = Unread(c) /\ Owed(v, c)' = Owed(v, c)
      BY <1>2 DEF Session, Unread, Owed
    <2>2. CASE v # w
      <3>1. /\ cur[v] = f /\ ~Idle(v) /\ Reading(v)' = Reading(v)
            /\ fdtab'[f] = fdtab[f] /\ rx'[fdtab[f]] = rx[fdtab[f]]
        BY <1>1, <1>2, <1>9, <2>2, EngineAssumption
           DEF OthersKept, EInv, CurInv, Reading, EngineAssumption
      <3>2. rx[c] + Session(f) + Reading(v) + Owed(v, c) <= asked[c] + ReqLen - 1
        BY <1>9, <3>1 DEF RInv, AheadInv
      <3> QED
        BY <1>2, <1>9, <2>1, <3>1, <3>2
    <2>3. CASE v = w /\ wpc'[w] # "read"
      <3>1. Reading(v)' = 0 /\ Owed(v, c)' = Unread(c)'
        BY <1>5, <2>3 DEF Reading, Owed, Unread
      <3> QED
        BY <1>8, <1>9, <3>1, TypesNext
    <2>4. CASE v = w /\ wpc'[w] = "read"
      <3>1. RecvData(w, fdtab[cur[w]]) /\ Recv(w)
        BY <2>4, LoopData
      <3>2. cur[w] = f /\ fdtab[f] = c
        BY <1>9, <2>4, <3>1 DEF RecvData
      <3>3. rx'[c] + held'[w] = rx[c]
        BY <3>1, <3>2, EngineAssumption DEF RecvData, EInv, TypeOK, EngineAssumption
      <3>4. rx[c] + Session(f) + Reading(w) + Owed(w, c) <= asked[c] + ReqLen - 1
        BY <3>2 DEF RInv, AheadInv
      <3>5. Reading(w)' <= held'[w] /\ held'[w] \in Nat
        BY EngineAssumption DEF Reading, EInv, TypeOK, EngineAssumption
      <3> QED
        BY <1>2, <2>1, <2>4, <3>3, <3>4, <3>5, Types, TypesNext
    <2> QED
      BY <2>2, <2>3, <2>4
  <1> QED
    BY <1>3, <1>6, <1>7, <1>8, <1>9 DEF RInv, AheadInv

\* The kernel's side of the clients: data only disappears.
LEMMA ClientResponses ==
  ASSUME HTypeOK, HTypeOK', EInv, EInv', CallInv, RInv, UNCHANGED app,
         Stop \/ \E c \in Conns : ClientConnects(c) \/ ClientCloses(c) \/ ClientResets(c)
  PROVE  RInv'
  <1>1. UNCHANGED <<sessions, using, todo, tx, asked, want, wpc, cur, held, fdtab>>
    BY DEF app, map, client, Stop, ClientConnects, ClientCloses, ClientResets, worker, kernel
  <1>2. \A c \in Conns : rx'[c] <= rx[c]
    BY EngineAssumption DEF Stop, ClientConnects, ClientCloses, ClientResets, kernel, EInv,
       TypeOK, EngineAssumption
  <1>3. \A c \in Conns : conn'[c] \in {"idle", "queued"} => conn[c] \in {"idle", "queued"}
    BY DEF Stop, ClientConnects, ClientCloses, ClientResets, kernel, EInv, TypeOK
  <1>4. TxInv' /\ TodoInv'
    BY <1>1 DEF RInv, TxInv, Rest, TodoInv
  <1>5. QueueInv'
    BY <1>1, <1>2, <1>3, Types, TypesNext DEF RInv, QueueInv
  <1>6. /\ \A f \in Fds : Session(f)' = Session(f)
        /\ \A w \in Workers : Reading(w)' = Reading(w)
        /\ \A c \in Conns : Unread(c)' = Unread(c)
        /\ \A c \in Conns, w \in Workers : Owed(w, c)' = Owed(w, c)
    BY <1>1 DEF Session, Reading, Unread, Owed
  <1>7. AheadInv'
    <2>1. ASSUME NEW f \in Fds, NEW c \in Conns, fdtab'[f] = c
          PROVE  rx'[c] + Session(f)' + Unread(c)' <= asked'[c] + ReqLen - 1
      <3>1. rx[c] + Session(f) + Unread(c) <= asked[c] + ReqLen - 1
        BY <1>1, <2>1 DEF RInv, AheadInv
      <3> QED
        BY <1>1, <1>2, <1>6, <3>1, Types, TypesNext
    <2>2. ASSUME NEW f \in Fds, NEW c \in Conns, fdtab'[f] = c,
                 NEW w \in Workers, cur'[w] = f
          PROVE  rx'[c] + Session(f)' + Reading(w)' + Owed(w, c)' <= asked'[c] + ReqLen - 1
      <3>1. rx[c] + Session(f) + Reading(w) + Owed(w, c) <= asked[c] + ReqLen - 1
        BY <1>1, <2>2 DEF RInv, AheadInv
      <3> QED
        BY <1>1, <1>2, <1>6, <3>1, Types, TypesNext
    <2> QED
      BY <2>1, <2>2 DEF AheadInv
  <1> QED
    BY <1>4, <1>5, <1>7 DEF RInv

-----------------------------------------------------------------------------
(* The HTTP clients. *)

LEMMA RequestResponses ==
  ASSUME HTypeOK, HTypeOK', EInv, EInv', CallInv, RInv, ~Pipelined,
         NEW c \in Conns, Request(c)
  PROVE  RInv'
  <1>1. UNCHANGED <<sessions, using, todo, tx, want, wpc, cur, held, fdtab, conn>>
    BY DEF Request, ClientSends, map, worker
  <1>2. rx'[c] = rx[c] + 1 /\ \A d \in Conns : d # c => rx'[d] = rx[d]
    BY DEF Request, ClientSends, EInv, TypeOK
  <1>3. asked'[c] = asked[c] + 1 /\ \A d \in Conns : d # c => asked'[d] = asked[d]
    BY DEF Request, HTypeOK
  <1>4. TxInv' /\ TodoInv'
    BY <1>1 DEF RInv, TxInv, Rest, TodoInv
  <1>5. QueueInv'
    <2> SUFFICES ASSUME NEW d \in Conns, conn[d] \in {"idle", "queued"}
                 PROVE  rx'[d] <= asked'[d] /\ tx[d] = <<>>
      BY <1>1 DEF QueueInv
    <2>1. rx[d] <= asked[d] /\ tx[d] = <<>> /\ rx[d] \in Nat /\ asked[d] \in Nat
      BY Types DEF RInv, QueueInv
    <2> QED
      BY <1>2, <1>3, <2>1
  <1>6. /\ \A f \in Fds : Session(f)' = Session(f)
        /\ \A w \in Workers : Reading(w)' = Reading(w)
        /\ \A d \in Conns : Unread(d)' = Unread(d)
        /\ \A d \in Conns, w \in Workers : Owed(w, d)' = Owed(w, d)
    BY <1>1 DEF Session, Reading, Unread, Owed
  <1>7. AheadInv'
    <2>1. ASSUME NEW f \in Fds, NEW d \in Conns, fdtab'[f] = d
          PROVE  rx'[d] + Session(f)' + Unread(d)' <= asked'[d] + ReqLen - 1
      <3>1. rx[d] + Session(f) + Unread(d) <= asked[d] + ReqLen - 1
        BY <1>1, <2>1 DEF RInv, AheadInv
      <3> QED
        BY <1>1, <1>2, <1>3, <1>6, <3>1, Types, TypesNext
    <2>2. ASSUME NEW f \in Fds, NEW d \in Conns, fdtab'[f] = d,
                 NEW w \in Workers, cur'[w] = f
          PROVE  rx'[d] + Session(f)' + Reading(w)' + Owed(w, d)' <= asked'[d] + ReqLen - 1
      <3>1. rx[d] + Session(f) + Reading(w) + Owed(w, d) <= asked[d] + ReqLen - 1
        BY <1>1, <2>2 DEF RInv, AheadInv
      <3> QED
        BY <1>1, <1>2, <1>3, <1>6, <3>1, Types, TypesNext
    <2> QED
      BY <2>1, <2>2 DEF AheadInv
  <1> QED
    BY <1>4, <1>5, <1>7 DEF RInv

\* What is left of a response after its first unit.
LEMMA RestTail ==
  ASSUME NEW k \in 1 .. RespLen
  PROVE  /\ Head(Rest(k)) = k /\ Rest(k) # <<>>
         /\ k < RespLen => Tail(Rest(k)) = Rest(k + 1)
         /\ k = RespLen => Tail(Rest(k)) = <<>>
  <1>1. RespLen \in Nat
    BY HttpAssumption DEF HttpAssumption
  <1>2. Rest(k) \in Seq(Nat) /\ Len(Rest(k)) = RespLen - k + 1
    BY <1>1 DEF Rest
  <1>3. Head(Rest(k)) = k
    BY <1>1, <1>2 DEF Rest
  <1>4. Rest(k) # <<>>
    BY <1>1, <1>2
  <1>5. ASSUME k < RespLen PROVE Tail(Rest(k)) = Rest(k + 1)
    <2>1. /\ Tail(Rest(k)) \in Seq(Nat) /\ Len(Tail(Rest(k))) = RespLen - k
          /\ \A i \in 1 .. RespLen - k : Tail(Rest(k))[i] = Rest(k)[i + 1]
      BY <1>1, <1>2, <1>4
    <2>2. /\ Rest(k + 1) \in Seq(Nat) /\ Len(Rest(k + 1)) = RespLen - k
          /\ \A i \in 1 .. RespLen - k : Rest(k + 1)[i] = k + i
      BY <1>1, <1>5 DEF Rest
    <2>3. \A i \in 1 .. RespLen - k : Rest(k)[i + 1] = k + i
      BY <1>1 DEF Rest
    <2> QED
      BY <2>1, <2>2, <2>3, SMTT(30)
  <1>6. ASSUME k = RespLen PROVE Tail(Rest(k)) = <<>>
    <2>1. Tail(Rest(k)) \in Seq(Nat) /\ Len(Tail(Rest(k))) = 0
      BY <1>1, <1>2, <1>4, <1>6
    <2> QED
      BY <2>1, EmptySeq
  <1> QED
    BY <1>3, <1>4, <1>5, <1>6

LEMMA ReadResponses ==
  ASSUME HTypeOK, HTypeOK', EInv, EInv', CallInv, RInv, NEW c \in Conns, ReadResponse(c)
  PROVE  RInv'
  <1>1. UNCHANGED <<sessions, using, todo, wpc, cur, held, fdtab, conn, rx>>
    BY DEF ReadResponse, vars, map, worker, kernel
  <1>2. tx[c] # <<>> /\ want[c] \in 1 .. RespLen /\ tx[c] = Rest(want[c]) /\ RespLen \in Nat
    BY Types DEF ReadResponse, RInv, TxInv
  <1>3. \A d \in Conns : d # c => tx'[d] = tx[d] /\ want'[d] = want[d] /\ asked'[d] = asked[d]
    BY DEF ReadResponse, HTypeOK
  <1>4. tx'[c] = Tail(Rest(want[c]))
    BY <1>2 DEF ReadResponse, HTypeOK
  <1>5. TxInv'
    <2>1. ASSUME NEW d \in Conns, d # c
          PROVE  \/ tx'[d] = <<>> /\ want'[d] = 1
                 \/ want'[d] \in 1 .. RespLen /\ tx'[d] = Rest(want'[d])
      BY <1>3, <2>1 DEF RInv, TxInv
    <2>2. CASE want[c] < RespLen
      <3>1. want'[c] = want[c] + 1 /\ tx'[c] = Rest(want[c] + 1)
        BY <1>2, <1>4, <2>2, RestTail DEF ReadResponse, HTypeOK
      <3>2. want'[c] \in 1 .. RespLen
        BY <1>2, <2>2, <3>1
      <3> QED
        BY <2>1, <3>1, <3>2 DEF TxInv, Rest
    <2>3. CASE want[c] = RespLen
      <3>1. want'[c] = 1 /\ tx'[c] = <<>>
        BY <1>2, <1>4, <2>3, RestTail DEF ReadResponse, HTypeOK
      <3> QED
        BY <2>1, <3>1 DEF TxInv, Rest
    <2> QED
      BY <1>2, <2>2, <2>3
  <1>6. QueueInv' /\ conn[c] \notin {"idle", "queued"}
    BY <1>1, <1>2, <1>3 DEF RInv, QueueInv
  <1>7. \A w \in Workers, f \in Fds : cur[w] = f /\ fdtab[f] = c => todo[w] = 0
    BY <1>2 DEF RInv, TodoInv
  <1>8. TodoInv'
    <2>1. ASSUME NEW w \in Workers, todo'[w] # 0
          PROVE  /\ using'[w] = "reply" /\ todo'[w] = 1
                 /\ tx'[fdtab'[cur'[w]]] = <<>>
      <3>1. using[w] = "reply" /\ todo[w] = 1 /\ tx[fdtab[cur[w]]] = <<>>
        BY <1>1, <2>1 DEF RInv, TodoInv
      <3>2. fdtab[cur[w]] \in Conns
        BY <3>1, HandledDescriptor DEF CallInv, Idle
      <3>3. fdtab[cur[w]] # c
        BY <1>2, <3>1
      <3> QED
        BY <1>1, <1>3, <3>1, <3>2, <3>3
    <2> QED
      BY <2>1 DEF TodoInv
  <1>9. /\ \A f \in Fds : Session(f)' = Session(f)
        /\ \A w \in Workers : Reading(w)' = Reading(w)
        /\ \A d \in Conns : d # c => Unread(d)' = Unread(d)
        /\ \A d \in Conns, w \in Workers : d # c => Owed(w, d)' = Owed(w, d)
    BY <1>1, <1>3 DEF Session, Reading, Unread, Owed
  <1>10. /\ Unread(c) = ReqLen
         /\ \A w \in Workers : Owed(w, c) = ReqLen
         /\ \/ asked'[c] = asked[c]
            \/ /\ asked'[c] = 0 /\ Unread(c)' = 0
               /\ \A w \in Workers : todo[w] = 0 => Owed(w, c)' = 0
    <2>1. CASE want[c] = RespLen
      <3>1. tx'[c] = <<>> /\ asked'[c] = 0
        BY <1>2, <1>4, <2>1, RestTail DEF ReadResponse, HTypeOK
      <3> QED
        BY <1>1, <1>2, <3>1 DEF Unread, Owed
    <2>2. CASE want[c] # RespLen
      BY <1>2, <2>2 DEF ReadResponse, Unread, Owed
    <2> QED
      BY <2>1, <2>2
  <1>11. AheadInv'
    <2>1. ASSUME NEW f \in Fds, NEW d \in Conns, fdtab'[f] = d
          PROVE  rx'[d] + Session(f)' + Unread(d)' <= asked'[d] + ReqLen - 1
      <3>1. rx[d] + Session(f) + Unread(d) <= asked[d] + ReqLen - 1
        BY <1>1, <2>1 DEF RInv, AheadInv
      <3> QED
        BY <1>1, <1>3, <1>9, <1>10, <3>1, Types, TypesNext
    <2>2. ASSUME NEW f \in Fds, NEW d \in Conns, fdtab'[f] = d,
                 NEW w \in Workers, cur'[w] = f
          PROVE  rx'[d] + Session(f)' + Reading(w)' + Owed(w, d)' <= asked'[d] + ReqLen - 1
      <3>1. rx[d] + Session(f) + Reading(w) + Owed(w, d) <= asked[d] + ReqLen - 1
        BY <1>1, <2>2 DEF RInv, AheadInv
      <3>2. d = c => todo[w] = 0
        BY <1>1, <1>7, <2>2
      <3> QED
        BY <1>1, <1>3, <1>9, <1>10, <3>1, <3>2, Types, TypesNext
    <2> QED
      BY <2>1, <2>2 DEF AheadInv
  <1> QED
    BY <1>5, <1>6, <1>8, <1>11 DEF RInv

-----------------------------------------------------------------------------
(* The callbacks. *)

\* Operations of the map that no callback has returned from.
LEMMA EnterResponses ==
  ASSUME HTypeOK, HTypeOK', EInv, EInv', RInv, NEW w \in Workers,
         NEW op \in {"emplace", "find", "erase"}, Enter(w, op) \/ Crash(w)
  PROVE  RInv'
  <1>1. UNCHANGED <<sessions, todo, tx, asked, want, wpc, cur, held, fdtab, conn, rx>>
    BY DEF Enter, Crash, vars, map, client, worker, kernel
  <1>2. \A v \in Workers : \/ using'[v] = using[v]
                           \/ using[v] = "none" /\ using'[v] # "reply"
    BY DEF Enter, Crash, map, HTypeOK
  <1>3. /\ \A f \in Fds : Session(f)' = Session(f)
        /\ \A v \in Workers : Reading(v)' = Reading(v)
        /\ \A c \in Conns : Unread(c)' = Unread(c)
        /\ \A c \in Conns, v \in Workers : Owed(v, c)' = Owed(v, c)
    BY <1>1, <1>2 DEF Session, Reading, Unread, Owed
  <1>4. TxInv' /\ QueueInv'
    BY <1>1 DEF RInv, TxInv, Rest, QueueInv
  <1>5. TodoInv'
    BY <1>1, <1>2 DEF RInv, TodoInv
  <1>6. AheadInv'
    BY <1>1, <1>3 DEF RInv, AheadInv
  <1> QED
    BY <1>4, <1>5, <1>6 DEF RInv

\* A callback's return concerns worker w and the session of its descriptor.
LEMMA OtherWorkers ==
  ASSUME EInv, EInv', NEW w \in Workers, Callback(w), UNCHANGED <<tx, asked, want>>,
         \A v \in Workers : v # w => using'[v] = using[v] /\ todo'[v] = todo[v],
         \A f \in Fds : Session(f)' <= Session(f),
         HTypeOK, HTypeOK', RInv, CallInv, todo[w] = 0, todo'[w] = 0, Reading(w)' = 0
  PROVE  RInv'
  <1>1. OthersKept(w) /\ UNCHANGED <<fdtab, conn, rx>>
    BY WorkerKeeps DEF Callback, OnConnect, OnRead, OnDisconnect, kernel
  <1>2. TxInv' /\ QueueInv'
    BY <1>1 DEF RInv, TxInv, Rest, QueueInv
  <1>3. TodoInv'
    BY <1>1 DEF RInv, TodoInv, OthersKept
  <1>4. AheadInv'
    <2>1. ASSUME NEW f \in Fds, NEW c \in Conns, fdtab'[f] = c
          PROVE  rx'[c] + Session(f)' + Unread(c)' <= asked'[c] + ReqLen - 1
      <3>1. rx[c] + Session(f) + Unread(c) <= asked[c] + ReqLen - 1
        BY <1>1, <2>1 DEF RInv, AheadInv
      <3>2. Unread(c)' = Unread(c)
        BY DEF Unread
      <3> QED
        BY <1>1, <3>1, <3>2, Types, TypesNext
    <2>2. ASSUME NEW f \in Fds, NEW c \in Conns, fdtab'[f] = c,
                 NEW v \in Workers, cur'[v] = f
          PROVE  rx'[c] + Session(f)' + Reading(v)' + Owed(v, c)' <= asked'[c] + ReqLen - 1
      <3>1. CASE v = w
        <4>1. Owed(w, c)' = Unread(c)'
          BY DEF Owed, Unread
        <4> QED
          BY <2>1, <2>2, <3>1, <4>1, Types, TypesNext
      <3>2. CASE v # w
        <4>1. cur[v] = f /\ Reading(v)' = Reading(v) /\ Owed(v, c)' = Owed(v, c)
          BY <1>1, <2>2, <3>2 DEF OthersKept, Reading, Owed
        <4>2. rx[c] + Session(f) + Reading(v) + Owed(v, c) <= asked[c] + ReqLen - 1
          BY <1>1, <2>2, <4>1 DEF RInv, AheadInv
        <4>3. Session(f)' <= Session(f) /\ rx'[c] = rx[c] /\ asked'[c] = asked[c]
          BY <1>1
        <4> QED
          BY <4>1, <4>2, <4>3, Types, TypesNext
      <3> QED
        BY <3>1, <3>2
    <2> QED
      BY <2>1, <2>2 DEF AheadInv
  <1> QED
    BY <1>2, <1>3, <1>4 DEF RInv

LEMMA ReturnResponses ==
  ASSUME HTypeOK, HTypeOK', EInv, EInv', CallInv, RInv, NEW w \in Workers,
         \/ EndConnect(w) \/ EndDisconnect(w) \/ EndRead(w)
         \/ EndFind(w) /\ OnRead(w)
  PROVE  RInv'
  <1>1. /\ Callback(w) /\ UNCHANGED <<tx, asked, want>>
        /\ \A v \in Workers : v # w => using'[v] = using[v] /\ todo'[v] = todo[v]
        /\ todo[w] = 0 /\ todo'[w] = 0
        /\ wpc'[w] # "read"
    <2>1. CASE EndConnect(w)
      BY <2>1 DEF EndConnect, Return, OnConnect, Callback, client, HTypeOK, RInv, TodoInv,
         Goto, EInv, TypeOK
    <2>2. CASE EndDisconnect(w)
      BY <2>2 DEF EndDisconnect, Return, OnDisconnect, Callback, client, HTypeOK, RInv, TodoInv,
         Goto, EInv, TypeOK
    <2>3. CASE EndRead(w)
      BY <2>3 DEF EndRead, OnRead, Callback, client, HTypeOK, RInv, TodoInv, Goto, EInv, TypeOK
    <2>4. CASE EndFind(w) /\ OnRead(w)
      <3>1. using[w] = "find" /\ todo' = todo /\ using' = [using EXCEPT ![w] = "none"]
        BY <2>4 DEF EndFind, OnRead, Return, vars, worker, HTypeOK, Goto, EInv, TypeOK
      <3> QED
        BY <2>4, <3>1 DEF EndFind, OnRead, Callback, client, HTypeOK, RInv, TodoInv,
           Goto, EInv, TypeOK
    <2> QED
      BY <2>1, <2>2, <2>3, <2>4
  <1>2. Reading(w)' = 0
    BY <1>1 DEF Reading
  <1>3. \A f \in Fds : Session(f)' <= Session(f)
    <2>1. CASE sessions' = sessions
      BY <2>1, Types DEF Session
    <2>2. CASE sessions' = Emplaced(cur[w])
      BY <2>2, Types DEF Session, Emplaced
    <2>3. CASE sessions' = Erased(cur[w])
      BY <2>3, Types DEF Session, Erased
    <2>4. EndFind(w) /\ OnRead(w) => sessions' = sessions
      BY DEF EndFind, OnRead, Goto, vars, worker, EInv, TypeOK
    <2> QED
      BY <2>1, <2>2, <2>3, <2>4 DEF EndConnect, EndDisconnect, EndRead
  <1> QED
    BY <1>1, <1>2, <1>3, OtherWorkers

\* Parts of on_read that stay in it concern the worker's own connection.
LEMMA OwnConnection ==
  ASSUME EInv, NEW w \in Workers, wpc[w] = "read"
  PROVE  /\ cur[w] \in Fds /\ fdtab[cur[w]] \in Conns /\ conn[fdtab[cur[w]]] = "open"
         /\ \A f \in Fds : fdtab[f] = fdtab[cur[w]] => f = cur[w]
         /\ \A v \in Workers : cur[v] = cur[w] => v = w
         /\ \A v \in Workers : v # w /\ ~Idle(v) => fdtab[cur[v]] # fdtab[cur[w]]
  <1>1. ~Idle(w)
    BY DEF Idle
  <1>2. cur[w] \in Fds /\ fdtab[cur[w]] \in Conns /\ conn[fdtab[cur[w]]] = "open"
    BY <1>1, HandledDescriptor
  <1>3. \A f \in Fds : fdtab[f] = fdtab[cur[w]] => f = cur[w]
    BY <1>2, EngineAssumption DEF EInv, ConnInv, EngineAssumption
  <1>4. \A v \in Workers : cur[v] = cur[w] => v = w
    BY <1>1, CurOpen
  <1>5. \A v \in Workers : v # w /\ ~Idle(v) => fdtab[cur[v]] # fdtab[cur[w]]
    BY <1>3, <1>4, CurOpen
  <1> QED
    BY <1>2, <1>3, <1>4, <1>5

\* parse: at most one request is complete, and none while an answer is unread.
LEMMA ParseResponses ==
  ASSUME HTypeOK, HTypeOK', EInv, EInv', CallInv, RInv, NEW w \in Workers,
         EndFind(w), UNCHANGED vars,
         cur[w] \in DOMAIN sessions,
         sessions' = [sessions EXCEPT ![cur[w]] = (@ + held[w]) % ReqLen],
         todo' = [todo EXCEPT ![w] = Completed(sessions[cur[w]] + held[w])],
         using' = [using EXCEPT ![w] = "reply"]
  PROVE  RInv'
  <1>1. UNCHANGED <<tx, asked, want, wpc, cur, held, fdtab, conn, rx>>
    BY DEF EndFind, client, vars, worker, kernel
  <1>2. wpc[w] = "read" /\ using[w] = "find" /\ todo[w] = 0
    BY DEF EndFind, CallInv, RInv, TodoInv
  <1>3. PICK f \in Fds, c \in Conns : cur[w] = f /\ fdtab[f] = c
    BY <1>2, OwnConnection
  <1>4. held[w] \in Nat /\ ReqLen \in Nat \ {0} /\ sessions[f] \in 0 .. ReqLen - 1
    <2>1. held[w] \in Nat
      BY EngineAssumption DEF EInv, TypeOK, EngineAssumption
    <2>2. sessions[f] \in 0 .. ReqLen - 1
      BY <1>3 DEF HTypeOK
    <2> QED
      BY <2>1, <2>2, Types
  <1>. DEFINE n == sessions[f] + held[w]
  <1>5. rx[c] + n + Unread(c) <= asked[c] + ReqLen - 1
    <2>1. rx[c] + Session(f) + Reading(w) + Owed(w, c) <= asked[c] + ReqLen - 1
      BY <1>3 DEF RInv, AheadInv
    <2>2. Session(f) = sessions[f] /\ Reading(w) = held[w] /\ Owed(w, c) = Unread(c)
      BY <1>2, <1>3 DEF Session, Reading, Owed, Unread
    <2> QED
      BY <1>4, <2>1, <2>2, Types
  <1>6. n \in Nat /\ n <= 2 * ReqLen - 1
    BY <1>4, <1>5, Types
  <1>7. /\ Session(f)' = n % ReqLen /\ todo'[w] = n \div ReqLen /\ using'[w] = "reply"
        /\ \A g \in Fds : g # f => Session(g)' = Session(g)
        /\ \A v \in Workers : v # w => todo'[v] = todo[v] /\ using'[v] = using[v]
    BY <1>3, Types DEF Session, Completed, HTypeOK
  <1>8. \/ todo'[w] = 0 /\ Session(f)' = n
        \/ todo'[w] = 1 /\ Session(f)' = n - ReqLen /\ n >= ReqLen
    BY <1>6, <1>7, OneRequest
  <1>9. todo'[w] # 0 => tx[c] = <<>>
    <2>1. rx[c] \in Nat /\ asked[c] \in 0 .. ReqLen
      BY Types
    <2>2. CASE tx[c] # <<>>
      <3>1. Unread(c) = ReqLen
        BY <2>2 DEF Unread
      <3>2. n < ReqLen
        BY <1>4, <1>5, <1>6, <2>1, <3>1
      <3> QED
        BY <1>4, <1>6, <1>8, <3>2
    <2> QED
      BY <2>2
  <1>10. TxInv' /\ QueueInv'
    BY <1>1 DEF RInv, TxInv, Rest, QueueInv
  <1>11. TodoInv'
    <2>1. ASSUME NEW v \in Workers, todo'[v] # 0
          PROVE  using'[v] = "reply" /\ todo'[v] = 1 /\ tx'[fdtab'[cur'[v]]] = <<>>
      <3>1. CASE v = w
        BY <1>1, <1>3, <1>7, <1>8, <1>9, <2>1, <3>1
      <3>2. CASE v # w
        BY <1>1, <1>7, <2>1, <3>2 DEF RInv, TodoInv
      <3> QED
        BY <3>1, <3>2
    <2> QED
      BY <2>1 DEF TodoInv
  <1>12. rx[c] + Session(f)' + Owed(w, c)' <= asked[c] + ReqLen - 1
    <2>1. CASE todo'[w] = 0
      <3>1. Owed(w, c)' = Unread(c)
        BY <1>1, <2>1 DEF Owed, Unread
      <3> QED
        BY <1>5, <1>8, <2>1, <3>1
    <2>2. CASE todo'[w] # 0
      <3>1. Owed(w, c)' = ReqLen /\ Unread(c) = 0
        BY <1>9, <2>2 DEF Owed, Unread
      <3> QED
        BY <1>4, <1>5, <1>6, <1>8, <2>2, <3>1, Types
    <2> QED
      BY <2>1, <2>2
  <1>13. Reading(w)' = 0 /\ Unread(c)' = Unread(c) /\ Unread(c) <= Owed(w, c)'
    BY <1>1, <1>4, <1>7 DEF Reading, Unread, Owed
  <1>14. AheadInv'
    <2>1. ASSUME NEW g \in Fds, NEW d \in Conns, fdtab'[g] = d
          PROVE  rx'[d] + Session(g)' + Unread(d)' <= asked'[d] + ReqLen - 1
      <3>1. CASE g = f
        BY <1>1, <1>3, <1>12, <1>13, <2>1, <3>1, Types, TypesNext
      <3>2. CASE g # f
        <4>1. rx[d] + Session(g) + Unread(d) <= asked[d] + ReqLen - 1
          BY <1>1, <2>1 DEF RInv, AheadInv
        <4>2. Unread(d)' = Unread(d)
          BY <1>1 DEF Unread
        <4> QED
          BY <1>1, <1>7, <3>2, <4>1, <4>2
      <3> QED
        BY <3>1, <3>2
    <2>2. ASSUME NEW g \in Fds, NEW d \in Conns, fdtab'[g] = d,
                 NEW v \in Workers, cur'[v] = g
          PROVE  rx'[d] + Session(g)' + Reading(v)' + Owed(v, d)' <= asked'[d] + ReqLen - 1
      <3>1. CASE g = f
        <4>1. v = w /\ d = c
          BY <1>1, <1>2, <1>3, <2>2, <3>1, OwnConnection
        <4> QED
          BY <1>1, <1>12, <1>13, <3>1, <4>1, Types, TypesNext
      <3>2. CASE g # f
        <4>1. v # w
          BY <1>1, <1>3, <2>2, <3>2
        <4>2. Reading(v)' = Reading(v) /\ Owed(v, d)' = Owed(v, d)
          BY <1>1, <1>7, <4>1 DEF Reading, Owed
        <4>3. rx[d] + Session(g) + Reading(v) + Owed(v, d) <= asked[d] + ReqLen - 1
          BY <1>1, <2>2 DEF RInv, AheadInv
        <4> QED
          BY <1>1, <1>7, <3>2, <4>2, <4>3
      <3> QED
        BY <3>1, <3>2
    <2> QED
      BY <2>1, <2>2 DEF AheadInv
  <1> QED
    BY <1>10, <1>11, <1>14 DEF RInv

\* A response that the kernel has room for goes out whole, to a client that
\* has none to read.
LEMMA ReplyResponses ==
  ASSUME HTypeOK, HTypeOK', EInv, EInv', CallInv, RInv, RespLen <= TxMax,
         NEW w \in Workers, Reply(w)
  PROVE  RInv'
  <1>1. UNCHANGED <<sessions, using, asked, want, wpc, cur, held, fdtab, conn, rx>>
    BY DEF Reply, map, client, vars, worker, kernel
  <1>2. wpc[w] = "read" /\ using[w] = "reply" /\ todo[w] = 1
    <2>1. using[w] = "reply" /\ todo[w] > 0
      BY DEF Reply
    <2>2. todo[w] = 1
      <3>1. todo[w] # 0
        BY <2>1
      <3> QED
        BY <3>1 DEF RInv, TodoInv
    <2>3. wpc[w] = "read"
      BY <2>1 DEF CallInv
    <2> QED
      BY <2>1, <2>2, <2>3
  <1>3. PICK f \in Fds, c \in Conns : cur[w] = f /\ fdtab[f] = c
    BY <1>2, OwnConnection
  <1>4. tx[c] = <<>> /\ conn[c] = "open"
    BY <1>2, <1>3, OwnConnection DEF RInv, TodoInv
  <1>5. want[c] = 1
    <2>1. RespLen \in Nat /\ want[c] \in 1 .. RespLen => Rest(want[c]) # <<>>
      BY RestTail
    <2> QED
      BY <1>4, <2>1, Types DEF RInv, TxInv
  <1>6. /\ todo'[w] = 0
        /\ \A v \in Workers : v # w => todo'[v] = todo[v]
        /\ \A d \in Conns : d # c => tx'[d] = tx[d]
    <2>1. todo \in [Workers -> Nat] /\ tx = [d \in Conns |-> tx[d]]
      BY Types DEF HTypeOK
    <2>2. todo' = [todo EXCEPT ![w] = @ - 1]
      BY DEF Reply
    <2>3. \A d \in Conns : d # c => tx'[d] = tx[d]
      BY <1>3, <2>1 DEF Reply
    <2> QED
      BY <1>2, <2>1, <2>2, <2>3
  <1>7. \/ tx'[c] = <<>>
        \/ RespLen >= 1 /\ tx'[c] = Rest(1)
    <2>1. CASE peer[c] = "reset"
      BY <1>3, <1>4, <2>1 DEF Reply
    <2>2. CASE peer[c] # "reset"
      <3>1. Len(tx[c]) = 0 /\ RespLen \in Nat /\ TxMax \in Nat
        BY <1>4, Types
      <3>2. tx'[c] = <<>> \o [k \in 1 .. RespLen |-> k]
        BY <1>3, <1>4, <2>2, <3>1 DEF Reply, HTypeOK
      <3>3. [k \in 1 .. RespLen |-> k] \in Seq(Nat)
        BY <3>1
      <3>4. tx'[c] = [k \in 1 .. RespLen |-> k]
        BY <3>2, <3>3, ConcatEmptySeq
      <3>5. [k \in 1 .. RespLen |-> k] = Rest(1)
        BY <3>1 DEF Rest
      <3>6. CASE RespLen = 0
        <4>1. Len(tx'[c]) = 0 /\ tx'[c] \in Seq(Nat)
          BY <3>1, <3>3, <3>4, <3>6
        <4> QED
          BY <4>1, EmptySeq
      <3> QED
        BY <3>1, <3>4, <3>5, <3>6
    <2> QED
      BY <2>1, <2>2
  <1>8. TxInv'
    <2>1. ASSUME NEW d \in Conns
          PROVE  \/ tx'[d] = <<>> /\ want'[d] = 1
                 \/ want'[d] \in 1 .. RespLen /\ tx'[d] = Rest(want'[d])
      <3>1. CASE d = c
        BY <1>1, <1>5, <1>7, <3>1, Types
      <3>2. CASE d # c
        BY <1>1, <1>6, <3>2 DEF RInv, TxInv
      <3> QED
        BY <3>1, <3>2
    <2> QED
      BY <2>1 DEF TxInv, Rest
  <1>9. QueueInv'
    BY <1>1, <1>4, <1>6 DEF RInv, QueueInv
  <1>10. TodoInv'
    <2>1. ASSUME NEW v \in Workers, todo'[v] # 0
          PROVE  using'[v] = "reply" /\ todo'[v] = 1 /\ tx'[fdtab'[cur'[v]]] = <<>>
      <3>1. v # w /\ todo[v] # 0 /\ using[v] = "reply" /\ todo[v] = 1
            /\ tx[fdtab[cur[v]]] = <<>>
        BY <1>6, <2>1 DEF RInv, TodoInv
      <3>2. ~Idle(v)
        BY <3>1 DEF CallInv, Idle
      <3>3. fdtab[cur[v]] \in Conns /\ fdtab[cur[v]] # c
        BY <1>2, <1>3, <3>1, <3>2, OwnConnection, HandledDescriptor
      <3> QED
        BY <1>1, <1>6, <3>1, <3>3
    <2> QED
      BY <2>1 DEF TodoInv
  <1>11. /\ \A g \in Fds : Session(g)' = Session(g)
         /\ \A v \in Workers : Reading(v)' = Reading(v)
         /\ \A d \in Conns : d # c => Unread(d)' = Unread(d)
         /\ \A d \in Conns, v \in Workers : d # c /\ v # w => Owed(v, d)' = Owed(v, d)
    BY <1>1, <1>6 DEF Session, Reading, Unread, Owed
  <1>12. Owed(w, c) = ReqLen /\ Unread(c)' <= ReqLen /\ Owed(w, c)' <= ReqLen
    <2>1. Owed(w, c) = ReqLen
      BY <1>2 DEF Owed
    <2>2. Unread(c)' \in {0, ReqLen} /\ Owed(w, c)' \in {0, ReqLen} /\ ReqLen \in Nat
      BY TypesNext
    <2> QED
      BY <2>1, <2>2
  <1>13. rx[c] + Session(f) + Reading(w) + ReqLen <= asked[c] + ReqLen - 1
    BY <1>3, <1>12 DEF RInv, AheadInv
  <1>14. AheadInv'
    <2>1. ASSUME NEW g \in Fds, NEW d \in Conns, fdtab'[g] = d
          PROVE  rx'[d] + Session(g)' + Unread(d)' <= asked'[d] + ReqLen - 1
      <3>1. CASE d = c
        <4>1. g = f
          BY <1>1, <1>2, <1>3, <2>1, <3>1, OwnConnection
        <4> QED
          BY <1>1, <1>11, <1>12, <1>13, <3>1, <4>1, Types, TypesNext
      <3>2. CASE d # c
        <4>1. rx[d] + Session(g) + Unread(d) <= asked[d] + ReqLen - 1
          BY <1>1, <2>1 DEF RInv, AheadInv
        <4> QED
          BY <1>1, <1>11, <3>2, <4>1
      <3> QED
        BY <3>1, <3>2
    <2>2. ASSUME NEW g \in Fds, NEW d \in Conns, fdtab'[g] = d,
                 NEW v \in Workers, cur'[v] = g
          PROVE  rx'[d] + Session(g)' + Reading(v)' + Owed(v, d)' <= asked'[d] + ReqLen - 1
      <3>1. CASE v = w
        <4>1. g = f /\ d = c
          BY <1>1, <1>3, <2>2, <3>1
        <4> QED
          BY <1>1, <1>11, <1>12, <1>13, <3>1, <4>1, Types, TypesNext
      <3>2. CASE v # w
        <4>1. d # c
          BY <1>1, <1>2, <1>3, <2>2, <3>2, OwnConnection
        <4>2. rx[d] + Session(g) + Reading(v) + Owed(v, d) <= asked[d] + ReqLen - 1
          BY <1>1, <2>2 DEF RInv, AheadInv
        <4> QED
          BY <1>1, <1>11, <3>2, <4>1, <4>2
      <3> QED
        BY <3>1, <3>2
    <2> QED
      BY <2>1, <2>2 DEF AheadInv
  <1> QED
    BY <1>8, <1>9, <1>10, <1>14 DEF RInv

-----------------------------------------------------------------------------
LEMMA CallbackResponses ==
  ASSUME HTypeOK, HTypeOK', EInv, EInv', CallInv, RInv, RespLen <= TxMax,
         NEW w \in Workers, HttpCallback(w)
  PROVE  RInv'
  <1>1. CASE BeginConnect(w) \/ BeginRead(w) \/ BeginDisconnect(w)
    BY <1>1, EnterResponses DEF BeginConnect, BeginRead, BeginDisconnect
  <1>2. CASE EndConnect(w) \/ EndDisconnect(w) \/ EndRead(w)
    BY <1>2, ReturnResponses
  <1>3. CASE EndFind(w)
    <2>1. CASE OnRead(w)
      BY <1>3, <2>1, ReturnResponses
    <2>2. CASE ~OnRead(w)
      BY <1>3, <2>2, ParseResponses DEF EndFind, Return
    <2> QED
      BY <2>1, <2>2
  <1>4. CASE Reply(w)
    BY <1>4, ReplyResponses
  <1> QED
    BY <1>1, <1>2, <1>3, <1>4 DEF HttpCallback

LEMMA NextRInv ==
  ASSUME ~Pipelined, RespLen <= TxMax, HTypeOK, HTypeOK', HInv, HInv', RInv, [HNext]_hvars
  PROVE  RInv'
  <1>1. EInv /\ EInv' /\ CallInv
    BY DEF HInv
  <1>2. CASE EngineStep
    BY <1>1, <1>2, LoopResponses, ClientResponses DEF EngineStep
  <1>3. CASE \E c \in Conns : Request(c) \/ ReadResponse(c)
    BY <1>1, <1>3, RequestResponses, ReadResponses
  <1>4. CASE \E w \in Workers : HttpCallback(w)
    BY <1>1, <1>4, CallbackResponses
  <1>5. CASE \E w \in Workers : Crash(w)
    BY <1>1, <1>5, EnterResponses
  <1>6. CASE UNCHANGED hvars
    BY <1>6 DEF hvars, vars, app, map, client, worker, kernel, RInv, TxInv, Rest, TodoInv,
       QueueInv, AheadInv, Session, Reading, Unread, Owed
  <1> QED
    BY <1>2, <1>3, <1>4, <1>5, <1>6 DEF HNext

\* Responses reach a client whole and in order over the kept-alive connection,
\* for any number of workers and whatever the operations of the shared map do
\* to the sessions, on two conditions: the client waits for one answer before
\* it asks again, and the kernel takes a whole response at once, so that it
\* does not matter that the result of Send is ignored (server.cpp:27-31, 59).
THEOREM ResponsesInOrder ==
  ASSUME ~Pipelined, RespLen <= TxMax
  PROVE  HSpec => []ResponsesWhole
  <1>1. ASSUME HInit PROVE RInv
    <2>1. ReqLen \in Nat \ {0}
      BY HttpAssumption DEF HttpAssumption
    <2>2. \A f \in Fds : fdtab[f] \notin Conns
      BY <1>1, EngineAssumption DEF HInit, Init, EngineAssumption
    <2> QED
      BY <1>1, <2>1, <2>2 DEF HInit, Init, RInv, TxInv, TodoInv, QueueInv, AheadInv
  <1>2. RInv => ResponsesWhole
    BY RestTail DEF RInv, TxInv, ResponsesWhole
  <1>3. HTypeOK /\ HTypeOK' /\ HInv /\ HInv' /\ RInv /\ [HNext]_hvars => RInv'
    BY NextRInv
  <1> QED
    BY <1>1, <1>2, <1>3, AlwaysHInv, HttpTypeCorrect, PTL DEF HSpec
==============================================================================
