------------------------ MODULE MultiReactorServer ------------------------
(***************************************************************************)
(* The engine of 09_MultiReactorEngine and 10_HTTP: every worker thread    *)
(* has a listening socket (SO_REUSEPORT), an epoll instance and a map of   *)
(* client sockets of its own; what the workers share is the file           *)
(* descriptor table of the process and running_.                           *)
(*                                                                         *)
(* A step of a worker is a piece of workerLoop between two points at which *)
(* another thread, a client or a callback can make a difference.  The      *)
(* steps OnConnect, OnRead and OnDisconnect are the return of a callback;  *)
(* HttpServer says what the callbacks of 10_HTTP/server.cpp do.            *)
(***************************************************************************)
EXTENDS Integers, FiniteSets

CONSTANTS
  Workers,     \* worker threads
  Conns,       \* the connections clients make
  Fds,         \* descriptors the process may have open for client sockets
  ListenFd,    \* a worker's own listening socket, as an event names it
  NoFd, NoConn,
  RxMax,       \* units the kernel buffers for a connection
  RecvMax,     \* most units one Recv returns (1023 in the code)
  BatchMax,    \* most events one epoll_wait returns (1024 in the code)
  Faults,      \* which of "bind", "epoll", "add" and "wait" may fail
  MayStop      \* whether stop is ever called

ASSUME EngineAssumption ==
  /\ NoFd \notin Fds
  /\ ListenFd \notin Fds
  /\ NoConn \notin Conns
  /\ RxMax \in Nat /\ RecvMax \in Nat \ {0} /\ BatchMax \in Nat \ {0}
  /\ Faults \subseteq {"bind", "epoll", "add", "wait"}
  /\ MayStop \in BOOLEAN

VARIABLES
  running,    \* running_
  wpc,        \* where each worker is in workerLoop
  batch,      \* events of cev not yet looked at
  cur,        \* client_fd or event_fd of the event being handled
  held,       \* units in buf, returned by Recv and not yet given to on_read_
  clients,    \* the keys of clients_map: each key's socket owns that descriptor
  armed,      \* descriptors whose EPOLLONESHOT registration is armed
  backlog,    \* connections in the accept queue of the listening socket
  conn,       \* life of a connection in the server's kernel
  peer,       \* the client's end: "open", "closed" or "reset"
  rx,         \* units received by the kernel and not yet by Recv
  fdtab       \* the connection a descriptor refers to, NoConn when it is free

worker == <<wpc, batch, cur, held, clients, armed>>
kernel == <<backlog, conn, rx, fdtab>>
vars   == <<running, worker, kernel, peer>>

TypeOK ==
  /\ running \in BOOLEAN
  /\ wpc \in [Workers -> {"bind", "epoll", "loop", "wait", "dispatch", "connect",
                          "recv", "read", "closing", "erase", "exited"}]
  /\ batch \in [Workers -> SUBSET (Fds \cup {ListenFd})]
  /\ cur \in [Workers -> Fds \cup {NoFd}]
  /\ held \in [Workers -> 0 .. RecvMax]
  /\ clients \in [Workers -> SUBSET Fds]
  /\ armed \in [Workers -> SUBSET Fds]
  /\ backlog \in [Workers -> SUBSET Conns]
  /\ conn \in [Conns -> {"idle", "queued", "open", "closed", "dropped"}]
  /\ peer \in [Conns -> {"open", "closed", "reset"}]
  /\ rx \in [Conns -> 0 .. RxMax]
  /\ fdtab \in [Fds -> Conns \cup {NoConn}]

Free == {f \in Fds : fdtab[f] = NoConn}

\* recv would not return EAGAIN.
Readable(c) == rx[c] > 0 \/ peer[c] # "open"

Goto(w, label) == wpc' = [wpc EXCEPT ![w] = label]

-----------------------------------------------------------------------------
(* The clients, and the kernel on the server's side. *)

Listening(w) == wpc[w] \notin {"bind", "exited"}

\* The kernel hands a new connection to one of the listening sockets.
ClientConnects(c) ==
  /\ conn[c] = "idle"
  /\ \E w \in Workers :
       /\ Listening(w)
       /\ backlog' = [backlog EXCEPT ![w] = @ \cup {c}]
  /\ conn' = [conn EXCEPT ![c] = "queued"]
  /\ UNCHANGED <<running, worker, peer, rx, fdtab>>

ClientSends(c) ==
  /\ conn[c] \in {"queued", "open"}
  /\ peer[c] = "open"
  /\ rx[c] < RxMax
  /\ rx' = [rx EXCEPT ![c] = @ + 1]
  /\ UNCHANGED <<running, worker, backlog, conn, peer, fdtab>>

ClientCloses(c) ==
  /\ conn[c] \in {"queued", "open"}
  /\ peer[c] = "open"
  /\ peer' = [peer EXCEPT ![c] = "closed"]
  /\ UNCHANGED <<running, worker, kernel>>

\* A reset may take the data not yet received with it.
ClientResets(c) ==
  /\ conn[c] \in {"queued", "open"}
  /\ peer[c] # "reset"
  /\ peer' = [peer EXCEPT ![c] = "reset"]
  /\ \E n \in {0, rx[c]} : rx' = [rx EXCEPT ![c] = n]
  /\ UNCHANGED <<running, worker, backlog, conn, fdtab>>

-----------------------------------------------------------------------------
(* Start and end of a worker. *)

\* Mutation: a descriptor is dropped without close.
Leaked(fs) == fdtab

\* ~TcpSocket of the sockets that own the descriptors fs.
Closed(fs) == [f \in Fds |-> IF f \in fs THEN NoConn ELSE fdtab[f]]

\* workerLoop returns: the listening socket and every socket of clients_map
\* are closed by their destructors, without a callback.
Leave(w) ==
  /\ conn' = [c \in Conns |->
                IF c \in backlog[w] \/ \E f \in clients[w] : fdtab[f] = c
                THEN "dropped" ELSE conn[c]]
  /\ fdtab' = Closed(clients[w])
  /\ backlog' = [backlog EXCEPT ![w] = {}]
  /\ clients' = [clients EXCEPT ![w] = {}]
  /\ armed' = [armed EXCEPT ![w] = {}]
  /\ Goto(w, "exited")
  /\ UNCHANGED <<batch, cur, held, rx>>

\* Bind, Listen and SetNonBlocking; a worker that fails here just returns.
Bind(w) ==
  /\ wpc[w] = "bind"
  /\ \/ Goto(w, "epoll")
     \/ "bind" \in Faults /\ Goto(w, "exited")
  /\ UNCHANGED <<running, batch, cur, held, clients, armed, kernel, peer>>

\* epoll_create1 and the registration of the listening socket.
EpollSetup(w) ==
  /\ wpc[w] = "epoll"
  /\ \/ Goto(w, "loop") /\ UNCHANGED <<batch, cur, held, clients, armed, kernel>>
     \/ "epoll" \in Faults /\ Leave(w)
  /\ UNCHANGED <<running, peer>>

\* stop clears running_ (and joins the workers, which changes nothing here).
Stop ==
  /\ MayStop /\ running
  /\ running' = FALSE
  /\ UNCHANGED <<worker, kernel, peer>>

-----------------------------------------------------------------------------
(* The event loop. *)

\* while (running_.load())
TestRunning(w) ==
  /\ wpc[w] = "loop"
  /\ \/ running /\ Goto(w, "wait") /\ UNCHANGED <<batch, cur, held, clients, armed, kernel>>
     \/ ~running /\ Leave(w)
  /\ UNCHANGED <<running, peer>>

Ready(w) == {f \in armed[w] : Readable(fdtab[f])}
              \cup (IF backlog[w] # {} THEN {ListenFd} ELSE {})

\* Mutation: epoll_wait without a timeout.
NoTimeout(w) == FALSE

\* epoll_wait returns nothing: its 100 ms are over, or EINTR.
Timeout(w) ==
  /\ Ready(w) = {}
  /\ Goto(w, "loop")
  /\ UNCHANGED <<batch, cur, held, clients, armed, kernel>>

\* epoll_wait returns events and disarms the client sockets among them, or
\* nothing; on any error but EINTR the loop is left.
EpollWait(w) ==
  /\ wpc[w] = "wait"
  /\ \/ /\ Ready(w) # {}
        /\ \E events \in SUBSET Ready(w) :
             /\ \/ events = Ready(w) /\ Cardinality(events) <= BatchMax
                \/ Cardinality(events) = BatchMax
             /\ batch' = [batch EXCEPT ![w] = events]
             /\ armed' = [armed EXCEPT ![w] = @ \ events]
        /\ Goto(w, "dispatch")
        /\ UNCHANGED <<cur, held, clients, kernel>>
     \/ Timeout(w)
     \/ "wait" \in Faults /\ Leave(w)
  /\ UNCHANGED <<running, peer>>

EndOfBatch(w) ==
  /\ wpc[w] = "dispatch" /\ batch[w] = {}
  /\ Goto(w, "loop")
  /\ UNCHANGED <<running, batch, cur, held, clients, armed, kernel, peer>>

\* Mutation: the failing branch leaves the descriptor open.
RegisterLeaking(w, c, f) ==
  /\ fdtab' = [fdtab EXCEPT ![f] = c]
  /\ conn' = [conn EXCEPT ![c] = "open"]
  /\ \/ /\ armed' = [armed EXCEPT ![w] = @ \cup {f}]
        /\ cur' = [cur EXCEPT ![w] = f]
        /\ Goto(w, "connect")
     \/ /\ "add" \in Faults
        /\ UNCHANGED <<wpc, cur, armed>>

\* EPOLL_CTL_ADD of the accepted socket; when it fails nothing is done, and
\* the destructor of client_sock closes the descriptor.
Register(w, c, f) ==
  \/ /\ fdtab' = [fdtab EXCEPT ![f] = c]
     /\ conn' = [conn EXCEPT ![c] = "open"]
     /\ armed' = [armed EXCEPT ![w] = @ \cup {f}]
     /\ cur' = [cur EXCEPT ![w] = f]
     /\ Goto(w, "connect")
  \/ /\ "add" \in Faults
     /\ conn' = [conn EXCEPT ![c] = "dropped"]
     /\ UNCHANGED <<wpc, cur, armed, fdtab>>

\* The listening socket's event.  Without a free descriptor Accept fails and
\* the connection stays in the accept queue.
Accept(w) ==
  /\ wpc[w] = "dispatch" /\ ListenFd \in batch[w]
  /\ batch' = [batch EXCEPT ![w] = @ \ {ListenFd}]
  /\ \/ /\ Free = {}
        /\ UNCHANGED <<wpc, cur, armed, kernel>>
     \/ \E c \in backlog[w], f \in Free :
          /\ backlog' = [backlog EXCEPT ![w] = @ \ {c}]
          /\ Register(w, c, f)
          /\ UNCHANGED rx
  /\ UNCHANGED <<running, held, clients, peer>>

\* Mutation: the key is client_sock.GetFd() after the move, which is -1.
OnConnectMovedFrom(w) ==
  /\ wpc[w] = "connect"
  /\ clients' = [clients EXCEPT ![w] = @ \cup {NoFd}]
  /\ cur' = [cur EXCEPT ![w] = NoFd]
  /\ Goto(w, "dispatch")
  /\ UNCHANGED <<running, batch, held, armed, kernel, peer>>

\* on_connect_ returns and the socket moves into clients_map.
OnConnect(w) ==
  /\ wpc[w] = "connect"
  /\ clients' = [clients EXCEPT ![w] = @ \cup {cur[w]}]
  /\ cur' = [cur EXCEPT ![w] = NoFd]
  /\ Goto(w, "dispatch")
  /\ UNCHANGED <<running, batch, held, armed, kernel, peer>>

\* Mutation: the event is looked at again after it was handled.
ClientEventTwice(w) ==
  /\ wpc[w] = "dispatch"
  /\ \E f \in batch[w] \ {ListenFd} :
       IF f \in clients[w]
       THEN cur' = [cur EXCEPT ![w] = f] /\ Goto(w, "recv")
       ELSE UNCHANGED <<cur, wpc>>
  /\ UNCHANGED <<running, batch, held, clients, armed, kernel, peer>>

\* A client's event; one whose descriptor is not in clients_map is skipped.
ClientEvent(w) ==
  /\ wpc[w] = "dispatch"
  /\ \E f \in batch[w] \ {ListenFd} :
       /\ batch' = [batch EXCEPT ![w] = @ \ {f}]
       /\ IF f \in clients[w]
          THEN cur' = [cur EXCEPT ![w] = f] /\ Goto(w, "recv")
          ELSE UNCHANGED <<cur, wpc>>
  /\ UNCHANGED <<running, held, clients, armed, kernel, peer>>

\* The three results of a Recv of the drain loop: data ...
RecvData(w, c) ==
  LET n == IF rx[c] < RecvMax THEN rx[c] ELSE RecvMax
  IN  /\ rx[c] > 0
      /\ held' = [held EXCEPT ![w] = n]
      /\ rx' = [rx EXCEPT ![c] = @ - n]
      /\ Goto(w, "read")
      /\ UNCHANGED <<cur, armed, fdtab>>

\* Mutation: a closed connection is given up before it is drained.
RecvEndUndrained(w, c) ==
  /\ peer[c] # "open"
  /\ Goto(w, "closing")
  /\ UNCHANGED <<held, rx, cur, armed, fdtab>>

\* ... the end of the connection, or an error ...
RecvEnd(w, c) ==
  /\ rx[c] = 0 /\ peer[c] # "open"
  /\ Goto(w, "closing")
  /\ UNCHANGED <<held, rx, cur, armed, fdtab>>

\* Mutation: EPOLL_CTL_MOD is forgotten.
RearmForgotten(w) == UNCHANGED armed

\* ... or EAGAIN, after which EPOLL_CTL_MOD arms the descriptor again.
Rearm(w) == armed' = [armed EXCEPT ![w] = @ \cup {cur[w]}]

RecvAgain(w, c) ==
  /\ rx[c] = 0 /\ peer[c] = "open"
  /\ Rearm(w)
  /\ cur' = [cur EXCEPT ![w] = NoFd]
  /\ Goto(w, "dispatch")
  /\ UNCHANGED <<held, rx, fdtab>>

Recv(w) ==
  /\ wpc[w] = "recv"
  /\ LET c == fdtab[cur[w]] IN RecvData(w, c) \/ RecvEnd(w, c) \/ RecvAgain(w, c)
  /\ UNCHANGED <<running, batch, clients, backlog, conn, peer>>

\* on_read_ returns.
OnRead(w) ==
  /\ wpc[w] = "read"
  /\ held' = [held EXCEPT ![w] = 0]
  /\ Goto(w, "recv")
  /\ UNCHANGED <<running, batch, cur, clients, armed, kernel, peer>>

\* on_disconnect_ returns; the descriptor is still open.
OnDisconnect(w) ==
  /\ wpc[w] = "closing"
  /\ Goto(w, "erase")
  /\ UNCHANGED <<running, batch, cur, held, clients, armed, kernel, peer>>

\* EPOLL_CTL_DEL and clients_map.erase, which closes the descriptor.
Erase(w) ==
  /\ wpc[w] = "erase"
  /\ armed' = [armed EXCEPT ![w] = @ \ {cur[w]}]
  /\ clients' = [clients EXCEPT ![w] = @ \ {cur[w]}]
  /\ conn' = [conn EXCEPT ![fdtab[cur[w]]] = "closed"]
  /\ fdtab' = Closed({cur[w]})
  /\ cur' = [cur EXCEPT ![w] = NoFd]
  /\ Goto(w, "dispatch")
  /\ UNCHANGED <<running, batch, held, backlog, rx, peer>>

-----------------------------------------------------------------------------

\* start has stored running_ and created the workers.
Init ==
  /\ running = TRUE
  /\ wpc = [w \in Workers |-> "bind"]
  /\ batch = [w \in Workers |-> {}]
  /\ cur = [w \in Workers |-> NoFd]
  /\ held = [w \in Workers |-> 0]
  /\ clients = [w \in Workers |-> {}]
  /\ armed = [w \in Workers |-> {}]
  /\ backlog = [w \in Workers |-> {}]
  /\ conn = [c \in Conns |-> "idle"]
  /\ peer = [c \in Conns |-> "open"]
  /\ rx = [c \in Conns |-> 0]
  /\ fdtab = [f \in Fds |-> NoConn]

Client(c) ==
  ClientConnects(c) \/ ClientSends(c) \/ ClientCloses(c) \/ ClientResets(c)

Callback(w) == OnConnect(w) \/ OnRead(w) \/ OnDisconnect(w)

\* What a worker does outside the callbacks.
Loop(w) ==
  \/ Bind(w) \/ EpollSetup(w) \/ TestRunning(w) \/ EpollWait(w) \/ EndOfBatch(w)
  \/ Accept(w) \/ ClientEvent(w) \/ Recv(w) \/ Erase(w)

Next ==
  \/ Stop
  \/ \E c \in Conns : Client(c)
  \/ \E w \in Workers : Loop(w) \/ Callback(w)

Spec == Init /\ [][Next]_vars

\* Every worker thread is scheduled, and callbacks return.
FairSpec == Spec /\ \A w \in Workers : WF_vars(Loop(w) \/ Callback(w))

-----------------------------------------------------------------------------
(* Safety. *)

\* The descriptors worker w will close: those of clients_map and, until
\* on_connect_ has returned, that of the local client_sock.
Owned(w) == clients[w] \cup (IF wpc[w] = "connect" THEN {cur[w]} ELSE {})

\* Every open descriptor has exactly one owning TcpSocket in one worker, and
\* refers to a connection of its own: nothing leaks, nothing is closed twice,
\* no worker closes what the kernel has meanwhile given another one
\* (MultiReactorServer.cpp:75-87, 118-122), and emplace at line 87 never
\* finds its key taken, which would close the new connection.
OneOwner ==
  /\ \A f \in Fds : fdtab[f] # NoConn <=> \E w \in Workers : f \in Owned(w)
  /\ \A v, w \in Workers : v # w => Owned(v) \cap Owned(w) = {}
  /\ \A w \in Workers : wpc[w] = "connect" => cur[w] \notin clients[w]
  /\ \A f, g \in Fds : f # g /\ fdtab[f] = fdtab[g] => fdtab[f] = NoConn

\* A client socket's registration is armed, or its event waits in the batch,
\* or is being handled, and only one of the three: no client is forgotten
\* with EPOLLONESHOT spent, and none is handled twice for one event
\* (MultiReactorServer.cpp:81-87, 91, 123-128).
OneWakeup ==
  \A w \in Workers : \A f \in clients[w] :
    /\ f \in armed[w] \/ f \in batch[w] \/ f = cur[w]
    /\ ~(f \in armed[w] /\ f \in batch[w])
    /\ f = cur[w] => f \notin armed[w] \cup batch[w]

\* An event refers to the connection it was reported for: the descriptor is
\* not closed, or closed and reused, between epoll_wait and its turn, and the
\* find of MultiReactorServer.cpp:92 never fails.
EventsFresh ==
  \A w \in Workers : batch[w] \ {ListenFd} \subseteq clients[w]

\* The callbacks of each connection come as ConnectionService says.
FdOf(c) == CHOOSE f \in Fds : fdtab[f] = c

At(c, label) == \E w \in Workers : wpc[w] = label /\ cur[w] = FdOf(c)

Status(c) ==
  CASE conn[c] \in {"idle", "queued"}         -> "none"
    [] conn[c] = "open" /\ At(c, "connect")   -> "none"
    [] conn[c] = "open" /\ At(c, "erase")     -> "disconnected"
    [] conn[c] = "open" /\ ~At(c, "connect") /\ ~At(c, "erase") -> "connected"
    [] conn[c] = "closed"                     -> "disconnected"
    [] conn[c] = "dropped"                    -> "dropped"

InFlight(c) ==
  rx[c] + (IF conn[c] = "open" /\ At(c, "read")
           THEN held[CHOOSE w \in Workers : wpc[w] = "read" /\ cur[w] = FdOf(c)]
           ELSE 0)

Service == INSTANCE ConnectionService WITH
  DropsLive <- "wait" \in Faults,
  status    <- [c \in Conns |-> Status(c)],
  inflight  <- [c \in Conns |-> InFlight(c)]

CallbackProtocol == Service!SSpec

-----------------------------------------------------------------------------
(* Liveness.  The drain loop (MultiReactorServer.cpp:99-116) has no bound: a *)
(* client that sends as fast as the worker reads keeps it there, and the     *)
(* worker's other clients wait.  What is promised is promised when every     *)
(* drain ends.                                                               *)

DrainsEnd == \A w \in Workers : []<>(wpc[w] \notin {"recv", "read"})

\* What a connected client has sent is read, and its closing is noticed,
\* through any number of re-armings and other clients' events.
ClientsServed ==
  DrainsEnd => \A c \in Conns :
    /\ conn[c] = "open" /\ rx[c] > 0 ~> rx[c] = 0 \/ conn[c] # "open"
    /\ conn[c] = "open" /\ peer[c] # "open" ~> conn[c] # "open"

\* A connection in an accept queue is accepted, also when descriptors had run
\* out (MultiReactorServer.cpp:76), provided that clients end their
\* connections.
QueueServed ==
  DrainsEnd /\ (\A c \in Conns : conn[c] = "open" ~> peer[c] # "open")
    => \A c \in Conns : conn[c] = "queued" ~> conn[c] # "queued"

\* After stop every worker leaves its loop.
WorkersStop == DrainsEnd => (~running ~> \A w \in Workers : wpc[w] = "exited")
=============================================================================
