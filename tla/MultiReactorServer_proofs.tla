--------------------- MODULE MultiReactorServer_proofs ---------------------
(***************************************************************************)
(* Proofs about MultiReactorServer for any number of workers, connections  *)
(* and descriptors, and any of the faults: who owns which descriptor, and  *)
(* where the wake-up of each client is.                                    *)
(***************************************************************************)
EXTENDS MultiReactorServer, TLAPS

-----------------------------------------------------------------------------
(* The inductive invariant: the four parts of OneOwner and OneWakeup, and   *)
(* what each of them needs of the program counters and of the kernel.       *)

\* The worker is between two events, in none of the handlers.
Idle(w) == wpc[w] \in {"bind", "epoll", "loop", "wait", "dispatch", "exited"}

Handlers == {"recv", "read", "closing", "erase"}

\* cur names a client of the worker exactly while one is being handled.
CurInv ==
  \A w \in Workers :
    /\ Idle(w) <=> cur[w] = NoFd
    /\ wpc[w] = "connect" => cur[w] \in armed[w] /\ cur[w] \notin clients[w]
    /\ wpc[w] \in Handlers => cur[w] \in clients[w]

\* A registration or an event belongs to a descriptor of the same worker.
EventInv ==
  \A w \in Workers :
    /\ armed[w] \subseteq Owned(w)
    /\ batch[w] \subseteq clients[w] \cup {ListenFd}
    /\ wpc[w] \in {"bind", "epoll", "loop", "wait", "exited"} => batch[w] = {}

\* Every open descriptor has one owner.
OwnerInv ==
  /\ \A w \in Workers : \A f \in Owned(w) : fdtab[f] # NoConn
  /\ \A f \in Fds : fdtab[f] # NoConn => \E w \in Workers : f \in Owned(w)
  /\ \A v, w \in Workers : v # w => Owned(v) \cap Owned(w) = {}

\* A connection is in one accept queue or has one descriptor, not both.
ConnInv ==
  /\ \A w \in Workers : \A c \in backlog[w] : conn[c] = "queued"
  /\ \A v, w \in Workers : v # w => backlog[v] \cap backlog[w] = {}
  /\ \A f \in Fds : fdtab[f] # NoConn => conn[fdtab[f]] = "open"
  /\ \A f, g \in Fds : f # g /\ fdtab[f] = fdtab[g] => fdtab[f] = NoConn

EInv == TypeOK /\ CurInv /\ EventInv /\ OwnerInv /\ ConnInv /\ OneWakeup

LEMMA InitEInv == Init => EInv
  BY EngineAssumption DEF EngineAssumption, Init, EInv, TypeOK, CurInv, EventInv, OwnerInv,
     ConnInv, OneWakeup, Owned, Idle, Handlers

-----------------------------------------------------------------------------
(* Steps that leave descriptors and registrations alone. *)

\* A step of a worker that moves it between places outside the handlers.
LEMMA MoveEInv ==
  ASSUME EInv, NEW w \in Workers, NEW label \in {"epoll", "loop", "wait", "exited"},
         Idle(w), batch[w] = {}, Goto(w, label),
         UNCHANGED <<batch, cur, held, clients, armed, kernel, peer, running>>
  PROVE  EInv'
  <1> USE DEF EInv, Goto, kernel
  <1>1. \A v \in Workers : Owned(v)' = Owned(v)
    BY DEF Owned, TypeOK, Idle
  <1>2. TypeOK'
    BY DEF TypeOK
  <1>3. CurInv'
    BY DEF CurInv, TypeOK, Idle, Handlers
  <1>4. EventInv'
    BY <1>1 DEF EventInv, TypeOK, Idle
  <1>5. OwnerInv'
    BY <1>1 DEF OwnerInv
  <1>6. ConnInv'
    BY DEF ConnInv
  <1>7. OneWakeup'
    BY DEF OneWakeup
  <1> QED
    BY <1>2, <1>3, <1>4, <1>5, <1>6, <1>7

LEMMA ClientEInv ==
  ASSUME EInv, NEW c \in Conns, Client(c)
  PROVE  EInv'
  <1> USE DEF EInv
  <1>1. UNCHANGED <<worker, fdtab, running>>
    BY DEF Client, ClientConnects, ClientSends, ClientCloses, ClientResets, kernel
  <1> USE DEF worker
  <1>2. CurInv' /\ EventInv' /\ OwnerInv' /\ OneWakeup'
    BY <1>1 DEF CurInv, EventInv, OwnerInv, OneWakeup, Owned, Idle
  <1>3. CASE ClientConnects(c)
    <2>1. TypeOK'
      BY <1>1, <1>3 DEF TypeOK, ClientConnects
    <2>2. ConnInv'
      BY <1>1, <1>3 DEF ConnInv, TypeOK, ClientConnects
    <2> QED
      BY <1>2, <2>1, <2>2
  <1>4. CASE ClientSends(c) \/ ClientCloses(c) \/ ClientResets(c)
    <2>1. TypeOK'
      BY <1>1, <1>4, EngineAssumption
         DEF TypeOK, ClientSends, ClientCloses, ClientResets, kernel, EngineAssumption
    <2>2. ConnInv'
      BY <1>1, <1>4 DEF ConnInv, ClientSends, ClientCloses, ClientResets, kernel
    <2> QED
      BY <1>2, <2>1, <2>2
  <1> QED
    BY <1>3, <1>4 DEF Client

-----------------------------------------------------------------------------
(* The end of a worker. *)

LEMMA LeaveEInv ==
  ASSUME EInv, NEW w \in Workers, wpc[w] \in {"epoll", "loop", "wait"},
         Leave(w), UNCHANGED <<running, peer>>
  PROVE  EInv'
  <1> USE DEF EInv, Goto
  <1>1. cur[w] = NoFd /\ batch[w] = {} /\ Owned(w) = clients[w]
    BY DEF CurInv, EventInv, Idle, Owned
  <1>2. /\ Owned(w)' = {}
        /\ \A v \in Workers : v # w => Owned(v)' = Owned(v)
    BY DEF Leave, TypeOK, Owned
  <1>3. \A f \in Fds : fdtab'[f] = IF f \in Owned(w) THEN NoConn ELSE fdtab[f]
    BY <1>1 DEF Leave, Closed
  <1>4. TypeOK'
    BY DEF Leave, Closed, TypeOK
  <1>5. CurInv'
    BY <1>1 DEF Leave, CurInv, TypeOK, Idle, Handlers
  <1>6. EventInv'
    BY <1>1, <1>2 DEF Leave, EventInv, TypeOK
  <1>7. OwnerInv'
    <2>1. \A v \in Workers : Owned(v) \subseteq Fds
      BY DEF TypeOK, Owned, CurInv, Idle
    <2>2. \A v \in Workers : \A f \in Owned(v)' : fdtab'[f] # NoConn
      BY <1>2, <1>3, <2>1 DEF OwnerInv
    <2>3. \A f \in Fds : fdtab'[f] # NoConn => \E v \in Workers : f \in Owned(v)'
      BY <1>2, <1>3 DEF OwnerInv
    <2>4. \A u, v \in Workers : u # v => Owned(u)' \cap Owned(v)' = {}
      BY <1>2 DEF OwnerInv
    <2> QED
      BY <2>2, <2>3, <2>4 DEF OwnerInv
  <1>8. ConnInv'
    <2>1. \A v \in Workers : \A c \in backlog'[v] : conn'[c] = "queued"
      <3>1. ASSUME NEW v \in Workers, NEW c \in backlog'[v]
            PROVE  v # w /\ c \in backlog[v] /\ conn'[c] = conn[c] /\ conn[c] = "queued"
        <4>1. v # w /\ c \in backlog[v] /\ c \in Conns /\ c \notin backlog[w]
          BY <3>1 DEF Leave, TypeOK, ConnInv
        <4>2. conn[c] = "queued"
          BY <4>1 DEF ConnInv
        <4>3. \A f \in clients[w] : fdtab[f] # c
          BY <1>1, <4>1, <4>2, EngineAssumption DEF ConnInv, OwnerInv, TypeOK, EngineAssumption
        <4> QED
          BY <4>1, <4>2, <4>3 DEF Leave
      <3> QED
        BY <3>1
    <2>2. \A u, v \in Workers : u # v => backlog'[u] \cap backlog'[v] = {}
      BY DEF Leave, TypeOK, ConnInv
    <2>3. ASSUME NEW f \in Fds, fdtab'[f] # NoConn
          PROVE  conn'[fdtab'[f]] = "open"
      <3>1. f \notin clients[w] /\ fdtab'[f] = fdtab[f] /\ fdtab[f] # NoConn
        BY <1>1, <1>3, <2>3
      <3>2. conn[fdtab[f]] = "open" /\ fdtab[f] \in Conns
        BY <3>1 DEF ConnInv, TypeOK
      <3>3. fdtab[f] \notin backlog[w]
        BY <3>2 DEF ConnInv
      <3>4. \A g \in clients[w] : fdtab[g] # fdtab[f]
        BY <3>1 DEF ConnInv, TypeOK
      <3> QED
        BY <3>1, <3>2, <3>3, <3>4 DEF Leave
    <2>4. \A f, g \in Fds : f # g /\ fdtab'[f] = fdtab'[g] => fdtab'[f] = NoConn
      BY <1>3 DEF ConnInv
    <2> QED
      BY <2>1, <2>2, <2>3, <2>4 DEF ConnInv
  <1>9. OneWakeup'
    BY DEF Leave, OneWakeup, TypeOK
  <1> QED
    BY <1>4, <1>5, <1>6, <1>7, <1>8, <1>9

-----------------------------------------------------------------------------
(* The event loop. *)

\* epoll_wait moves wake-ups from armed to the batch.
LEMMA EventsEInv ==
  ASSUME EInv, NEW w \in Workers, wpc[w] = "wait",
         NEW events \in SUBSET Ready(w),
         batch' = [batch EXCEPT ![w] = events],
         armed' = [armed EXCEPT ![w] = @ \ events],
         Goto(w, "dispatch"),
         UNCHANGED <<cur, held, clients, kernel, running, peer>>
  PROVE  EInv'
  <1> USE DEF EInv, Goto, kernel
  <1>1. /\ events \subseteq armed[w] \cup {ListenFd}
        /\ armed[w] \subseteq clients[w]
        /\ cur[w] = NoFd
    BY DEF Ready, EventInv, Owned, CurInv, Idle
  <1>2. \A v \in Workers : Owned(v)' = Owned(v)
    BY DEF Owned, TypeOK
  <1>3. TypeOK'
    BY <1>1 DEF TypeOK
  <1>4. CurInv'
    BY DEF CurInv, TypeOK, Idle, Handlers
  <1>5. EventInv'
    BY <1>1, <1>2 DEF EventInv, TypeOK
  <1>6. OwnerInv' /\ ConnInv'
    BY <1>2 DEF OwnerInv, ConnInv
  <1>7. OneWakeup'
    <2>1. \A f \in clients[w] : f # cur[w]
      BY <1>1, EngineAssumption DEF TypeOK, EngineAssumption
    <2>2. batch[w] = {}
      BY DEF EventInv
    <2> QED
      BY <2>1, <2>2, <1>1 DEF OneWakeup, TypeOK
  <1> QED
    BY <1>3, <1>4, <1>5, <1>6, <1>7

\* Taking the listening socket's event off the batch changes no client.
LEMMA AcceptNothingEInv ==
  ASSUME EInv, NEW w \in Workers, wpc[w] = "dispatch",
         batch' = [batch EXCEPT ![w] = @ \ {ListenFd}],
         UNCHANGED <<wpc, cur, armed, kernel, running, held, clients, peer>>
  PROVE  EInv'
  <1> USE DEF EInv, kernel
  <1>1. TypeOK'
    BY DEF TypeOK
  <1>2. CurInv' /\ OwnerInv' /\ ConnInv'
    BY DEF CurInv, OwnerInv, ConnInv, Owned, Idle
  <1>3. EventInv'
    BY DEF EventInv, Owned, TypeOK
  <1>4. OneWakeup'
    BY EngineAssumption DEF OneWakeup, TypeOK, EngineAssumption
  <1> QED
    BY <1>1, <1>2, <1>3, <1>4

\* A connection is accepted and dropped: EPOLL_CTL_ADD failed.
LEMMA AcceptDroppedEInv ==
  ASSUME EInv, NEW w \in Workers, wpc[w] = "dispatch",
         NEW c \in backlog[w],
         batch' = [batch EXCEPT ![w] = @ \ {ListenFd}],
         backlog' = [backlog EXCEPT ![w] = @ \ {c}],
         conn' = [conn EXCEPT ![c] = "dropped"],
         UNCHANGED <<wpc, cur, armed, fdtab, rx, running, held, clients, peer>>
  PROVE  EInv'
  <1> USE DEF EInv
  <1>1. c \in Conns /\ conn[c] = "queued"
    BY DEF TypeOK, ConnInv
  <1>2. TypeOK'
    BY DEF TypeOK
  <1>3. CurInv' /\ OwnerInv'
    BY DEF CurInv, OwnerInv, Owned, Idle
  <1>4. EventInv'
    BY DEF EventInv, Owned, TypeOK
  <1>5. OneWakeup'
    BY EngineAssumption DEF OneWakeup, TypeOK, EngineAssumption
  <1>6. ConnInv'
    BY <1>1 DEF ConnInv, TypeOK
  <1> QED
    BY <1>2, <1>3, <1>4, <1>5, <1>6

\* A connection is accepted and registered: the worker owns the descriptor
\* before it is in clients_map.
LEMMA AcceptedEInv ==
  ASSUME EInv, NEW w \in Workers, wpc[w] = "dispatch",
         NEW c \in backlog[w], NEW f \in Free,
         batch' = [batch EXCEPT ![w] = @ \ {ListenFd}],
         backlog' = [backlog EXCEPT ![w] = @ \ {c}],
         fdtab' = [fdtab EXCEPT ![f] = c],
         conn' = [conn EXCEPT ![c] = "open"],
         armed' = [armed EXCEPT ![w] = @ \cup {f}],
         cur' = [cur EXCEPT ![w] = f],
         Goto(w, "connect"),
         UNCHANGED <<rx, running, held, clients, peer>>
  PROVE  EInv'
  <1> USE DEF EInv, Goto
  <1>1. c \in Conns /\ conn[c] = "queued" /\ f \in Fds /\ fdtab[f] = NoConn
    BY DEF TypeOK, ConnInv, Free
  <1>2. \A v \in Workers : f \notin Owned(v) /\ f \notin clients[v]
    BY <1>1 DEF OwnerInv, Owned
  <1>3. Owned(w) = clients[w] /\ Owned(w)' = clients[w] \cup {f}
    BY DEF Owned, TypeOK
  <1>4. \A v \in Workers : v # w => Owned(v)' = Owned(v)
    BY DEF Owned, TypeOK
  <1>5. f # NoFd /\ ListenFd \notin Fds
    BY <1>1, EngineAssumption DEF EngineAssumption
  <1>6. TypeOK'
    BY <1>1 DEF TypeOK
  <1>7. CurInv'
    BY <1>1, <1>2, <1>5 DEF CurInv, TypeOK, Idle, Handlers
  <1>8. EventInv'
    BY <1>3, <1>4 DEF EventInv, TypeOK
  <1>9. OwnerInv'
    <2>1. \A v \in Workers : \A g \in Owned(v)' : fdtab'[g] # NoConn
      <3>1. \A v \in Workers : Owned(v) \subseteq Fds
        BY DEF TypeOK, Owned, CurInv, Idle
      <3>2. c # NoConn
        BY <1>1, EngineAssumption DEF EngineAssumption
      <3> QED
        BY <1>1, <1>3, <1>4, <3>1, <3>2 DEF OwnerInv, TypeOK
    <2>2. \A g \in Fds : fdtab'[g] # NoConn => \E v \in Workers : g \in Owned(v)'
      BY <1>1, <1>3, <1>4 DEF OwnerInv, TypeOK
    <2>3. \A u, v \in Workers : u # v => Owned(u)' \cap Owned(v)' = {}
      BY <1>2, <1>3, <1>4 DEF OwnerInv
    <2> QED
      BY <2>1, <2>2, <2>3 DEF OwnerInv
  <1>10. ConnInv'
    <2>1. \A v \in Workers : \A d \in backlog'[v] : conn'[d] = "queued"
      BY <1>1 DEF ConnInv, TypeOK
    <2>2. \A u, v \in Workers : u # v => backlog'[u] \cap backlog'[v] = {}
      BY DEF ConnInv, TypeOK
    <2>3. \A g \in Fds : fdtab'[g] # NoConn => conn'[fdtab'[g]] = "open"
      BY <1>1 DEF ConnInv, TypeOK
    <2>4. \A g \in Fds : fdtab[g] # c
      BY <1>1, EngineAssumption DEF ConnInv, EngineAssumption
    <2>5. \A g, h \in Fds : g # h /\ fdtab'[g] = fdtab'[h] => fdtab'[g] = NoConn
      BY <1>1, <2>4 DEF ConnInv, TypeOK
    <2> QED
      BY <2>1, <2>2, <2>3, <2>5 DEF ConnInv
  <1>11. OneWakeup'
    <2>1. ASSUME NEW v \in Workers, v # w
          PROVE  clients'[v] = clients[v] /\ armed'[v] = armed[v]
                 /\ batch'[v] = batch[v] /\ cur'[v] = cur[v]
      BY <2>1 DEF TypeOK
    <2>2. \A g \in clients[w] : g # f /\ g # cur[w] /\ g # ListenFd
      BY <1>2, <1>5, EngineAssumption DEF CurInv, Idle, TypeOK, EngineAssumption
    <2>3. armed'[w] = armed[w] \cup {f} /\ batch'[w] = batch[w] \ {ListenFd} /\ cur'[w] = f
      BY DEF TypeOK
    <2> QED
      BY <2>1, <2>2, <2>3 DEF OneWakeup
  <1> QED
    BY <1>6, <1>7, <1>8, <1>9, <1>10, <1>11

LEMMA AcceptEInv ==
  ASSUME EInv, NEW w \in Workers, Accept(w)
  PROVE  EInv'
  <1>1. CASE UNCHANGED <<wpc, cur, armed, kernel>>
    BY <1>1, AcceptNothingEInv DEF Accept
  <1>2. CASE ~UNCHANGED <<wpc, cur, armed, kernel>>
    <2>1. PICK c \in backlog[w], f \in Free :
            /\ backlog' = [backlog EXCEPT ![w] = @ \ {c}]
            /\ Register(w, c, f)
            /\ UNCHANGED rx
      BY <1>2 DEF Accept
    <2>2. /\ wpc[w] = "dispatch"
          /\ batch' = [batch EXCEPT ![w] = @ \ {ListenFd}]
          /\ UNCHANGED <<running, held, clients, peer>>
      BY DEF Accept
    <2> QED
      BY <2>1, <2>2, AcceptedEInv, AcceptDroppedEInv DEF Register
  <1> QED
    BY <1>1, <1>2

LEMMA OnConnectEInv ==
  ASSUME EInv, NEW w \in Workers, OnConnect(w)
  PROVE  EInv'
  <1> USE DEF EInv, OnConnect, Goto, kernel
  <1>1. \A v \in Workers : Owned(v)' = Owned(v)
    BY DEF Owned, TypeOK
  <1>2. cur[w] \in Fds /\ cur[w] \in armed[w] /\ cur[w] \notin clients[w]
    BY DEF CurInv, TypeOK
  <1>3. TypeOK'
    BY <1>2 DEF TypeOK
  <1>4. CurInv'
    BY EngineAssumption DEF CurInv, TypeOK, Idle, Handlers
  <1>5. EventInv'
    BY <1>1 DEF EventInv, TypeOK
  <1>6. OwnerInv' /\ ConnInv'
    BY <1>1 DEF OwnerInv, ConnInv
  <1>7. OneWakeup'
    <2>1. NoFd \notin Fds /\ ListenFd \notin Fds
      BY EngineAssumption DEF EngineAssumption
    <2>2. cur[w] \notin batch[w]
      BY <1>2, <2>1 DEF EventInv
    <2>3. \A f \in clients[w] : f # NoFd /\ f # cur[w]
      BY <1>2, <2>1 DEF TypeOK
    <2> QED
      BY <1>2, <2>1, <2>2, <2>3 DEF OneWakeup, TypeOK
  <1> QED
    BY <1>3, <1>4, <1>5, <1>6, <1>7

LEMMA ClientEventEInv ==
  ASSUME EInv, NEW w \in Workers, ClientEvent(w)
  PROVE  EInv'
  <1> USE DEF EInv, Goto, kernel
  <1>1. PICK f \in batch[w] \ {ListenFd} :
          /\ batch' = [batch EXCEPT ![w] = @ \ {f}]
          /\ IF f \in clients[w]
             THEN cur' = [cur EXCEPT ![w] = f] /\ Goto(w, "recv")
             ELSE UNCHANGED <<cur, wpc>>
    BY DEF ClientEvent
  <1>2. /\ wpc[w] = "dispatch"
        /\ UNCHANGED <<running, held, clients, armed, kernel, peer>>
    BY DEF ClientEvent
  <1>3. f \in clients[w] /\ f \in Fds /\ f \notin armed[w] /\ cur[w] = NoFd
    BY <1>1, <1>2 DEF EventInv, OneWakeup, TypeOK, CurInv, Idle
  <1>4. cur' = [cur EXCEPT ![w] = f] /\ Goto(w, "recv")
    BY <1>1, <1>3
  <1>5. \A v \in Workers : Owned(v)' = Owned(v)
    BY <1>2, <1>4 DEF Owned, TypeOK
  <1>6. TypeOK'
    BY <1>1, <1>2, <1>3, <1>4 DEF TypeOK
  <1>7. CurInv'
    BY <1>2, <1>3, <1>4, EngineAssumption
       DEF CurInv, TypeOK, Idle, Handlers, EngineAssumption
  <1>8. EventInv'
    BY <1>1, <1>2, <1>4, <1>5 DEF EventInv, TypeOK
  <1>9. OwnerInv' /\ ConnInv'
    BY <1>2, <1>5 DEF OwnerInv, ConnInv
  <1>10. OneWakeup'
    <2>1. ASSUME NEW v \in Workers, v # w
          PROVE  batch'[v] = batch[v] /\ cur'[v] = cur[v]
      BY <1>1, <1>4, <2>1 DEF TypeOK
    <2>2. batch'[w] = batch[w] \ {f} /\ cur'[w] = f
      BY <1>1, <1>4 DEF TypeOK
    <2>3. \A g \in clients[w] : g # cur[w]
      BY <1>3, EngineAssumption DEF TypeOK, EngineAssumption
    <2>4. ASSUME NEW g \in clients[w]
          PROVE  /\ g \in armed[w] \/ g \in batch'[w] \/ g = cur'[w]
                 /\ ~(g \in armed[w] /\ g \in batch'[w])
                 /\ g = cur'[w] => g \notin armed[w] \cup batch'[w]
      BY <1>3, <2>2, <2>3 DEF OneWakeup
    <2> QED
      BY <1>2, <2>1, <2>4 DEF OneWakeup
  <1> QED
    BY <1>6, <1>7, <1>8, <1>9, <1>10

\* Data and the end of the connection: the client stays the one handled.
LEMMA HandlingEInv ==
  ASSUME EInv, NEW w \in Workers, wpc[w] \in Handlers,
         NEW label \in Handlers, Goto(w, label),
         held' \in [Workers -> 0 .. RecvMax], rx' \in [Conns -> 0 .. RxMax],
         UNCHANGED <<batch, cur, clients, armed, backlog, conn, fdtab, running, peer>>
  PROVE  EInv'
  <1> USE DEF EInv, Goto, Handlers
  <1>1. \A v \in Workers : Owned(v)' = Owned(v)
    BY DEF Owned, TypeOK
  <1>2. TypeOK'
    BY DEF TypeOK
  <1>3. CurInv'
    BY DEF CurInv, TypeOK, Idle
  <1>4. EventInv'
    BY <1>1 DEF EventInv, TypeOK
  <1>5. OwnerInv' /\ ConnInv' /\ OneWakeup'
    BY <1>1 DEF OwnerInv, ConnInv, OneWakeup
  <1> QED
    BY <1>2, <1>3, <1>4, <1>5

\* EAGAIN: the wake-up moves from cur back to armed.
LEMMA RearmEInv ==
  ASSUME EInv, NEW w \in Workers, wpc[w] \in Handlers,
         armed' = [armed EXCEPT ![w] = @ \cup {cur[w]}],
         cur' = [cur EXCEPT ![w] = NoFd],
         Goto(w, "dispatch"),
         UNCHANGED <<held, rx, running, batch, clients, backlog, conn, fdtab, peer>>
  PROVE  EInv'
  <1> USE DEF EInv, Goto, Handlers
  <1>1. cur[w] \in clients[w] /\ cur[w] \in Fds
    BY DEF CurInv, TypeOK
  <1>2. \A v \in Workers : Owned(v)' = Owned(v)
    BY DEF Owned, TypeOK
  <1>3. TypeOK'
    BY <1>1 DEF TypeOK
  <1>4. CurInv'
    BY DEF CurInv, TypeOK, Idle
  <1>5. EventInv'
    BY <1>1, <1>2 DEF EventInv, TypeOK, Owned
  <1>6. OwnerInv' /\ ConnInv'
    BY <1>2 DEF OwnerInv, ConnInv
  <1>7. OneWakeup'
    <2>1. ASSUME NEW v \in Workers, v # w
          PROVE  armed'[v] = armed[v] /\ cur'[v] = cur[v]
      BY <2>1 DEF TypeOK
    <2>2. armed'[w] = armed[w] \cup {cur[w]} /\ cur'[w] = NoFd
      BY DEF TypeOK
    <2>3. \A f \in clients[w] : f # NoFd
      BY EngineAssumption DEF TypeOK, EngineAssumption
    <2>4. ASSUME NEW f \in clients[w]
          PROVE  /\ f \in armed'[w] \/ f \in batch'[w]
                 /\ ~(f \in armed'[w] /\ f \in batch'[w])
      BY <1>1, <2>2 DEF OneWakeup
    <2> QED
      BY <2>1, <2>2, <2>3, <2>4 DEF OneWakeup
  <1> QED
    BY <1>3, <1>4, <1>5, <1>6, <1>7

LEMMA RecvEInv ==
  ASSUME EInv, NEW w \in Workers, Recv(w)
  PROVE  EInv'
  <1> DEFINE c == fdtab[cur[w]]
             n == IF rx[c] < RecvMax THEN rx[c] ELSE RecvMax
  <1>1. wpc[w] = "recv" /\ wpc[w] \in Handlers
    BY DEF Recv, Handlers
  <1>2. c \in Conns
    <2>1. cur[w] \in clients[w] /\ cur[w] \in Owned(w) /\ cur[w] \in Fds
      BY <1>1 DEF EInv, CurInv, TypeOK, Owned
    <2> QED
      BY <2>1 DEF EInv, OwnerInv, TypeOK
  <1>3. rx[c] \in 0 .. RxMax /\ RxMax \in Nat /\ RecvMax \in Nat
    BY <1>2, EngineAssumption DEF EInv, TypeOK, EngineAssumption
  <1>4. n \in 0 .. RecvMax /\ rx[c] - n \in 0 .. RxMax
    BY <1>3
  <1>5. UNCHANGED <<running, batch, clients, backlog, conn, fdtab, peer>>
    BY DEF Recv, RecvData, RecvEnd, RecvAgain
  <1>6. CASE held' = [held EXCEPT ![w] = n] /\ rx' = [rx EXCEPT ![c] = @ - n]
             /\ Goto(w, "read") /\ UNCHANGED <<cur, armed>>
    <2>1. held' \in [Workers -> 0 .. RecvMax] /\ rx' \in [Conns -> 0 .. RxMax]
      BY <1>2, <1>4, <1>6 DEF EInv, TypeOK
    <2> QED
      BY <1>1, <1>5, <1>6, <2>1, HandlingEInv DEF Handlers
  <1>7. CASE Goto(w, "closing") /\ UNCHANGED <<held, rx, cur, armed>>
    <2>1. held' \in [Workers -> 0 .. RecvMax] /\ rx' \in [Conns -> 0 .. RxMax]
      BY <1>7 DEF EInv, TypeOK
    <2> QED
      BY <1>1, <1>5, <1>7, <2>1, HandlingEInv DEF Handlers
  <1>8. CASE armed' = [armed EXCEPT ![w] = @ \cup {cur[w]}]
             /\ cur' = [cur EXCEPT ![w] = NoFd]
             /\ Goto(w, "dispatch") /\ UNCHANGED <<held, rx>>
    BY <1>1, <1>5, <1>8, RearmEInv
  <1> QED
    BY <1>6, <1>7, <1>8 DEF Recv, RecvData, RecvEnd, RecvAgain, Rearm

LEMMA OnReadEInv ==
  ASSUME EInv, NEW w \in Workers, OnRead(w) \/ OnDisconnect(w)
  PROVE  EInv'
  <1>1. held' \in [Workers -> 0 .. RecvMax] /\ rx' \in [Conns -> 0 .. RxMax]
    BY EngineAssumption DEF EInv, TypeOK, OnRead, OnDisconnect, kernel, EngineAssumption
  <1> QED
    BY <1>1, HandlingEInv DEF OnRead, OnDisconnect, Handlers, kernel

\* The descriptor is closed and free again.
LEMMA EraseEInv ==
  ASSUME EInv, NEW w \in Workers, Erase(w)
  PROVE  EInv'
  <1> USE DEF EInv, Goto, Erase, Closed
  <1> DEFINE f == cur[w]
  <1>1. f \in clients[w] /\ f \in Fds /\ f \in Owned(w)
    BY DEF CurInv, TypeOK, Handlers, Owned
  <1>2. fdtab[f] \in Conns /\ conn[fdtab[f]] = "open"
    BY <1>1 DEF OwnerInv, ConnInv, TypeOK
  <1>3. /\ Owned(w)' = Owned(w) \ {f}
        /\ \A v \in Workers : v # w => Owned(v)' = Owned(v)
    BY DEF Owned, TypeOK
  <1>4. TypeOK'
    BY <1>2 DEF TypeOK
  <1>5. CurInv'
    BY DEF CurInv, TypeOK, Idle, Handlers
  <1>6. EventInv'
    <2>1. f \notin batch[w]
      BY <1>1 DEF OneWakeup
    <2> QED
      BY <1>3, <2>1 DEF EventInv, TypeOK
  <1>7. OwnerInv'
    <2>1. \A v \in Workers : v # w => f \notin Owned(v)
      BY <1>1 DEF OwnerInv
    <2>2. \A v \in Workers : Owned(v) \subseteq Fds
      BY DEF TypeOK, Owned, CurInv, Idle
    <2>3. \A v \in Workers : \A g \in Owned(v)' : fdtab'[g] # NoConn
      BY <1>3, <2>1, <2>2 DEF OwnerInv, TypeOK
    <2>4. \A g \in Fds : fdtab'[g] # NoConn => \E v \in Workers : g \in Owned(v)'
      BY <1>1, <1>3 DEF OwnerInv, TypeOK
    <2>5. \A u, v \in Workers : u # v => Owned(u)' \cap Owned(v)' = {}
      BY <1>3 DEF OwnerInv
    <2> QED
      BY <2>3, <2>4, <2>5 DEF OwnerInv
  <1>8. ConnInv'
    <2>1. \A g \in Fds : g # f /\ fdtab[g] # NoConn => fdtab[g] # fdtab[f]
      BY <1>1 DEF ConnInv
    <2> QED
      BY <1>1, <1>2, <2>1 DEF ConnInv, TypeOK
  <1>9. OneWakeup'
    BY EngineAssumption DEF OneWakeup, TypeOK, EngineAssumption
  <1> QED
    BY <1>4, <1>5, <1>6, <1>7, <1>8, <1>9

-----------------------------------------------------------------------------

LEMMA NextEInv == EInv /\ [Next]_vars => EInv'
  <1> SUFFICES ASSUME EInv, [Next]_vars PROVE EInv'
    OBVIOUS
  <1>1. CASE UNCHANGED <<worker, kernel, peer>> /\ running' \in BOOLEAN
    BY <1>1 DEF worker, kernel, EInv, TypeOK, CurInv, EventInv, OwnerInv, ConnInv,
                OneWakeup, Owned, Idle
  <1>2. ASSUME NEW c \in Conns, Client(c)
        PROVE  EInv'
    BY <1>2, ClientEInv
  <1>3. ASSUME NEW w \in Workers, Loop(w)
        PROVE  EInv'
    <2>1. ASSUME Idle(w), NEW label \in {"epoll", "loop", "wait", "exited"}, Goto(w, label),
                 UNCHANGED <<batch, cur, held, clients, armed, kernel, running, peer>>,
                 batch[w] = {}
          PROVE  EInv'
      BY <2>1, MoveEInv
    <2>2. CASE Bind(w)
      <3>1. Idle(w) /\ batch[w] = {}
        BY <2>2 DEF Bind, Idle, EInv, EventInv
      <3> QED
        BY <2>1, <2>2, <3>1 DEF Bind
    <2>3. CASE EpollSetup(w)
      <3>1. Idle(w) /\ batch[w] = {} /\ wpc[w] \in {"epoll", "loop", "wait"}
        BY <2>3 DEF EpollSetup, Idle, EInv, EventInv
      <3> QED
        BY <2>1, <2>3, <3>1, LeaveEInv DEF EpollSetup
    <2>4. CASE TestRunning(w)
      <3>1. Idle(w) /\ batch[w] = {} /\ wpc[w] \in {"epoll", "loop", "wait"}
        BY <2>4 DEF TestRunning, Idle, EInv, EventInv
      <3> QED
        BY <2>1, <2>4, <3>1, LeaveEInv DEF TestRunning
    <2>5. CASE EpollWait(w)
      <3>1. Idle(w) /\ batch[w] = {} /\ wpc[w] = "wait"
        BY <2>5 DEF EpollWait, Idle, EInv, EventInv
      <3>2. UNCHANGED <<running, peer>>
        BY <2>5 DEF EpollWait
      <3>3. CASE \E events \in SUBSET Ready(w) :
                   /\ batch' = [batch EXCEPT ![w] = events]
                   /\ armed' = [armed EXCEPT ![w] = @ \ events]
                   /\ Goto(w, "dispatch")
                   /\ UNCHANGED <<cur, held, clients, kernel>>
        BY <3>1, <3>2, <3>3, EventsEInv
      <3>4. CASE Goto(w, "loop") /\ UNCHANGED <<batch, cur, held, clients, armed, kernel>>
        BY <2>1, <3>1, <3>2, <3>4
      <3>5. CASE Leave(w)
        BY <3>1, <3>2, <3>5, LeaveEInv
      <3> QED
        BY <2>5, <3>3, <3>4, <3>5 DEF EpollWait, Timeout
    <2>6. CASE EndOfBatch(w)
      <3>1. Idle(w) /\ batch[w] = {}
        BY <2>6 DEF EndOfBatch, Idle
      <3> QED
        BY <2>1, <2>6, <3>1 DEF EndOfBatch
    <2> QED
      BY <1>3, <2>2, <2>3, <2>4, <2>5, <2>6,
         AcceptEInv, ClientEventEInv, RecvEInv, EraseEInv DEF Loop
  <1>4. ASSUME NEW w \in Workers, Callback(w)
        PROVE  EInv'
    BY <1>4, OnConnectEInv, OnReadEInv DEF Callback
  <1>5. CASE Stop
    BY <1>1, <1>5 DEF Stop
  <1>6. CASE UNCHANGED vars
    BY <1>1, <1>6 DEF vars, EInv, TypeOK
  <1> QED
    BY <1>2, <1>3, <1>4, <1>5, <1>6 DEF Next

LEMMA AlwaysEInv == Spec => []EInv
  BY InitEInv, NextEInv, PTL DEF Spec

-----------------------------------------------------------------------------
(* The theorems. *)

\* The types of the engine's state.
THEOREM EngineTypeCorrect == Spec => []TypeOK
  <1>1. EInv => TypeOK
    BY DEF EInv
  <1> QED
    BY <1>1, AlwaysEInv, PTL

\* However many workers accept, close, fail and leave, every open descriptor
\* has exactly one owner (MultiReactorServer.cpp:75-87, 118-122, 133): no
\* leak, no double close.
THEOREM DescriptorsOwnedOnce == Spec => []OneOwner
  <1>1. EInv => OneOwner
    BY DEF EInv, CurInv, OwnerInv, ConnInv, OneOwner
  <1> QED
    BY <1>1, AlwaysEInv, PTL

\* EPOLLONESHOT never strands a client: its wake-up is armed, waiting in the
\* batch or being handled, and in one of these places only.
THEOREM WakeupsKept == Spec => []OneWakeup
  <1>1. EInv => OneWakeup
    BY DEF EInv
  <1> QED
    BY <1>1, AlwaysEInv, PTL

\* No event outlives the connection it was reported for.
THEOREM NoStaleEvent == Spec => []EventsFresh
  <1>1. EInv => EventsFresh
    <2>1. ASSUME EInv, NEW w \in Workers
          PROVE  batch[w] \ {ListenFd} \subseteq clients[w]
      BY <2>1 DEF EInv, EventInv
    <2> QED
      BY <2>1 DEF EventsFresh
  <1> QED
    BY <1>1, AlwaysEInv, PTL
=============================================================================
