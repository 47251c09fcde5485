---------------------- MODULE ThreadPoolReactor_proofs ----------------------
(* A client of the thread pool never has two jobs, and no job meets a      *)
(* client that is gone; no thread sleeps through a wake-up; and to its     *)
(* clients the pool is an EchoService: for any number of clients, threads  *)
(* and descriptors and unbounded behaviours.                               *)
EXTENDS ThreadPoolReactor, TcpSocket_proofs, SequenceTheorems, FiniteSetTheorems

Labels == {"setup", "epoll", "wait", "dispatch", "emplace", "notify", "stop",
           "notify_all", "join", "check", "find", "recv", "send", "close", "exited"}

TypesInv ==
  /\ pc \in [Threads -> Labels] /\ jobq \in Seq(Fds)
  /\ cur \in [Threads -> Fds \cup {NoFd}]
  /\ armed \in [Reactors -> SUBSET Fds] /\ batch \in [Reactors -> SUBSET Fds]

\* An entry of clients_map holds the client with the descriptor it is keyed by.
EntriesInv ==
  \A f \in Fds : sock[Entry(f)] = NoFd \/ (sock[Entry(f)] = f /\ fdtab[f] \in Conns)

\* The reactor's own two sockets.
LocalsInv ==
  /\ pc[Main] = "setup" => sock[ListenSock] = NoFd
  /\ pc[Main] \in {"epoll", "wait", "dispatch", "emplace", "notify"} => sock[ListenSock] # NoFd
  /\ pc[Main] # "emplace" => sock[ClientSock] = NoFd
  /\ pc[Main] = "emplace" =>
       cur[Main] # NoFd /\ sock[ClientSock] = cur[Main] /\ fdtab[cur[Main]] \in Conns

InQueue(f) == \E i \in DOMAIN jobq : jobq[i] = f

InHand(f) == \E w \in Pool : cur[w] = f

\* A thread of the pool has a job in hand, and no two have the same.
HandInv ==
  /\ \A w \in Pool : cur[w] = NoFd <=> pc[w] \in {"check", "exited"}
  /\ \A v, w \in Pool : v # w /\ cur[v] # NoFd => cur[v] # cur[w]

\* Nothing is queued twice, nor queued while it is in hand.
QueueInv ==
  /\ \A i, j \in DOMAIN jobq : i # j => jobq[i] # jobq[j]
  /\ \A f \in Fds : ~(InQueue(f) /\ InHand(f))

\* Jobs are of clients in the map.
FreshInv == \A f \in Fds : InQueue(f) \/ InHand(f) => sock[Entry(f)] # NoFd

\* What has no job may be waited for or reported, not both.
WaitInv ==
  \A f \in Fds : f # sock[ListenSock] =>
    /\ f \in armed[Main] => f \notin batch[Main]
    /\ f \in armed[Main] \cup batch[Main] => ~InQueue(f) /\ ~InHand(f)
    /\ f \in armed[Main] \cup batch[Main] =>
         sock[Entry(f)] # NoFd \/ (pc[Main] = "emplace" /\ cur[Main] = f)

\* While the reactor runs every client has something that will serve it.
ServedInv ==
  /\ pc[Main] \in {"setup", "epoll"} =>
       /\ armed[Main] = {} /\ \A f \in Fds : sock[Entry(f)] = NoFd
  /\ pc[Main] \in {"setup", "epoll", "wait"} => batch[Main] = {}
  /\ pc[Main] = "emplace" => cur[Main] \in armed[Main]
  /\ pc[Main] \in {"wait", "dispatch", "emplace", "notify"} =>
       \A f \in Fds : sock[Entry(f)] # NoFd =>
         f \in armed[Main] \cup batch[Main] \/ InQueue(f) \/ InHand(f)

Parts == EntriesInv /\ LocalsInv /\ HandInv /\ QueueInv /\ FreshInv /\ WaitInv /\ ServedInv

PInv == TypesInv /\ Owned(sock, fdtab) /\ (alive => Parts)
-----------------------------------------------------------------------------

LEMMA ThreadFacts ==
  /\ Main \in Threads /\ Pool \subseteq Threads /\ Main \notin Pool
  /\ Main \in Reactors /\ NoFd \notin Fds
  BY PoolAssumption, SocketAssumption DEF NoFd

LEMMA PlaceFacts ==
  /\ ListenSock \in Objects /\ ClientSock \in Objects /\ ListenSock # ClientSock
  /\ \A f \in Fds : Entry(f) \in Objects /\ Entry(f) # ListenSock /\ Entry(f) # ClientSock
  /\ \A f, g \in Fds : f # g => Entry(f) # Entry(g)
  BY PlacesAssumption DEF Places, ListenSock, ClientSock, Entry

LEMMA ConnIsFile == NoFile \notin Conns /\ Listener # NoFile /\ Conns \subseteq Files /\ Listener \in Files
  BY SocketAssumption, KernelAssumption, PoolAssumption

\* A descriptor that is free is nobody's.
LEMMA FreeIsUnused ==
  ASSUME PInv, alive, NEW f \in Fds, fdtab[f] = NoFile
  PROVE  /\ sock[Entry(f)] = NoFd /\ sock[ListenSock] # f
         /\ ~InQueue(f) /\ ~InHand(f)
<1>1. \A o \in Objects : sock[o] # f
  BY ThreadFacts DEF PInv, Owned
<1>2. sock[Entry(f)] = NoFd
  BY <1>1, PlaceFacts DEF PInv, Parts, EntriesInv
<1>. QED
  BY <1>1, <1>2, PlaceFacts DEF PInv, Parts, FreshInv

-----------------------------------------------------------------------------
(* Steps that move one thread on and touch nothing the parts speak of. *)

LEMMA NothingStep ==
  ASSUME PInv, UNCHANGED <<sock, fdtab, alive, pc, cur, armed, batch, jobq>>
  PROVE  PInv'
  BY DEF PInv, Parts, TypesInv, EntriesInv, LocalsInv, HandInv, QueueInv, FreshInv, WaitInv,
         ServedInv, InQueue, InHand

\* The process ends.
LEMMA ExitStep ==
  ASSUME PInv, Exit, TypesInv' PROVE PInv'
<1>1. Owned(sock', fdtab')
  BY SocketAssumption DEF Exit, Owned
<1>. QED
  BY <1>1 DEF PInv, Exit, Owned

LEMMA MainMoves ==
  ASSUME PInv, NEW l \in Labels,
         UNCHANGED <<sock, fdtab, alive, cur, armed, batch, jobq>>, pc' = [pc EXCEPT ![Main] = l],
         pc[Main] \notin {"setup", "epoll", "emplace"}, l \notin {"setup", "epoll", "emplace"},
         l \in {"wait", "dispatch", "notify"} => pc[Main] \in {"wait", "dispatch", "notify"},
         l = "wait" => batch[Main] = {}
  PROVE  PInv'
<1>1. pc'[Main] = l /\ \A w \in Pool : pc'[w] = pc[w]
  BY ThreadFacts DEF PInv, TypesInv
<1>2. TypesInv'
  BY DEF PInv, TypesInv
<1>3. (alive => EntriesInv /\ HandInv /\ QueueInv /\ FreshInv)'
  BY <1>1 DEF PInv, Parts, EntriesInv, HandInv, QueueInv, FreshInv, InQueue, InHand
<1>4. (alive => LocalsInv /\ WaitInv /\ ServedInv)'
  BY <1>1 DEF PInv, Parts, LocalsInv, WaitInv, ServedInv, InQueue, InHand
<1>. QED
  BY <1>2, <1>3, <1>4 DEF PInv, Parts, Owned

LEMMA WorkerMoves ==
  ASSUME PInv, NEW w \in Pool, NEW l \in Labels,
         UNCHANGED <<sock, fdtab, alive, cur, armed, batch, jobq>>, pc' = [pc EXCEPT ![w] = l],
         l \in {"check", "exited"} <=> pc[w] \in {"check", "exited"}
  PROVE  PInv'
<1>1. pc'[Main] = pc[Main] /\ pc'[w] = l /\ \A v \in Pool : v # w => pc'[v] = pc[v]
  BY ThreadFacts DEF PInv, TypesInv
<1>2. TypesInv'
  BY DEF PInv, TypesInv
<1>3. (alive => EntriesInv /\ HandInv /\ QueueInv /\ FreshInv)'
  BY <1>1 DEF PInv, Parts, EntriesInv, HandInv, QueueInv, FreshInv, InQueue, InHand
<1>4. (alive => LocalsInv /\ WaitInv /\ ServedInv)'
  BY <1>1 DEF PInv, Parts, LocalsInv, WaitInv, ServedInv, InQueue, InHand
<1>. QED
  BY <1>2, <1>3, <1>4 DEF PInv, Parts, Owned
-----------------------------------------------------------------------------
(* The threads of the pool. *)

\* The head of the queue becomes the job in hand.
LEMMA TakeStep ==
  ASSUME PInv, NEW w \in Pool, alive, pc[w] = "check", jobq # <<>>,
         UNCHANGED <<sock, fdtab, alive, armed, batch>>,
         cur' = [cur EXCEPT ![w] = Head(jobq)], jobq' = Tail(jobq), Goto(w, "find")
  PROVE  PInv'
<1>. PICK f : f = Head(jobq)
  OBVIOUS
<1>1. /\ f \in Fds /\ jobq' \in Seq(Fds) /\ f = jobq[1] /\ 1 \in DOMAIN jobq
      /\ \A i \in DOMAIN jobq' : i + 1 \in DOMAIN jobq /\ i + 1 # 1 /\ jobq'[i] = jobq[i + 1]
      /\ DOMAIN jobq' \subseteq Nat
      /\ \A i \in DOMAIN jobq : i = 1 \/ (i - 1 \in DOMAIN jobq' /\ jobq[i] = jobq'[i - 1])
  BY HeadTailProperties DEF PInv, TypesInv
<1>2. /\ pc'[w] = "find" /\ cur'[w] = f /\ pc'[Main] = pc[Main] /\ cur'[Main] = cur[Main]
      /\ \A v \in Pool : v # w => pc'[v] = pc[v] /\ cur'[v] = cur[v]
  BY ThreadFacts DEF PInv, TypesInv, Goto
<1>3. Parts /\ cur[w] = NoFd
  BY DEF PInv, Parts, HandInv
<1>4. TypesInv'
  <2>1. pc' \in [Threads -> Labels]
    BY DEF PInv, TypesInv, Goto, Labels
  <2>2. cur' \in [Threads -> Fds \cup {NoFd}]
    BY <1>1 DEF PInv, TypesInv
  <2>. QED
    BY <1>1, <2>1, <2>2 DEF PInv, TypesInv
<1>5. InQueue(f) /\ ~InHand(f) /\ InHand(f)'
  BY <1>1, <1>2, <1>3 DEF Parts, QueueInv, InQueue, InHand
<1>6. ~InQueue(f)'
  BY <1>1, <1>3 DEF Parts, QueueInv, InQueue
<1>7. \A g \in Fds : g # f => (InQueue(g)' <=> InQueue(g)) /\ (InHand(g)' <=> InHand(g))
  <2>. SUFFICES ASSUME NEW g \in Fds, g # f
                PROVE  (InQueue(g)' <=> InQueue(g)) /\ (InHand(g)' <=> InHand(g))
    OBVIOUS
  <2>1. InQueue(g)' <=> InQueue(g)
    BY <1>1 DEF InQueue
  <2>2. InHand(g)' <=> InHand(g)
    BY <1>2, <1>3, ThreadFacts DEF InHand
  <2>. QED
    BY <2>1, <2>2
<1>8. EntriesInv' /\ LocalsInv'
  BY <1>2, <1>3 DEF Parts, EntriesInv, LocalsInv
<1>9. HandInv'
  BY <1>1, <1>2, <1>3, <1>5, ThreadFacts DEF Parts, HandInv, InHand
<1>10. QueueInv'
  <2>1. \A i, j \in DOMAIN jobq' : i # j => jobq'[i] # jobq'[j]
    BY <1>1, <1>3 DEF Parts, QueueInv
  <2>2. \A g \in Fds : ~(InQueue(g)' /\ InHand(g)')
    BY <1>3, <1>6, <1>7 DEF Parts, QueueInv
  <2>. QED
    BY <2>1, <2>2 DEF QueueInv
<1>11. FreshInv'
  BY <1>3, <1>5, <1>7 DEF Parts, FreshInv
<1>12. WaitInv'
  BY <1>1, <1>2, <1>3, <1>5, <1>7 DEF Parts, WaitInv
<1>13. ServedInv'
  BY <1>2, <1>3, <1>5, <1>7 DEF Parts, ServedInv
<1>. QED
  BY <1>4, <1>8, <1>9, <1>10, <1>11, <1>12, <1>13 DEF PInv, Parts, Owned

\* The job in hand is done with, its client waited for again or gone.
LEMMA HandEmptied ==
  ASSUME PInv, alive, NEW w \in Pool, pc[w] \notin {"check", "exited"}, NEW f, f = cur[w],
         cur' = [cur EXCEPT ![w] = NoFd], Goto(w, "check"), jobq' = jobq
  PROVE  /\ f \in Fds /\ sock[Entry(f)] = f /\ f # sock[ListenSock]
         /\ InHand(f) /\ ~InHand(f)' /\ ~InQueue(f)'
         /\ \A g \in Fds : g # f => (InHand(g)' <=> InHand(g))
         /\ \A g : InQueue(g)' <=> InQueue(g)
         /\ pc'[Main] = pc[Main] /\ cur'[Main] = cur[Main]
         /\ pc[Main] = "emplace" => cur[Main] # f
         /\ HandInv' /\ QueueInv'
<1>1. /\ pc'[w] = "check" /\ cur'[w] = NoFd /\ pc'[Main] = pc[Main] /\ cur'[Main] = cur[Main]
      /\ \A v \in Pool : v # w => pc'[v] = pc[v] /\ cur'[v] = cur[v]
  BY ThreadFacts DEF PInv, TypesInv, Goto
<1>2. Parts /\ f \in Fds
  BY ThreadFacts DEF PInv, TypesInv, Parts, HandInv
<1>3. InHand(f) /\ ~InHand(f)'
  BY <1>1, <1>2, ThreadFacts DEF Parts, HandInv, InHand
<1>4. \A g \in Fds : g # f => (InHand(g)' <=> InHand(g))
  BY <1>1, ThreadFacts DEF InHand
<1>5. \A g : InQueue(g)' <=> InQueue(g)
  BY DEF InQueue
<1>6. sock[Entry(f)] = f
  BY <1>2, <1>3 DEF Parts, FreshInv, EntriesInv
<1>7. f # sock[ListenSock] /\ f # sock[ClientSock]
  BY <1>2, <1>6, ThreadFacts, PlaceFacts DEF PInv, Owned
<1>8. HandInv'
  BY <1>1, <1>2, ThreadFacts DEF Parts, HandInv
<1>9. QueueInv'
  <2>1. \A g \in Fds : InHand(g)' => InHand(g)
    BY <1>3, <1>4
  <2>. QED
    BY <1>2, <1>5, <2>1 DEF Parts, QueueInv
<1>10. ~InQueue(f)'
  BY <1>2, <1>3, <1>5 DEF Parts, QueueInv
<1>. QED
  BY <1>1, <1>2, <1>3, <1>4, <1>5, <1>6, <1>7, <1>8, <1>9, <1>10 DEF Parts, LocalsInv

\* EPOLL_CTL_MOD after the drain.
LEMMA RearmStep ==
  ASSUME PInv, alive, NEW w \in Pool, pc[w] \notin {"check", "exited"},
         UNCHANGED <<sock, fdtab, alive, batch, jobq>>,
         Rearm(w), cur' = [cur EXCEPT ![w] = NoFd], Goto(w, "check")
  PROVE  PInv'
<1>. PICK f : f = cur[w]
  OBVIOUS
<1>1. /\ f \in Fds /\ sock[Entry(f)] = f /\ f # sock[ListenSock]
      /\ InHand(f) /\ ~InHand(f)' /\ ~InQueue(f)'
      /\ \A g \in Fds : g # f => (InHand(g)' <=> InHand(g))
      /\ \A g : InQueue(g)' <=> InQueue(g)
      /\ pc'[Main] = pc[Main] /\ cur'[Main] = cur[Main]
      /\ HandInv' /\ QueueInv'
  BY HandEmptied
<1>2. armed'[Main] = armed[Main] \cup {f}
  BY ThreadFacts DEF PInv, TypesInv, Rearm, Arm
<1>3. TypesInv'
  <2>1. pc' \in [Threads -> Labels]
    BY DEF PInv, TypesInv, Goto, Labels
  <2>2. cur' \in [Threads -> Fds \cup {NoFd}]
    BY DEF PInv, TypesInv
  <2>3. armed' \in [Reactors -> SUBSET Fds]
    BY <1>1 DEF PInv, TypesInv, Rearm, Arm
  <2>. QED
    BY <2>1, <2>2, <2>3 DEF PInv, TypesInv
<1>4. Parts
  BY DEF PInv
<1>5. EntriesInv' /\ LocalsInv' /\ FreshInv'
  BY <1>1, <1>4 DEF Parts, EntriesInv, LocalsInv, FreshInv
<1>6. WaitInv'
  BY <1>1, <1>2, <1>4, ThreadFacts DEF Parts, WaitInv
<1>7. ServedInv'
  BY <1>1, <1>2, <1>4, ThreadFacts DEF Parts, ServedInv
<1>. QED
  BY <1>1, <1>3, <1>5, <1>6, <1>7 DEF PInv, Parts, Owned

\* EPOLL_CTL_DEL and erase.
LEMMA CloseStep == ASSUME PInv, alive, NEW w \in Pool, Close(w) PROVE PInv'
<1>. PICK f : f = cur[w]
  OBVIOUS
<1>. DEFINE o == Entry(f)
<1>1. /\ pc[w] \notin {"check", "exited"} /\ jobq' = jobq /\ batch' = batch /\ alive' = alive
      /\ cur' = [cur EXCEPT ![w] = NoFd] /\ Goto(w, "check")
  BY DEF Close, pool
<1>2. /\ f \in Fds /\ sock[o] = f /\ f # sock[ListenSock]
      /\ InHand(f) /\ ~InHand(f)' /\ ~InQueue(f)'
      /\ \A g \in Fds : g # f => (InHand(g)' <=> InHand(g))
      /\ \A g : InQueue(g)' <=> InQueue(g)
      /\ pc'[Main] = pc[Main] /\ cur'[Main] = cur[Main]
      /\ pc[Main] = "emplace" => cur[Main] # f
      /\ HandInv' /\ QueueInv'
  BY <1>1, HandEmptied
<1>3. sock' = [sock EXCEPT ![o] = NoFd] /\ fdtab' = [fdtab EXCEPT ![f] = NoFile]
  BY <1>2, ThreadFacts DEF Close, Become, Destroyed, Closing, Tables
<1>4. Owned(sock', fdtab')
  <2>1. Owned([sock EXCEPT ![o] = NoFd],
              IF sock[o] = NoFd THEN fdtab ELSE [fdtab EXCEPT ![sock[o]] = NoFile])
    BY <1>2, PlaceFacts, DestroyedOwned DEF PInv
  <2>. QED
    BY <1>2, <1>3, <2>1, ThreadFacts
<1>5. /\ sock'[o] = NoFd /\ \A p \in Objects : p # o => sock'[p] = sock[p]
      /\ \A g \in Fds : g # f => fdtab'[g] = fdtab[g]
  BY <1>2, <1>3, PlaceFacts DEF PInv, Owned
<1>6. armed'[Main] = armed[Main] \ {f}
  BY ThreadFacts DEF PInv, TypesInv, Close
<1>7. TypesInv'
  <2>1. pc' \in [Threads -> Labels]
    BY <1>1 DEF PInv, TypesInv, Goto, Labels
  <2>2. cur' \in [Threads -> Fds \cup {NoFd}]
    BY <1>1 DEF PInv, TypesInv
  <2>3. armed' \in [Reactors -> SUBSET Fds]
    BY DEF PInv, TypesInv, Close
  <2>. QED
    BY <1>1, <2>1, <2>2, <2>3 DEF PInv, TypesInv
<1>8. Parts
  BY DEF PInv
<1>9. sock'[ListenSock] = sock[ListenSock] /\ sock'[ClientSock] = sock[ClientSock]
      /\ \A g \in Fds : g # f => sock'[Entry(g)] = sock[Entry(g)]
  BY <1>2, <1>5, PlaceFacts
<1>. HIDE DEF o
<1>10. EntriesInv'
  BY <1>5, <1>8, <1>9 DEF Parts, EntriesInv, o
<1>11. LocalsInv'
  BY <1>2, <1>5, <1>8, <1>9, ThreadFacts DEF PInv, TypesInv, Parts, LocalsInv
<1>12. FreshInv'
  BY <1>2, <1>8, <1>9 DEF Parts, FreshInv
<1>13. WaitInv'
  BY <1>1, <1>2, <1>6, <1>8, <1>9 DEF Parts, WaitInv
<1>14. ServedInv'
  BY <1>1, <1>2, <1>5, <1>6, <1>8, <1>9 DEF Parts, ServedInv, o
<1>. QED
  BY <1>2, <1>4, <1>7, <1>10, <1>11, <1>12, <1>13, <1>14 DEF PInv, Parts, Owned

\* What a thread of the pool does.
LEMMA WorkerStep == ASSUME PInv, alive, NEW w \in Pool, Worker(w) PROVE PInv'
<1>1. CASE TakeJob(w)
  <2>1. CASE jobq # <<>>
    BY <1>1, <2>1, TakeStep DEF TakeJob
  <2>2. CASE jobq = <<>> /\ Goto(w, "exited")
    BY <1>1, <2>2, WorkerMoves DEF TakeJob, Goto, Labels
  <2>3. CASE jobq = <<>> /\ UNCHANGED pc
    BY <1>1, <2>3, NothingStep DEF TakeJob
  <2>. QED
    BY <1>1, <2>1, <2>2, <2>3 DEF TakeJob
<1>2. CASE Find(w)
  <2>1. cur[w] \in Fds /\ IsValid(Entry(cur[w]))
    BY <1>2, ThreadFacts DEF Find, PInv, TypesInv, Parts, HandInv, FreshInv, InHand, IsValid
  <2>. QED
    BY <1>2, <2>1, WorkerMoves DEF Find, Goto, pool, Labels
<1>3. CASE Recv(w)
  <2>1. CASE Goto(w, "send") /\ UNCHANGED <<armed, cur>>
    BY <1>3, <2>1, WorkerMoves DEF Recv, Goto, pool, Labels
  <2>2. CASE Goto(w, "close") /\ UNCHANGED <<armed, cur>>
    BY <1>3, <2>2, WorkerMoves DEF Recv, Goto, pool, Labels
  <2>3. CASE Rearm(w) /\ cur' = [cur EXCEPT ![w] = NoFd] /\ Goto(w, "check")
    BY <1>3, <2>3, RearmStep DEF Recv, pool
  <2>. QED
    BY <1>3, <2>1, <2>2, <2>3 DEF Recv
<1>4. CASE Send(w)
  <2>1. CASE Goto(w, "recv") /\ UNCHANGED <<sock, fdtab, alive>>
    BY <1>4, <2>1, WorkerMoves DEF Send, Goto, evars, pool, Labels
  <2>2. CASE Exit /\ UNCHANGED pc
    BY <1>4, <2>2, ExitStep DEF Send, evars, pool, PInv, TypesInv
  <2>. QED
    BY <1>4, <2>1, <2>2 DEF Send, SendNonBlocking, Killed
<1>. QED
  BY <1>1, <1>2, <1>3, <1>4, CloseStep DEF Worker
-----------------------------------------------------------------------------
(* The reactor. *)

\* Several objects go out of scope.
LEMMA DestroyedAllOwned ==
  ASSUME NEW s, NEW d, NEW os \in SUBSET Objects, Owned(s, d)
  PROVE  Owned([o \in Objects |-> IF o \in os THEN NoFd ELSE s[o]],
               [f \in Fds |-> IF \E o \in os : s[o] = f THEN NoFile ELSE d[f]])
  BY SocketAssumption DEF Owned, NoFd

\* socket() returns.
LEMMA ReturnStep ==
  ASSUME PInv, alive, pc[Main] \in {"epoll", "dispatch"}, ReturnFromSocket(Tables),
         UNCHANGED <<alive, cur, jobq>>
  PROVE  PInv'
<1>. PICK l : l = sock[ListenSock]
  OBVIOUS
<1>1. Parts /\ sock[ClientSock] = NoFd /\ l \in Fds
  BY PlaceFacts DEF PInv, Parts, LocalsInv, Owned
<1>2. /\ sock' = [o \in Objects |-> IF o \in {ListenSock, ClientSock} THEN NoFd ELSE sock[o]]
      /\ fdtab' = [f \in Fds |-> IF \E o \in {ListenSock, ClientSock} : sock[o] = f
                                 THEN NoFile ELSE fdtab[f]]
  BY DEF ReturnFromSocket, Become, DestroyedAll, Tables
<1>3. Owned(sock', fdtab')
  <2>1. {ListenSock, ClientSock} \in SUBSET Objects
    BY PlaceFacts
  <2>2. Owned([o \in Objects |-> IF o \in {ListenSock, ClientSock} THEN NoFd ELSE sock[o]],
              [f \in Fds |-> IF \E o \in {ListenSock, ClientSock} : sock[o] = f
                             THEN NoFile ELSE fdtab[f]])
    BY <2>1, DestroyedAllOwned DEF PInv
  <2>. QED
    BY <1>2, <2>2
<1>4. /\ sock'[ListenSock] = NoFd /\ sock'[ClientSock] = NoFd
      /\ \A f \in Fds : sock'[Entry(f)] = sock[Entry(f)]
      /\ \A f \in Fds : f # l => fdtab'[f] = fdtab[f]
  BY <1>1, <1>2, PlaceFacts, ThreadFacts
<1>5. \A f \in Fds : sock[Entry(f)] # NoFd => f # l
  BY <1>1, PlaceFacts, ThreadFacts DEF PInv, Owned, Parts, EntriesInv
<1>6. armed'[Main] = armed[Main] \ {l} /\ batch'[Main] = {}
  BY ThreadFacts DEF PInv, TypesInv, ReturnFromSocket
<1>7. pc'[Main] = "stop" /\ \A w \in Pool : pc'[w] = pc[w]
  BY ThreadFacts DEF PInv, TypesInv, ReturnFromSocket, Goto
<1>8. TypesInv'
  <2>1. pc' \in [Threads -> Labels]
    BY DEF PInv, TypesInv, ReturnFromSocket, Goto, Labels
  <2>2. armed' \in [Reactors -> SUBSET Fds] /\ batch' \in [Reactors -> SUBSET Fds]
    BY DEF PInv, TypesInv, ReturnFromSocket
  <2>. QED
    BY <2>1, <2>2 DEF PInv, TypesInv
<1>9. \A f : (InQueue(f)' <=> InQueue(f)) /\ (InHand(f)' <=> InHand(f))
  BY DEF InQueue, InHand
<1>10. EntriesInv' /\ LocalsInv'
  BY <1>1, <1>4, <1>5, <1>7 DEF Parts, EntriesInv, LocalsInv
<1>11. HandInv' /\ QueueInv' /\ FreshInv'
  BY <1>1, <1>4, <1>7, <1>9 DEF Parts, HandInv, QueueInv, FreshInv
<1>12. WaitInv'
  BY <1>1, <1>4, <1>6, <1>7, <1>9 DEF Parts, WaitInv
<1>13. ServedInv'
  BY <1>7 DEF ServedInv
<1>. QED
  BY <1>3, <1>8, <1>10, <1>11, <1>12, <1>13 DEF PInv, Parts

LEMMA SetUpStep == ASSUME PInv, alive, SetUp PROVE PInv'
<1>1. CASE Goto(Main, "stop") /\ UNCHANGED <<sock, fdtab>>
  <2>1. pc'[Main] = "stop" /\ \A w \in Pool : pc'[w] = pc[w]
    BY <1>1, ThreadFacts DEF PInv, TypesInv, Goto
  <2>2. TypesInv'
    BY <1>1 DEF SetUp, evars, pool, PInv, TypesInv, Goto, Labels
  <2>3. Parts /\ pc[Main] = "setup"
    BY DEF PInv, SetUp
  <2>4. UNCHANGED <<sock, fdtab, alive, cur, armed, batch, jobq>>
    BY <1>1 DEF SetUp, evars, pool
  <2>5. (EntriesInv /\ LocalsInv /\ HandInv /\ QueueInv /\ FreshInv)'
    BY <2>1, <2>3, <2>4
    DEF Parts, EntriesInv, LocalsInv, HandInv, QueueInv, FreshInv, InQueue, InHand
  <2>6. (WaitInv /\ ServedInv)'
    BY <2>1, <2>3, <2>4 DEF Parts, WaitInv, ServedInv, InQueue, InHand
  <2>. QED
    BY <2>2, <2>4, <2>5, <2>6 DEF PInv, Parts, Owned
<1>2. CASE Listens(ListenSock, Listener) /\ Goto(Main, "epoll")
  <2>1. PICK f \in Fds : Lowest(f) /\ Become(Opened(Tables, ListenSock, f, Listener))
    BY <1>2 DEF Listens
  <2>2. sock' = [sock EXCEPT ![ListenSock] = f] /\ fdtab' = [fdtab EXCEPT ![f] = Listener]
    BY <2>1, OpenedTables DEF Become
  <2>3. Parts /\ pc[Main] = "setup" /\ sock[ListenSock] = NoFd /\ fdtab[f] = NoFile
    BY <2>1 DEF PInv, Parts, LocalsInv, SetUp, Lowest, Free
  <2>4. Owned(sock', fdtab')
    BY <2>2, <2>3, PlaceFacts, ConnIsFile, OpenedOwned DEF PInv
  <2>5. /\ sock'[ListenSock] = f /\ sock'[ClientSock] = sock[ClientSock]
        /\ \A g \in Fds : sock'[Entry(g)] = sock[Entry(g)]
        /\ \A g \in Fds : g # f => fdtab'[g] = fdtab[g]
    BY <2>2, PlaceFacts DEF PInv, Owned
  <2>6. pc'[Main] = "epoll" /\ \A w \in Pool : pc'[w] = pc[w]
    BY <1>2, ThreadFacts DEF PInv, TypesInv, Goto
  <2>7. TypesInv'
    BY <1>2 DEF SetUp, evars, pool, PInv, TypesInv, Goto, Labels
  <2>8. UNCHANGED <<alive, cur, armed, batch, jobq>>
    BY DEF SetUp, evars, pool
  <2>9. (HandInv /\ QueueInv /\ FreshInv)'
    BY <2>3, <2>5, <2>6, <2>8 DEF Parts, HandInv, QueueInv, FreshInv, InQueue, InHand
  <2>10. (EntriesInv /\ LocalsInv /\ ServedInv /\ WaitInv)'
    BY <2>3, <2>5, <2>6, <2>8, ThreadFacts DEF Parts, EntriesInv, LocalsInv, ServedInv, WaitInv
  <2>. QED
    BY <2>4, <2>7, <2>9, <2>10 DEF PInv, Parts
<1>. QED
  BY <1>1, <1>2 DEF SetUp

\* epoll_create1 and the registration of listen_sock.
LEMMA RegisterStep == ASSUME PInv, alive, RegisterListener PROVE PInv'
<1>1. CASE ReturnFromSocket(Tables)
  BY <1>1, ReturnStep DEF RegisterListener, pool
<1>2. CASE Arm(Main, sock[ListenSock]) /\ Goto(Main, "wait") /\ UNCHANGED <<sock, fdtab, batch>>
  <2>1. Parts /\ pc[Main] = "epoll" /\ sock[ListenSock] \in Fds
    BY PlaceFacts DEF PInv, Parts, LocalsInv, RegisterListener, Owned
  <2>2. pc'[Main] = "wait" /\ \A w \in Pool : pc'[w] = pc[w]
    BY <1>2, ThreadFacts DEF PInv, TypesInv, Goto
  <2>3. armed'[Main] = armed[Main] \cup {sock[ListenSock]}
    BY <1>2, ThreadFacts DEF PInv, TypesInv, Arm
  <2>4. TypesInv'
    BY <1>2, <2>1 DEF RegisterListener, pool, PInv, TypesInv, Goto, Arm, Labels
  <2>5. UNCHANGED <<sock, fdtab, alive, cur, batch, jobq>>
    BY <1>2 DEF RegisterListener, pool
  <2>6. (EntriesInv /\ LocalsInv /\ HandInv /\ QueueInv /\ FreshInv)'
    BY <2>1, <2>2, <2>5
    DEF Parts, EntriesInv, LocalsInv, HandInv, QueueInv, FreshInv, InQueue, InHand
  <2>7. (WaitInv /\ ServedInv)'
    BY <2>1, <2>2, <2>3, <2>5 DEF Parts, WaitInv, ServedInv, InQueue, InHand
  <2>. QED
    BY <2>4, <2>5, <2>6, <2>7 DEF PInv, Parts, Owned
<1>. QED
  BY <1>1, <1>2 DEF RegisterListener

\* epoll_wait: a client's event disarms it.
LEMMA WaitStep == ASSUME PInv, alive, EpollWait PROVE PInv'
<1>1. PICK ev : /\ ev \in SUBSET Ready(Main)
                /\ batch' = [batch EXCEPT ![Main] = ev]
                /\ armed' = [armed EXCEPT ![Main] = @ \ OneShot(ev)]
  BY DEF EpollWait, Reported
<1>2. ev \subseteq armed[Main] /\ batch'[Main] = ev /\ armed'[Main] = armed[Main] \ OneShot(ev)
  BY <1>1, ThreadFacts DEF PInv, TypesInv, Ready
<1>3. Parts /\ pc[Main] = "wait"
  BY DEF PInv, EpollWait
<1>4. pc'[Main] = "dispatch" /\ \A w \in Pool : pc'[w] = pc[w]
  BY ThreadFacts DEF PInv, TypesInv, EpollWait, Goto
<1>5. TypesInv'
  <2>1. pc' \in [Threads -> Labels]
    BY DEF PInv, TypesInv, EpollWait, Goto, Labels
  <2>2. ev \subseteq Fds
    BY <1>2, ThreadFacts DEF PInv, TypesInv
  <2>3. armed' \in [Reactors -> SUBSET Fds] /\ batch' \in [Reactors -> SUBSET Fds]
    BY <1>1, <2>2 DEF PInv, TypesInv
  <2>. QED
    BY <2>1, <2>3 DEF PInv, TypesInv, EpollWait, pool
<1>6. UNCHANGED <<sock, fdtab, alive, cur, jobq>>
  BY DEF EpollWait, pool
<1>7. \A f \in Fds : f \in ev /\ sock[Entry(f)] # NoFd => f \in OneShot(ev)
  BY <1>3 DEF Parts, EntriesInv, OneShot
<1>8. OneShot(ev) \subseteq ev
  BY DEF OneShot
<1>9. (EntriesInv /\ LocalsInv /\ HandInv /\ QueueInv /\ FreshInv)'
  BY <1>3, <1>4, <1>6
  DEF Parts, EntriesInv, LocalsInv, HandInv, QueueInv, FreshInv, InQueue, InHand
<1>10. WaitInv'
  BY <1>2, <1>3, <1>4, <1>6, <1>7, <1>8 DEF Parts, WaitInv, InQueue, InHand
<1>11. ServedInv'
  BY <1>2, <1>3, <1>4, <1>6, <1>8 DEF Parts, ServedInv, InQueue, InHand
<1>. QED
  BY <1>5, <1>6, <1>9, <1>10, <1>11 DEF PInv, Parts, Owned

\* A new client takes a descriptor that nobody has, and is armed.
LEMMA AcceptedStep ==
  ASSUME PInv, alive, pc[Main] = "dispatch", Accepts(Listener, ClientSock),
         batch' = [batch EXCEPT ![Main] = @ \ {sock[ListenSock]}],
         Arm(Main, sock'[ClientSock]), cur' = [cur EXCEPT ![Main] = sock'[ClientSock]],
         Goto(Main, "emplace"), UNCHANGED <<alive, jobq>>
  PROVE  PInv'
<1>1. PICK c \in Conns, f \in Fds :
        fdtab[f] = NoFile /\ Become(Opened(Tables, ClientSock, f, c))
  BY DEF Accepts, Lowest, Free
<1>2. sock' = [sock EXCEPT ![ClientSock] = f] /\ fdtab' = [fdtab EXCEPT ![f] = c]
  BY <1>1, OpenedTables DEF Become
<1>3. Parts /\ sock[ClientSock] = NoFd
  BY DEF PInv, Parts, LocalsInv
<1>4. Owned(sock', fdtab')
  BY <1>1, <1>2, <1>3, PlaceFacts, ConnIsFile, OpenedOwned DEF PInv
<1>5. /\ sock'[ClientSock] = f /\ sock'[ListenSock] = sock[ListenSock]
      /\ \A g \in Fds : sock'[Entry(g)] = sock[Entry(g)]
      /\ fdtab'[f] = c /\ \A g \in Fds : g # f => fdtab'[g] = fdtab[g]
  BY <1>2, PlaceFacts DEF PInv, Owned
<1>6. /\ sock[Entry(f)] = NoFd /\ sock[ListenSock] # f
      /\ ~InQueue(f) /\ ~InHand(f)
  BY <1>1, FreeIsUnused
<1>7. f \notin armed[Main] \cup batch[Main]
  BY <1>3, <1>6 DEF Parts, WaitInv
<1>8. /\ armed'[Main] = armed[Main] \cup {f}
      /\ batch'[Main] = batch[Main] \ {sock[ListenSock]}
  BY <1>5, ThreadFacts DEF PInv, TypesInv, Arm
<1>9. /\ pc'[Main] = "emplace" /\ cur'[Main] = f
      /\ \A w \in Pool : pc'[w] = pc[w] /\ cur'[w] = cur[w]
  BY <1>5, ThreadFacts DEF PInv, TypesInv, Goto
<1>10. TypesInv'
  <2>1. pc' \in [Threads -> Labels]
    BY DEF PInv, TypesInv, Goto, Labels
  <2>2. cur' \in [Threads -> Fds \cup {NoFd}]
    BY <1>5 DEF PInv, TypesInv
  <2>3. armed' \in [Reactors -> SUBSET Fds] /\ batch' \in [Reactors -> SUBSET Fds]
    BY <1>5 DEF PInv, TypesInv, Arm
  <2>. QED
    BY <2>1, <2>2, <2>3 DEF PInv, TypesInv
<1>11. \A g : (InQueue(g)' <=> InQueue(g)) /\ (InHand(g)' <=> InHand(g))
  BY <1>9 DEF InQueue, InHand
<1>12. EntriesInv' /\ LocalsInv'
  BY <1>3, <1>5, <1>6, <1>9, ThreadFacts DEF Parts, EntriesInv, LocalsInv
<1>13. HandInv' /\ QueueInv' /\ FreshInv'
  BY <1>3, <1>5, <1>9, <1>11 DEF Parts, HandInv, QueueInv, FreshInv
<1>14. WaitInv'
  BY <1>3, <1>5, <1>6, <1>7, <1>8, <1>9, <1>11 DEF Parts, WaitInv
<1>15. ServedInv'
  <2>1. \A g \in Fds : sock[Entry(g)] # NoFd => g # sock[ListenSock]
    BY <1>3, PlaceFacts, ThreadFacts DEF PInv, Owned, Parts, EntriesInv
  <2>. QED
    BY <1>3, <1>5, <1>8, <1>9, <1>11, <2>1 DEF Parts, ServedInv
<1>. QED
  BY <1>4, <1>10, <1>12, <1>13, <1>14, <1>15 DEF PInv, Parts

LEMMA AcceptEventStep == ASSUME PInv, alive, Accept PROVE PInv'
<1>1. CASE ReturnFromSocket(Tables) /\ UNCHANGED cur
  BY <1>1, ReturnStep DEF Accept, pool
<1>2. CASE ~(ReturnFromSocket(Tables) /\ UNCHANGED cur)
  BY <1>2, AcceptedStep DEF Accept, pool
<1>. QED
  BY <1>1, <1>2

\* The client moves into the map; its old place is empty.
LEMMA EmplaceStep == ASSUME PInv, alive, Emplace PROVE PInv'
<1>. PICK f : f = cur[Main]
  OBVIOUS
<1>1. /\ Parts /\ pc[Main] = "emplace" /\ f \in Fds
      /\ sock[ClientSock] = f /\ fdtab[f] \in Conns
  BY ThreadFacts DEF PInv, TypesInv, Parts, LocalsInv, Emplace
<1>2. sock[Entry(f)] = NoFd
  BY <1>1, PlaceFacts, ThreadFacts DEF PInv, Owned, Parts, EntriesInv
<1>3. sock' = [sock EXCEPT ![Entry(f)] = sock[ClientSock], ![ClientSock] = NoFd] /\ fdtab' = fdtab
  <2>1. sock \in [Objects -> Fds \cup {NoFd}]
    BY DEF PInv, Owned
  <2>2. Become(Destroyed(Moved(Tables, Entry(f), ClientSock), ClientSock))
    BY <1>2 DEF Emplace, IsValid
  <2>. DEFINE s == [sock EXCEPT ![Entry(f)] = sock[ClientSock], ![ClientSock] = NoFd]
  <2>3. Moved(Tables, Entry(f), ClientSock) = [sock |-> s, fdtab |-> fdtab]
    BY MovedTables
  <2>4. s[ClientSock] = NoFd /\ [s EXCEPT ![ClientSock] = NoFd] = s
    BY <1>1, <2>1, PlaceFacts
  <2>. HIDE DEF s
  <2>5. sock' = [s EXCEPT ![ClientSock] = NoFd] /\ fdtab' = fdtab
    BY <2>2, <2>3, <2>4 DEF Become, Destroyed, Closing
  <2>. QED
    BY <2>4, <2>5 DEF s
<1>4. Owned(sock', fdtab')
  BY <1>1, <1>2, <1>3, PlaceFacts, MovedOwned DEF PInv
<1>5. /\ sock'[Entry(f)] = f /\ sock'[ClientSock] = NoFd /\ sock'[ListenSock] = sock[ListenSock]
      /\ \A g \in Fds : g # f => sock'[Entry(g)] = sock[Entry(g)]
  BY <1>1, <1>3, PlaceFacts DEF PInv, Owned
<1>6. /\ pc'[Main] = "dispatch" /\ cur'[Main] = NoFd
      /\ \A w \in Pool : pc'[w] = pc[w] /\ cur'[w] = cur[w]
  BY ThreadFacts DEF PInv, TypesInv, Emplace, Goto
<1>7. TypesInv'
  <2>1. pc' \in [Threads -> Labels]
    BY DEF PInv, TypesInv, Emplace, Goto, Labels
  <2>2. cur' \in [Threads -> Fds \cup {NoFd}]
    BY DEF PInv, TypesInv, Emplace
  <2>. QED
    BY <2>1, <2>2 DEF PInv, TypesInv, Emplace, pool
<1>8. UNCHANGED <<alive, armed, batch, jobq>>
  BY DEF Emplace, pool
<1>9. \A g : (InQueue(g)' <=> InQueue(g)) /\ (InHand(g)' <=> InHand(g))
  BY <1>6, <1>8 DEF InQueue, InHand
<1>10. EntriesInv' /\ LocalsInv'
  BY <1>1, <1>3, <1>5, <1>6 DEF Parts, EntriesInv, LocalsInv
<1>11. HandInv' /\ QueueInv' /\ FreshInv'
  BY <1>1, <1>5, <1>6, <1>8, <1>9, ThreadFacts DEF Parts, HandInv, QueueInv, FreshInv
<1>12. WaitInv'
  BY <1>1, <1>5, <1>6, <1>8, <1>9, ThreadFacts DEF Parts, WaitInv
<1>13. ServedInv'
  BY <1>1, <1>5, <1>6, <1>8, <1>9 DEF Parts, ServedInv
<1>. QED
  BY <1>4, <1>7, <1>10, <1>11, <1>12, <1>13 DEF PInv, Parts

\* An event becomes a job.
LEMMA PushStep == ASSUME PInv, alive, PushJob PROVE PInv'
<1>1. PICK f \in batch[Main] \ {sock[ListenSock]} :
        /\ batch' = [batch EXCEPT ![Main] = @ \ {f}]
        /\ jobq' = Append(jobq, f)
  BY DEF PushJob
<1>2. Parts /\ pc[Main] = "dispatch" /\ f \in Fds /\ jobq \in Seq(Fds)
  BY ThreadFacts DEF PInv, TypesInv, PushJob
<1>3. /\ jobq' \in Seq(Fds) /\ DOMAIN jobq' = DOMAIN jobq \cup {Len(jobq) + 1}
      /\ Len(jobq) + 1 \notin DOMAIN jobq /\ jobq'[Len(jobq) + 1] = f
      /\ \A i \in DOMAIN jobq : jobq'[i] = jobq[i]
  BY <1>1, <1>2, AppendProperties
<1>4. UNCHANGED <<sock, fdtab, alive, armed, cur>>
  BY DEF PushJob
<1>5. pc'[Main] = "notify" /\ \A w \in Pool : pc'[w] = pc[w]
  BY ThreadFacts DEF PInv, TypesInv, PushJob, Goto
<1>6. batch'[Main] = batch[Main] \ {f}
  BY <1>1, ThreadFacts DEF PInv, TypesInv
<1>7. TypesInv'
  <2>1. pc' \in [Threads -> Labels]
    BY DEF PInv, TypesInv, PushJob, Goto, Labels
  <2>2. batch' \in [Reactors -> SUBSET Fds]
    BY <1>1 DEF PInv, TypesInv
  <2>. QED
    BY <1>3, <1>4, <2>1, <2>2 DEF PInv, TypesInv
<1>8. ~InQueue(f) /\ ~InHand(f) /\ f \notin armed[Main] /\ sock[Entry(f)] # NoFd
  BY <1>1, <1>2 DEF Parts, WaitInv
<1>9. /\ InQueue(f)'
      /\ \A g : g # f => (InQueue(g)' <=> InQueue(g))
      /\ \A g : InHand(g)' <=> InHand(g)
  BY <1>3, <1>4 DEF InQueue, InHand
<1>10. EntriesInv' /\ LocalsInv' /\ HandInv'
  BY <1>2, <1>4, <1>5 DEF Parts, EntriesInv, LocalsInv, HandInv
<1>11. QueueInv'
  <2>1. \A i \in DOMAIN jobq : jobq[i] # f
    BY <1>8 DEF InQueue
  <2>2. \A i, j \in DOMAIN jobq' : i # j => jobq'[i] # jobq'[j]
    BY <1>2, <1>3, <2>1 DEF Parts, QueueInv
  <2>3. \A g \in Fds : ~(InQueue(g)' /\ InHand(g)')
    BY <1>2, <1>8, <1>9 DEF Parts, QueueInv
  <2>. QED
    BY <2>2, <2>3 DEF QueueInv
<1>12. FreshInv'
  BY <1>2, <1>4, <1>8, <1>9 DEF Parts, FreshInv
<1>13. WaitInv'
  BY <1>2, <1>4, <1>5, <1>6, <1>8, <1>9 DEF Parts, WaitInv
<1>14. ServedInv'
  BY <1>2, <1>4, <1>5, <1>6, <1>9 DEF Parts, ServedInv
<1>. QED
  BY <1>4, <1>7, <1>10, <1>11, <1>12, <1>13, <1>14 DEF PInv, Parts, Owned

\* What the thread of main does.
LEMMA ReactorStep == ASSUME PInv, alive, Reactor PROVE PInv'
<1>1. CASE EndOfBatch
  BY <1>1, MainMoves DEF EndOfBatch, Goto, evars, pool, Labels
<1>2. CASE Notify
  BY <1>2, MainMoves DEF Notify, Goto, evars, Labels
<1>3. CASE StopPool
  BY <1>3, MainMoves DEF StopPool, Goto, evars, Labels
<1>4. CASE NotifyAll
  BY <1>4, MainMoves DEF NotifyAll, Goto, evars, Labels
<1>5. CASE Join
  BY <1>5, ExitStep DEF Join, evars, pool, PInv, TypesInv
<1>. QED
  BY <1>1, <1>2, <1>3, <1>4, <1>5, SetUpStep, RegisterStep, WaitStep, AcceptEventStep,
     EmplaceStep, PushStep DEF Reactor

\* Clients change nothing in the process.
LEMMA ClientStep == ASSUME NEW c \in Conns, AnyClient(c) PROVE UNCHANGED process
  BY DEF AnyClient, ClientConnects, ClientCloses, ClientResets, ClientSends, ClientReads

LEMMA PoolInvariant == Spec => []PInv
<1>1. Init => PInv
  <2>. SUFFICES ASSUME Init PROVE PInv
    OBVIOUS
  <2>1. Owned(sock, fdtab)
    BY DEF Init, EpollInit, KernelInit, SocketInit, Owned, NoFd
  <2>2. TypesInv
    BY DEF Init, EpollInit, TypesInv, Labels
  <2>3. \A o \in Objects : sock[o] = NoFd
    BY DEF Init, EpollInit, KernelInit, SocketInit
  <2>4. /\ pc[Main] = "setup" /\ \A w \in Pool : pc[w] = "check" /\ cur[w] = NoFd
        /\ armed[Main] = {} /\ batch[Main] = {} /\ jobq = <<>>
    BY ThreadFacts DEF Init, EpollInit
  <2>5. \A f \in Fds : ~InQueue(f) /\ ~InHand(f)
    BY <2>4, ThreadFacts DEF InQueue, InHand
  <2>6. EntriesInv /\ LocalsInv /\ HandInv /\ QueueInv
    BY <2>3, <2>4, <2>5, PlaceFacts DEF EntriesInv, LocalsInv, HandInv, QueueInv
  <2>7. FreshInv /\ WaitInv /\ ServedInv
    BY <2>3, <2>4, <2>5, PlaceFacts DEF FreshInv, WaitInv, ServedInv
  <2>. QED
    BY <2>1, <2>2, <2>6, <2>7 DEF PInv, Parts
<1>2. PInv /\ [Next]_vars => PInv'
  <2>. SUFFICES ASSUME PInv, [Next]_vars PROVE PInv'
    OBVIOUS
  <2>1. ASSUME NEW c \in Conns, AnyClient(c), UNCHANGED <<evars, pool>> PROVE PInv'
    BY <2>1, ClientStep, NothingStep DEF process, evars, pool
  <2>2. CASE UNCHANGED vars
    BY <2>2, NothingStep DEF vars, kvars, process, evars, pool
  <2>3. ASSUME NEW w \in Pool, WakeSpuriously(w) PROVE PInv'
    BY <2>3, NothingStep DEF WakeSpuriously, kvars, process, evars
  <2>. QED
    BY <2>1, <2>2, <2>3, ReactorStep, WorkerStep DEF Next
<1>. QED
  BY <1>1, <1>2, PTL DEF Spec

-----------------------------------------------------------------------------

\* A set that has at most one element, counted.
LEMMA AtMostOne ==
  ASSUME NEW S, \A x, y \in S : x = y
  PROVE  Cardinality(S) = IF S = {} THEN 0 ELSE 1
<1>1. CASE S = {}
  BY <1>1, FS_EmptySet
<1>2. CASE S # {}
  <2>1. PICK x : S = {x}
    BY <1>2
  <2>. QED
    BY <1>2, <2>1, FS_Singleton
<1>. QED
  BY <1>1, <1>2

\* In the thread pool of stage 08 a client never has two jobs, is not
\* forgotten while the reactor runs, and is in the map as long as a job of it
\* is queued or run (MultiR_server.cpp:58, 75-88, 107-117).
THEOREM OneJobPerClient == Spec => []OneJob
<1>1. PInv => OneJob
  <2>. SUFFICES ASSUME PInv, alive, NEW f \in Fds
                PROVE  /\ IsValid(Entry(f)) => OneEach(f)
                       /\ Queued(f) # {} \/ Running(f) # {} => IsValid(Entry(f))
    BY DEF OneJob
  <2>1. Parts
    BY DEF PInv
  <2>2. /\ Queued(f) # {} <=> InQueue(f)
        /\ Running(f) # {} <=> InHand(f)
    BY DEF Queued, Running, InQueue, InHand
  <2>3. Queued(f) # {} \/ Running(f) # {} => IsValid(Entry(f))
    BY <2>1, <2>2 DEF Parts, FreshInv, IsValid
  <2>4. Cardinality(Queued(f)) = IF InQueue(f) THEN 1 ELSE 0
    <3>1. \A i, j \in Queued(f) : i = j
      BY <2>1 DEF Parts, QueueInv, Queued
    <3>. QED
      BY <2>2, <3>1, AtMostOne
  <2>5. Cardinality(Running(f)) = IF InHand(f) THEN 1 ELSE 0
    <3>1. \A v, w \in Running(f) : v = w
      BY <2>1, ThreadFacts DEF Parts, HandInv, Running
    <3>. QED
      BY <2>2, <3>1, AtMostOne
  <2>6. ASSUME IsValid(Entry(f)) PROVE OneEach(f)
    <3>1. f # sock[ListenSock]
      BY <2>1, <2>6, PlaceFacts, ThreadFacts DEF PInv, Owned, Parts, EntriesInv, IsValid
    <3>2. /\ f \in armed[Main] => f \notin batch[Main]
          /\ f \in armed[Main] \cup batch[Main] => ~InQueue(f) /\ ~InHand(f)
          /\ ~(InQueue(f) /\ InHand(f))
      BY <2>1, <3>1 DEF Parts, WaitInv, QueueInv
    <3>3. pc[Main] \in {"wait", "dispatch", "emplace", "notify"} =>
            f \in armed[Main] \cup batch[Main] \/ InQueue(f) \/ InHand(f)
      BY <2>1, <2>6 DEF Parts, ServedInv, IsValid
    <3>. QED
      BY <2>4, <2>5, <3>2, <3>3 DEF OneEach
  <2>. QED
    BY <2>3, <2>6
<1>. QED
  BY <1>1, PoolInvariant, PTL

\* The pool's descriptors are each held by one object, whichever thread moves
\* or closes it (MultiR_server.cpp:56-66, 81, 110).
THEOREM PoolOwnsOnce == Spec => []SingleOwner
<1>1. PInv => SingleOwner
  BY OwnedIsInv DEF PInv
<1>. QED
  BY <1>1, PoolInvariant, PTL

-----------------------------------------------------------------------------
(* The wake-ups.  A sleeping thread is in front of its test, so whoever is *)
(* woken joins those who come for a job.                                   *)

WakeInv ==
  /\ asleep \subseteq Pool /\ stop_server \in BOOLEAN
  /\ \A w \in asleep : pc[w] = "check"
  /\ NoLostWakeup

LEMMA ComingFinite == IsFiniteSet(Coming) /\ Cardinality(Coming) \in Nat
<1>1. Coming \subseteq Pool /\ IsFiniteSet(Pool)
  BY PoolAssumption DEF Coming
<1>. QED
  BY <1>1, FS_Subset, FS_CardinalityType

LEMMA ComingFiniteNext == IsFiniteSet(Coming') /\ Cardinality(Coming') \in Nat
<1>1. Coming' \subseteq Pool /\ IsFiniteSet(Pool)
  BY PoolAssumption DEF Coming
<1>. QED
  BY <1>1, FS_Subset, FS_CardinalityType

\* The notification that is due.
Due == IF pc[Main] = "notify" THEN 1 ELSE 0

\* A step that takes nobody from those who come, nor a notification that is due.
LEMMA WakeKept ==
  ASSUME PInv, WakeInv, UNCHANGED <<jobq, stop_server>>, alive' => alive,
         asleep' \subseteq asleep, Coming \subseteq Coming', \A w \in asleep' : pc'[w] = "check",
         pc[Main] = "notify" => pc'[Main] = "notify" \/ asleep' = {},
         pc[Main] = "notify_all" => pc'[Main] = "notify_all"
  PROVE  WakeInv'
<1>1. Cardinality(Coming) <= Cardinality(Coming')
  BY ComingFiniteNext, FS_Subset
<1>2. Len(jobq) \in Nat
  BY DEF PInv, TypesInv
<1>3. ASSUME alive', asleep' # {}
      PROVE  Len(jobq) <= Cardinality(Coming') + Due'
  <2>1. Len(jobq) <= Cardinality(Coming) + Due /\ Due <= Due'
    BY <1>3 DEF WakeInv, NoLostWakeup, Due
  <2>. QED
    BY <1>1, <1>2, <2>1, ComingFinite, ComingFiniteNext DEF Due
<1>4. ASSUME alive', asleep' # {}, stop_server
      PROVE  pc'[Main] = "notify_all"
  BY <1>4 DEF WakeInv, NoLostWakeup
<1>. QED
  BY <1>3, <1>4 DEF WakeInv, NoLostWakeup, Due

\* A thread that is woken comes ...
LEMMA WakeOne ==
  ASSUME WakeInv, NEW w \in asleep, asleep' = asleep \ {w}, pc'[w] = pc[w],
         \A v \in Pool : pc'[v] = pc[v]
  PROVE  Coming' = Coming \cup {w} /\ w \notin Coming
  BY DEF WakeInv, Coming

\* ... and one that takes a job, or leaves, comes no more.
LEMMA TakeJobWakes == ASSUME PInv, WakeInv, NEW w \in Pool, TakeJob(w) PROVE WakeInv'
<1>1. UNCHANGED <<alive, stop_server>> /\ pc[w] = "check" /\ w \notin asleep
  BY DEF TakeJob
<1>2. /\ pc \in [Threads -> Labels] /\ jobq \in Seq(Fds) /\ w \in Threads /\ Main # w
      /\ Pool \subseteq Threads
  BY ThreadFacts DEF PInv, TypesInv
<1>3. CASE jobq # <<>>
  <2>1. pc' = [pc EXCEPT ![w] = "find"] /\ UNCHANGED asleep /\ jobq' = Tail(jobq)
    BY <1>1, <1>3 DEF TakeJob, Goto
  <2>2. Coming' = Coming \ {w} /\ w \in Coming
    BY <1>1, <1>2, <2>1 DEF Coming
  <2>3. Cardinality(Coming') = Cardinality(Coming) - 1
    BY <2>2, ComingFinite, FS_RemoveElement
  <2>4. Len(jobq') = Len(jobq) - 1 /\ Len(jobq) \in Nat
    BY <1>2, <1>3, <2>1
  <2>5. pc'[Main] = pc[Main] /\ \A v \in asleep : pc'[v] = "check"
    BY <1>1, <1>2, <2>1, ThreadFacts DEF WakeInv
  <2>6. ASSUME alive', asleep' # {}
        PROVE  Len(jobq') <= Cardinality(Coming') + Due'
    <3>1. Len(jobq) <= Cardinality(Coming) + Due /\ Due' = Due
      BY <1>1, <2>1, <2>5, <2>6 DEF WakeInv, NoLostWakeup, Due
    <3>. QED
      BY <2>3, <2>4, <3>1, ComingFinite DEF Due
  <2>. QED
    BY <1>1, <2>1, <2>5, <2>6 DEF WakeInv, NoLostWakeup, Due
<1>4. CASE jobq = <<>> /\ stop_server
  <2>1. pc' = [pc EXCEPT ![w] = "exited"] /\ UNCHANGED <<asleep, jobq>>
    BY <1>1, <1>4 DEF TakeJob, Goto
  <2>2. pc'[Main] = pc[Main] /\ \A v \in asleep : pc'[v] = "check"
    BY <1>1, <1>2, <2>1, ThreadFacts DEF WakeInv
  <2>3. Len(jobq') = 0
    BY <1>4, <2>1
  <2>4. Len(jobq') <= Cardinality(Coming') + Due'
    BY <2>3, ComingFiniteNext DEF Due
  <2>. QED
    BY <1>1, <2>1, <2>2, <2>4 DEF WakeInv, NoLostWakeup, Due
<1>5. CASE jobq = <<>> /\ ~stop_server
  <2>1. asleep' = asleep \cup {w} /\ UNCHANGED <<pc, jobq>>
    BY <1>1, <1>5 DEF TakeJob
  <2>2. Len(jobq') = 0
    BY <1>5, <2>1
  <2>3. Len(jobq') <= Cardinality(Coming') + Due'
    BY <2>2, ComingFiniteNext DEF Due
  <2>. QED
    BY <1>1, <1>5, <2>1, <2>3 DEF WakeInv, NoLostWakeup, Due
<1>. QED
  BY <1>3, <1>4, <1>5 DEF WakeInv

LEMMA WakeStep == ASSUME PInv, WakeInv, [Next]_vars PROVE WakeInv'
<1>t. /\ pc \in [Threads -> Labels] /\ jobq \in Seq(Fds) /\ Main \in Threads /\ Main \notin Pool
      /\ Pool \subseteq Threads /\ asleep \subseteq Pool
  BY ThreadFacts DEF PInv, TypesInv, WakeInv
<1>1. ASSUME UNCHANGED <<pc, jobq, stop_server, asleep>>, alive' => alive
      PROVE  WakeInv'
  BY <1>1, WakeKept DEF WakeInv, Coming
<1>2. ASSUME NEW w \in Pool, Find(w) \/ Recv(w) \/ Send(w) \/ Close(w) PROVE WakeInv'
  <2>1. UNCHANGED pool /\ (alive' => alive) /\ pc[w] # "check"
    BY <1>2 DEF Find, Recv, Send, SendNonBlocking, Killed, Exit, Close
  <2>2. \A v \in Threads : v # w => pc'[v] = pc[v]
    BY <1>2, <1>t DEF Find, Recv, Send, SendNonBlocking, Killed, Close, Goto
  <2>3. Coming \subseteq Coming' /\ \A v \in asleep : pc'[v] = "check"
    BY <1>t, <2>1, <2>2 DEF Coming, WakeInv, pool
  <2>4. pc'[Main] = pc[Main]
    BY <1>t, <2>2
  <2>. QED
    BY <2>1, <2>3, <2>4, WakeKept DEF pool
<1>3. ASSUME NEW l, Goto(Main, l) PROVE \A v \in Pool : pc'[v] = pc[v]
  BY <1>3, <1>t DEF Goto
<1>4. CASE SetUp \/ RegisterListener \/ EpollWait \/ EndOfBatch \/ Accept \/ Emplace
  <2>1. UNCHANGED <<alive, jobq, stop_server, asleep>> /\ pc[Main] \notin {"notify", "notify_all"}
    BY <1>4 DEF SetUp, RegisterListener, EpollWait, EndOfBatch, Accept, Emplace, pool
  <2>2. \A v \in Pool : pc'[v] = pc[v]
    BY <1>3, <1>4 DEF SetUp, RegisterListener, EpollWait, EndOfBatch, Accept, Emplace,
                      ReturnFromSocket
  <2>3. Coming \subseteq Coming' /\ \A v \in asleep : pc'[v] = "check"
    BY <1>t, <2>1, <2>2 DEF Coming, WakeInv
  <2>. QED
    BY <2>1, <2>3, WakeKept
<1>5. CASE PushJob
  <2>1. /\ pc' = [pc EXCEPT ![Main] = "notify"] /\ pc[Main] = "dispatch"
        /\ UNCHANGED <<alive, stop_server, asleep>>
    BY <1>5 DEF PushJob, Goto
  <2>2. Len(jobq') = Len(jobq) + 1 /\ Len(jobq) \in Nat
    <3>1. batch[Main] \subseteq Fds
      BY PoolAssumption DEF PInv, TypesInv
    <3>. QED
      BY <1>5, <1>t, <3>1 DEF PushJob
  <2>3. Coming' = Coming /\ \A v \in asleep : pc'[v] = "check"
    BY <1>t, <2>1 DEF Coming, WakeInv
  <2>4. Due = 0 /\ Due' = 1
    BY <1>t, <2>1 DEF Due
  <2>5. ASSUME alive', asleep' # {} PROVE Len(jobq') <= Cardinality(Coming') + Due'
    <3>1. Len(jobq) <= Cardinality(Coming) + Due
      BY <2>1, <2>5 DEF WakeInv, NoLostWakeup, Due
    <3>. QED
      BY <2>2, <2>3, <2>4, <3>1, ComingFinite
  <2>6. alive /\ asleep # {} => ~stop_server
    BY <2>1 DEF WakeInv, NoLostWakeup
  <2>. QED
    BY <2>1, <2>3, <2>5, <2>6 DEF WakeInv, NoLostWakeup, Due
<1>6. CASE Notify
  <2>1. UNCHANGED <<alive, jobq, stop_server>> /\ pc[Main] = "notify"
    BY <1>6 DEF Notify
  <2>2. \A v \in Pool : pc'[v] = pc[v]
    BY <1>3, <1>6 DEF Notify
  <2>3. CASE asleep = {}
    BY <1>6, <2>1, <2>3 DEF Notify, NotifyOne, WakeInv, NoLostWakeup
  <2>4. ASSUME NEW w \in asleep, asleep' = asleep \ {w} PROVE WakeInv'
    <3>1. Coming' = Coming \cup {w} /\ w \notin Coming
      BY <1>t, <2>2, <2>4, WakeOne
    <3>2. Cardinality(Coming') = Cardinality(Coming) + 1
      BY <3>1, ComingFinite, FS_AddElement
    <3>3. ASSUME alive' PROVE Len(jobq') <= Cardinality(Coming') + Due' /\ ~stop_server'
      <4>1. Len(jobq) <= Cardinality(Coming) + 1 /\ ~stop_server
        BY <2>1, <2>4, <3>3 DEF WakeInv, NoLostWakeup
      <4>. QED
        BY <1>t, <2>1, <3>2, <4>1, ComingFinite DEF Due
    <3>4. asleep' \subseteq Pool /\ stop_server' \in BOOLEAN /\ \A v \in asleep' : pc'[v] = "check"
      BY <1>t, <2>1, <2>2, <2>4 DEF WakeInv
    <3>. QED
      BY <3>3, <3>4 DEF WakeInv, NoLostWakeup, Due
  <2>. QED
    BY <1>6, <2>3, <2>4 DEF Notify, NotifyOne
<1>7. CASE NotifyAll
  BY <1>7 DEF NotifyAll, WakeInv, NoLostWakeup
<1>8. CASE StopPool
  <2>1. pc' = [pc EXCEPT ![Main] = "notify_all"] /\ UNCHANGED <<alive, jobq, asleep>>
        /\ stop_server' = TRUE /\ pc[Main] = "stop"
    BY <1>8 DEF StopPool, Goto
  <2>2. pc'[Main] = "notify_all" /\ Coming' = Coming /\ \A v \in asleep : pc'[v] = "check"
    BY <1>t, <2>1 DEF Coming, WakeInv
  <2>3. alive /\ asleep # {} => Len(jobq) <= Cardinality(Coming) + 0
    BY <2>1 DEF WakeInv, NoLostWakeup
  <2>. QED
    BY <2>1, <2>2, <2>3 DEF WakeInv, NoLostWakeup
<1>9. CASE Join
  BY <1>1, <1>9 DEF Join, Exit, pool
<1>10. ASSUME NEW c \in Conns, AnyClient(c), UNCHANGED <<evars, pool>> PROVE WakeInv'
  BY <1>1, <1>10, ClientStep DEF process, pool
<1>11. ASSUME NEW w \in Pool, WakeSpuriously(w) PROVE WakeInv'
  <2>1. UNCHANGED <<alive, pc, jobq, stop_server>> /\ asleep' = asleep \ {w} /\ w \in asleep
    BY <1>11 DEF WakeSpuriously, kvars, process
  <2>2. Coming \subseteq Coming' /\ \A v \in asleep' : pc'[v] = "check"
    BY <2>1 DEF Coming, WakeInv
  <2>. QED
    BY <2>1, <2>2, WakeKept
<1>12. CASE UNCHANGED vars
  BY <1>1, <1>12 DEF vars, kvars, process, pool
<1>. QED
  BY <1>2, <1>4, <1>5, <1>6, <1>7, <1>8, <1>9, <1>10, <1>11, <1>12, TakeJobWakes
  DEF Next, Reactor, Worker

LEMMA WakeInvariant == Spec => []WakeInv
<1>1. Init => WakeInv
  BY DEF Init, WakeInv, NoLostWakeup
<1>. QED
  BY <1>1, WakeStep, PoolInvariant, PTL DEF Spec

\* No thread of the pool sleeps while the queue holds more jobs than threads
\* come for, the notification that is due among them, nor when stop_server is
\* set and notify_all done, however many threads there are and whichever have
\* ended (MultiR_server.cpp:113-120, 137-141, 151-156).
THEOREM WakeupsNotLost == Spec => []NoLostWakeup
<1>1. WakeInv => NoLostWakeup
  BY DEF WakeInv
<1>. QED
  BY <1>1, WakeInvariant, PTL

-----------------------------------------------------------------------------
(* The data.  A thread sends what it has received for the client of its    *)
(* job; as jobs have different clients (PInv), and a client has one        *)
(* descriptor (ConnsInv), nobody else sends to that client meanwhile.      *)

StreamTypes ==
  /\ alive \in BOOLEAN /\ backlog \in [Listeners -> SUBSET Conns] /\ accepted \subseteq Conns
  /\ peer \in [Conns -> {"open", "closed", "reset"}]
  /\ sent \in [Conns -> Nat] /\ taken \in [Conns -> Nat] /\ got \in [Conns -> Nat]
  /\ echoed \in [Conns -> Seq(Conns \X Nat)] /\ buf \in [Threads -> Seq(Conns \X Nat)]

BoundsInv ==
  \A c \in Conns : /\ got[c] <= Len(echoed[c]) /\ Len(echoed[c]) <= got[c] + TxMax
                   /\ taken[c] <= sent[c] /\ sent[c] <= SendMax[c]

\* A connection has one descriptor, once it has been accepted.
ConnsInv ==
  /\ \A f, g \in Fds : fdtab[f] \in Conns /\ fdtab[f] = fdtab[g] => f = g
  /\ \A f \in Fds : fdtab[f] \in Conns => fdtab[f] \in accepted
  /\ backlog[Listener] \cap accepted = {}

\* Units of client c, of the first t it has sent, in order.
InOrder(c, s, t) ==
  \A i \in DOMAIN s : /\ s[i][1] = c /\ s[i][2] \in i .. t
                      /\ i > 1 => s[i][2] > s[i - 1][2]

\* So are the units b, and they come after those of s.
Continues(c, s, b, t) ==
  \A i \in DOMAIN b : /\ b[i][1] = c /\ b[i][2] \in Len(s) + i .. t
                      /\ \A j \in DOMAIN s : s[j][2] < b[i][2]
                      /\ i > 1 => b[i][2] > b[i - 1][2]

\* What has been sent back to a client is its own, in order, and was received.
EchoInv == \A c \in Conns : InOrder(c, echoed[c], taken[c])

\* So is what thread w is about to send to c, and it follows the former.
Follows(w, c) == Continues(c, echoed[c], buf[w], taken[c])

BufInv == alive => \A w \in Pool : pc[w] = "send" => Follows(w, fdtab[cur[w]])

DInv == StreamTypes /\ BoundsInv /\ ConnsInv /\ EchoInv /\ BufInv

-----------------------------------------------------------------------------

\* The client of the job of a thread.
LEMMA JobClient ==
  ASSUME PInv, alive, NEW w \in Pool, pc[w] \in {"recv", "send", "close"}
  PROVE  /\ cur[w] \in Fds /\ sock[Entry(cur[w])] = cur[w] /\ fdtab[cur[w]] \in Conns
         /\ FileOf(Entry(cur[w])) = fdtab[cur[w]]
         /\ \A v \in Pool : v # w /\ pc[v] = "send" => cur[v] # cur[w]
<1>1. Parts /\ cur[w] \in Fds
  BY ThreadFacts DEF PInv, TypesInv, Parts, HandInv
<1>2. sock[Entry(cur[w])] = cur[w] /\ fdtab[cur[w]] \in Conns
  BY <1>1 DEF Parts, FreshInv, EntriesInv, InHand
<1>3. \A v \in Pool : v # w /\ pc[v] = "send" => cur[v] # cur[w]
  BY <1>1 DEF Parts, HandInv
<1>. QED
  BY <1>1, <1>2, <1>3, ThreadFacts DEF FileOf, IsValid

\* What a thread has to send still follows, when only more has been taken.
LEMMA FollowsKept ==
  ASSUME DInv, NEW w \in Pool, NEW c \in Conns, Follows(w, c), buf'[w] = buf[w],
         echoed'[c] = echoed[c], taken'[c] \in Nat, taken[c] <= taken'[c]
  PROVE  Follows(w, c)'
<1>1. taken[c] \in Nat /\ echoed[c] \in Seq(Conns \X Nat) /\ buf[w] \in Seq(Conns \X Nat)
  BY ThreadFacts DEF DInv, StreamTypes
<1>2. \A i \in DOMAIN buf[w] : buf[w][i][2] \in Len(echoed[c]) + i .. taken'[c]
  BY <1>1 DEF Follows, Continues
<1>. QED
  BY <1>2 DEF Follows, Continues

\* Steps after which no thread has more to send than before.
LEMMA BufferKept ==
  ASSUME DInv, UNCHANGED <<buf, echoed>>, alive' => alive,
         \A c \in Conns : taken'[c] \in Nat /\ taken[c] <= taken'[c],
         \A w \in Pool : alive /\ pc'[w] = "send" =>
           pc[w] = "send" /\ fdtab[cur[w]] \in Conns /\ fdtab'[cur'[w]] = fdtab[cur[w]]
  PROVE  BufInv'
<1>. SUFFICES ASSUME alive', NEW w \in Pool, pc'[w] = "send"
              PROVE  Follows(w, fdtab[cur[w]])'
  BY DEF BufInv
<1>. PICK c : c = fdtab[cur[w]]
  OBVIOUS
<1>1. c \in Conns /\ Follows(w, c) /\ fdtab'[cur'[w]] = c
  BY DEF DInv, BufInv
<1>2. Follows(w, c)'
  BY <1>1, FollowsKept
<1>. QED
  BY <1>1, <1>2 DEF Follows

\* The reactor, before it joins, moves no client that is in the map.
LEMMA ReactorKeeps ==
  ASSUME PInv, alive, Reactor, ~Join
  PROVE  /\ UNCHANGED <<alive, buf, streams>>
         /\ \A w \in Pool : pc'[w] = pc[w] /\ cur'[w] = cur[w]
         /\ \A f \in Fds : sock[Entry(f)] # NoFd => fdtab'[f] = fdtab[f]
         /\ \/ /\ \A f \in Fds : fdtab'[f] \in Conns => fdtab'[f] = fdtab[f]
               /\ UNCHANGED <<backlog, accepted>> \/ \E c \in Conns : Takes(Listener, c)
            \/ \E c \in Conns, f \in Fds : /\ Takes(Listener, c) /\ fdtab[f] = NoFile
                                           /\ fdtab' = [fdtab EXCEPT ![f] = c]
<1>1. Parts /\ fdtab \in [Fds -> Files \cup {NoFile}]
  BY DEF PInv, Owned
<1>2. UNCHANGED <<alive, buf, streams>>
  BY DEF Reactor, SetUp, RegisterListener, EpollWait, EndOfBatch, Accept, Emplace, PushJob,
         Notify, StopPool, NotifyAll
<1>3. \A w \in Pool : pc'[w] = pc[w] /\ cur'[w] = cur[w]
  BY ThreadFacts
  DEF Reactor, SetUp, RegisterListener, EpollWait, EndOfBatch, Accept, Emplace, PushJob, Notify,
      StopPool, NotifyAll, ReturnFromSocket, Goto, PInv, TypesInv, evars
<1>4. CASE SetUp
  <2>1. UNCHANGED <<backlog, accepted>>
    BY <1>4 DEF SetUp
  <2>2. CASE Listens(ListenSock, Listener)
    <3>1. PICK f \in Fds : fdtab[f] = NoFile /\ fdtab' = [fdtab EXCEPT ![f] = Listener]
      BY <2>2, OpenedTables DEF Listens, Become, Lowest, Free
    <3>2. sock[Entry(f)] = NoFd
      BY <3>1, FreeIsUnused
    <3>. QED
      BY <1>1, <1>2, <1>3, <2>1, <3>1, <3>2, KernelAssumption, PoolAssumption
  <2>3. CASE UNCHANGED fdtab
    BY <1>2, <1>3, <2>1, <2>3
  <2>. QED
    BY <1>4, <2>2, <2>3 DEF SetUp
<1>5. CASE EpollWait \/ EndOfBatch \/ Emplace \/ PushJob \/ Notify \/ StopPool \/ NotifyAll
  <2>1. UNCHANGED <<backlog, accepted>>
    BY <1>5 DEF EpollWait, EndOfBatch, Emplace, PushJob, Notify, StopPool, NotifyAll
  <2>2. UNCHANGED fdtab
    <3>1. CASE Emplace
      <4>. PICK f : f = cur[Main]
        OBVIOUS
      <4>1. f \in Fds /\ sock[ClientSock] = f
        BY <3>1, ThreadFacts DEF PInv, TypesInv, Parts, LocalsInv, Emplace
      <4>2. sock[Entry(f)] = NoFd
        BY <1>1, <4>1, PlaceFacts, ThreadFacts DEF PInv, Owned, Parts, EntriesInv
      <4>3. Become(Destroyed(Moved(Tables, Entry(f), ClientSock), ClientSock))
        BY <3>1, <4>2 DEF Emplace, IsValid
      <4>4. [sock EXCEPT ![Entry(f)] = sock[ClientSock], ![ClientSock] = NoFd][ClientSock] = NoFd
        BY PlaceFacts, <4>1 DEF PInv, Owned
      <4>. QED
        BY <4>3, <4>4, MovedTables DEF Become, Destroyed, Closing
    <3>2. CASE ~Emplace
      BY <1>5, <3>2 DEF EpollWait, EndOfBatch, PushJob, Notify, StopPool, NotifyAll
    <3>. QED
      BY <3>1, <3>2
  <2>. QED
    BY <1>2, <1>3, <2>1, <2>2
<1>6. ASSUME ReturnFromSocket(Tables), pc[Main] \in {"epoll", "dispatch"}
      PROVE  /\ \A f \in Fds : sock[Entry(f)] # NoFd => fdtab'[f] = fdtab[f]
             /\ \A f \in Fds : fdtab'[f] \in Conns => fdtab'[f] = fdtab[f]
  <2>1. fdtab' = [f \in Fds |-> IF \E o \in {ListenSock, ClientSock} : sock[o] = f
                                THEN NoFile ELSE fdtab[f]]
    BY <1>6 DEF ReturnFromSocket, Become, DestroyedAll, Tables
  <2>2. \A f \in Fds : sock[Entry(f)] # NoFd => sock[ListenSock] # f /\ sock[ClientSock] # f
    BY <1>1, PlaceFacts, ThreadFacts DEF PInv, Owned, Parts, EntriesInv
  <2>. QED
    BY <2>1, <2>2, ConnIsFile
<1>7. CASE RegisterListener
  <2>1. UNCHANGED <<backlog, accepted>> /\ pc[Main] = "epoll"
    BY <1>7 DEF RegisterListener
  <2>2. CASE UNCHANGED fdtab
    BY <1>2, <1>3, <2>1, <2>2
  <2>. QED
    BY <1>2, <1>3, <1>6, <1>7, <2>1, <2>2 DEF RegisterListener
<1>8. CASE Accept
  <2>1. pc[Main] = "dispatch"
    BY <1>8 DEF Accept
  <2>2. CASE Accepts(Listener, ClientSock)
    <3>1. PICK c \in Conns, f \in Fds :
            Takes(Listener, c) /\ fdtab[f] = NoFile /\ Become(Opened(Tables, ClientSock, f, c))
      BY <2>2 DEF Accepts, Lowest, Free
    <3>2. fdtab' = [fdtab EXCEPT ![f] = c]
      BY <3>1, OpenedTables DEF Become
    <3>3. sock[Entry(f)] = NoFd
      BY <3>1, FreeIsUnused
    <3>. QED
      BY <1>1, <1>2, <1>3, <3>1, <3>2, <3>3
  <2>3. CASE ReturnFromSocket(Tables) /\ (UNCHANGED <<backlog, accepted>> \/ \E c \in Conns : Takes(Listener, c))
    BY <1>2, <1>3, <1>6, <2>1, <2>3
  <2>. QED
    BY <1>8, <2>2, <2>3 DEF Accept
<1>. QED
  BY <1>4, <1>5, <1>7, <1>8 DEF Reactor

\* The connections, when one may have been taken from the queue.
LEMMA ConnsKept ==
  ASSUME ConnsInv, fdtab \in [Fds -> Files \cup {NoFile}],
         backlog \in [Listeners -> SUBSET Conns], accepted \subseteq Conns,
         \/ /\ \A f \in Fds : fdtab'[f] \in Conns => fdtab'[f] = fdtab[f]
            /\ UNCHANGED <<backlog, accepted>> \/ \E c \in Conns : Takes(Listener, c)
         \/ \E c \in Conns, f \in Fds : /\ Takes(Listener, c) /\ fdtab[f] = NoFile
                                        /\ fdtab' = [fdtab EXCEPT ![f] = c]
  PROVE  ConnsInv' /\ backlog' \in [Listeners -> SUBSET Conns] /\ accepted' \subseteq Conns
<1>1. ASSUME NEW c \in Conns, Takes(Listener, c)
      PROVE  /\ accepted' = accepted \cup {c} /\ backlog'[Listener] = backlog[Listener] \ {c}
             /\ c \notin accepted
             /\ backlog' \in [Listeners -> SUBSET Conns] /\ accepted' \subseteq Conns
  BY <1>1, PoolAssumption DEF Takes, ConnsInv
<1>2. CASE \A f \in Fds : fdtab'[f] \in Conns => fdtab'[f] = fdtab[f]
  <2>1. /\ \A f, g \in Fds : fdtab'[f] \in Conns /\ fdtab'[f] = fdtab'[g] => f = g
        /\ \A f \in Fds : fdtab'[f] \in Conns => fdtab'[f] \in accepted
    BY <1>2 DEF ConnsInv
  <2>2. CASE UNCHANGED <<backlog, accepted>>
    BY <2>1, <2>2 DEF ConnsInv
  <2>3. ASSUME NEW c \in Conns, Takes(Listener, c)
        PROVE  ConnsInv' /\ backlog' \in [Listeners -> SUBSET Conns] /\ accepted' \subseteq Conns
    BY <1>1, <2>1, <2>3 DEF ConnsInv
  <2>4. CASE \E c \in Conns, f \in Fds : Takes(Listener, c)
    BY <2>3, <2>4
  <2>. QED
    BY <2>2, <2>3, <2>4
<1>3. ASSUME NEW c \in Conns, NEW f \in Fds, Takes(Listener, c), fdtab[f] = NoFile,
             fdtab' = [fdtab EXCEPT ![f] = c]
      PROVE  ConnsInv' /\ backlog' \in [Listeners -> SUBSET Conns] /\ accepted' \subseteq Conns
  BY <1>1, <1>3 DEF ConnsInv
<1>. QED
  BY <1>2, <1>3

LEMMA ReactorData == ASSUME PInv, DInv, alive, Reactor, ~Join PROVE DInv'
<1>1. /\ UNCHANGED <<alive, buf, streams>>
      /\ \A w \in Pool : pc'[w] = pc[w] /\ cur'[w] = cur[w]
      /\ \A f \in Fds : sock[Entry(f)] # NoFd => fdtab'[f] = fdtab[f]
  BY ReactorKeeps
<1>2. ConnsInv' /\ backlog' \in [Listeners -> SUBSET Conns] /\ accepted' \subseteq Conns
  BY ReactorKeeps, ConnsKept DEF PInv, Owned, DInv, StreamTypes
<1>3. StreamTypes' /\ BoundsInv' /\ EchoInv'
  BY <1>1, <1>2 DEF DInv, StreamTypes, BoundsInv, EchoInv, streams
<1>4. \A w \in Pool : pc[w] = "send" => fdtab'[cur[w]] = fdtab[cur[w]]
  BY <1>1, JobClient, ThreadFacts
<1>5. BufInv'
  <2>1. \A w \in Pool : pc[w] = "send" => fdtab[cur[w]] \in Conns
    BY JobClient
  <2>2. \A c \in Conns : taken'[c] \in Nat /\ taken[c] <= taken'[c]
    BY <1>1 DEF DInv, StreamTypes, streams
  <2>. QED
    BY <1>1, <1>4, <2>1, <2>2, BufferKept DEF streams
<1>. QED
  BY <1>2, <1>3, <1>5 DEF DInv

\* The process ends.
LEMMA ExitData ==
  ASSUME DInv, Exit, UNCHANGED <<buf, backlog, accepted, streams>> PROVE DInv'
<1>1. alive' = FALSE /\ \A f \in Fds : fdtab'[f] = NoFile
  BY DEF Exit
<1>. QED
  BY <1>1, ConnIsFile DEF DInv, StreamTypes, BoundsInv, ConnsInv, EchoInv, BufInv, streams

\* More has been taken, and nothing sent back.
LEMMA EchoKept ==
  ASSUME DInv, UNCHANGED echoed,
         \A c \in Conns : taken'[c] \in Nat /\ taken[c] <= taken'[c]
  PROVE  EchoInv'
<1>. SUFFICES ASSUME NEW c \in Conns PROVE InOrder(c, echoed[c], taken'[c])
  BY DEF EchoInv
<1>1. InOrder(c, echoed[c], taken[c]) /\ taken[c] \in Nat /\ \A i \in DOMAIN echoed[c] : i \in Int
  BY DEF DInv, EchoInv, StreamTypes
<1>. QED
  BY <1>1 DEF InOrder

-----------------------------------------------------------------------------
(* The clients, which leave the process alone. *)

LEMMA ClientBuffers ==
  ASSUME PInv, DInv, UNCHANGED <<process, cur, echoed>>,
         \A c \in Conns : taken'[c] \in Nat /\ taken[c] <= taken'[c]
  PROVE  BufInv'
<1>1. \A w \in Pool : alive /\ pc[w] = "send" => fdtab[cur[w]] \in Conns
  BY JobClient
<1>. QED
  BY <1>1, BufferKept DEF process

LEMMA ConnectData ==
  ASSUME PInv, DInv, UNCHANGED cur, NEW c \in Conns, ClientConnects(c) PROVE DInv'
<1>1. /\ backlog' = [backlog EXCEPT ![Listener] = @ \cup {c}] /\ c \notin accepted
      /\ UNCHANGED <<process, accepted, streams>>
  BY PoolAssumption DEF ClientConnects, Arrived, Listening
<1>2. backlog' \in [Listeners -> SUBSET Conns] /\ backlog'[Listener] = backlog[Listener] \cup {c}
  BY <1>1, PoolAssumption DEF DInv, StreamTypes
<1>3. StreamTypes' /\ BoundsInv' /\ EchoInv'
  BY <1>1, <1>2 DEF DInv, StreamTypes, BoundsInv, EchoInv, streams, process
<1>4. ConnsInv'
  BY <1>1, <1>2 DEF DInv, ConnsInv, process
<1>5. BufInv'
  BY <1>1, ClientBuffers DEF DInv, StreamTypes, streams
<1>. QED
  BY <1>3, <1>4, <1>5 DEF DInv

LEMMA ClientSendsData ==
  ASSUME PInv, DInv, UNCHANGED cur,
         NEW c \in Conns, NEW n \in 1 .. SendMax[c], ClientSends(c, n)
  PROVE  DInv'
<1>1. /\ sent' = [sent EXCEPT ![c] = @ + n] /\ sent[c] + n <= SendMax[c]
      /\ UNCHANGED <<process, backlog, accepted, peer, taken, echoed, got>>
  BY DEF ClientSends
<1>2. /\ sent' \in [Conns -> Nat]
      /\ \A d \in Conns : taken[d] <= sent'[d] /\ sent'[d] <= SendMax[d]
  <2>1. /\ sent \in [Conns -> Nat] /\ taken \in [Conns -> Nat] /\ n \in Nat
        /\ \A d \in Conns : taken[d] <= sent[d] /\ sent[d] <= SendMax[d]
    BY KernelAssumption DEF DInv, StreamTypes, BoundsInv
  <2>. QED
    BY <1>1, <2>1
<1>3. StreamTypes' /\ BoundsInv'
  BY <1>1, <1>2 DEF DInv, StreamTypes, BoundsInv, process
<1>4. ConnsInv' /\ EchoInv'
  BY <1>1 DEF DInv, ConnsInv, EchoInv, process
<1>5. BufInv'
  BY <1>1, ClientBuffers DEF DInv, StreamTypes
<1>. QED
  BY <1>3, <1>4, <1>5 DEF DInv

LEMMA ClientReadsData ==
  ASSUME PInv, DInv, UNCHANGED cur,
         NEW c \in Conns, NEW n \in 1 .. SendMax[c], ClientReads(c, n)
  PROVE  DInv'
<1>1. /\ got' = [got EXCEPT ![c] = @ + n] /\ n \in 1 .. Len(echoed[c]) - got[c]
      /\ UNCHANGED <<process, backlog, accepted, peer, taken, echoed, sent>>
  BY DEF ClientReads, InTransit
<1>2. got' \in [Conns -> Nat] /\ got'[c] <= Len(echoed[c]) /\ got[c] <= got'[c]
      /\ \A d \in Conns : d # c => got'[d] = got[d]
  <2>1. Len(echoed[c]) \in Nat /\ got[c] \in Nat /\ got \in [Conns -> Nat]
    BY DEF DInv, StreamTypes
  <2>. QED
    BY <1>1, <2>1
<1>3. StreamTypes'
  BY <1>1, <1>2 DEF DInv, StreamTypes, process
<1>4. BoundsInv'
  BY <1>1, <1>2, KernelAssumption DEF DInv, StreamTypes, BoundsInv
<1>5. ConnsInv' /\ EchoInv'
  BY <1>1 DEF DInv, ConnsInv, EchoInv, process
<1>6. \A d \in Conns : taken'[d] \in Nat /\ taken[d] <= taken'[d]
  BY <1>1 DEF DInv, StreamTypes
<1>7. BufInv'
  BY <1>1, <1>6, ClientBuffers
<1>. QED
  BY <1>3, <1>4, <1>5, <1>7 DEF DInv

\* A reset may count as taken what nobody has received.
LEMMA ClientEndsData ==
  ASSUME PInv, DInv, UNCHANGED cur, NEW c \in Conns, ClientCloses(c) \/ ClientResets(c)
  PROVE  DInv'
<1>1. /\ peer' \in [Conns -> {"open", "closed", "reset"}]
      /\ \E n \in {taken[c], sent[c]} : taken' = [taken EXCEPT ![c] = n]
      /\ UNCHANGED <<process, backlog, accepted, sent, echoed, got>>
  BY DEF ClientCloses, ClientResets, DInv, StreamTypes
<1>2. /\ taken' \in [Conns -> Nat]
      /\ \A d \in Conns : taken'[d] \in Nat /\ taken[d] <= taken'[d] /\ taken'[d] <= sent[d]
  BY <1>1 DEF DInv, StreamTypes, BoundsInv
<1>3. StreamTypes' /\ BoundsInv' /\ ConnsInv'
  BY <1>1, <1>2 DEF DInv, StreamTypes, BoundsInv, ConnsInv, process
<1>4. EchoInv'
  BY <1>1, <1>2, EchoKept
<1>5. BufInv'
  BY <1>1, <1>2, ClientBuffers
<1>. QED
  BY <1>3, <1>4, <1>5 DEF DInv

-----------------------------------------------------------------------------
(* The threads of the pool. *)

\* A step of one thread leaves the others and their clients alone.
LEMMA OthersKept ==
  ASSUME PInv, DInv, alive, NEW w \in Pool, Worker(w), alive', NEW v \in Pool, v # w, pc[v] = "send"
  PROVE  /\ pc'[v] = "send" /\ cur'[v] = cur[v] /\ buf'[v] = buf[v]
         /\ fdtab'[cur[v]] = fdtab[cur[v]]
<1>1. cur[v] \in Fds
  BY JobClient
<1>2. CASE TakeJob(w) \/ Find(w) \/ Recv(w)
  <2>1. UNCHANGED fdtab /\ cur'[v] = cur[v] /\ buf'[v] = buf[v]
    BY <1>2, ThreadFacts
    DEF TakeJob, Find, Recv, Received, PInv, TypesInv, DInv, StreamTypes
  <2>2. pc'[v] = "send"
    BY <1>2, ThreadFacts DEF TakeJob, Find, Recv, Goto, PInv, TypesInv
  <2>. QED
    BY <2>1, <2>2
<1>3. CASE Send(w)
  <2>1. ~Exit
    BY DEF Exit
  <2>. QED
    BY <1>3, <2>1, ThreadFacts DEF Send, SendNonBlocking, Killed, Goto, evars, PInv, TypesInv, DInv, StreamTypes
<1>4. CASE Close(w)
  <2>1. cur[w] \in Fds /\ sock[Entry(cur[w])] = cur[w] /\ cur[v] # cur[w]
    BY <1>4, JobClient DEF Close
  <2>2. fdtab' = [fdtab EXCEPT ![cur[w]] = NoFile]
    BY <1>4, <2>1, ThreadFacts DEF Close, Become, Destroyed, Closing, Tables
  <2>. QED
    BY <1>1, <1>4, <2>1, <2>2, ThreadFacts DEF Close, Goto, PInv, TypesInv, Owned
<1>. QED
  BY <1>2, <1>3, <1>4 DEF Worker

\* Steps of a thread that neither receive nor send.
LEMMA QuietData ==
  ASSUME PInv, DInv, alive, NEW w \in Pool, Worker(w), pc'[w] # "send",
         UNCHANGED <<alive, buf, backlog, accepted, streams>>,
         \A f \in Fds : fdtab'[f] \in Conns => fdtab'[f] = fdtab[f]
  PROVE  DInv'
<1>1. StreamTypes' /\ BoundsInv' /\ EchoInv'
  BY DEF DInv, StreamTypes, BoundsInv, EchoInv, streams
<1>2. ConnsInv'
  BY ConnsKept DEF PInv, Owned, DInv, StreamTypes
<1>3. \A v \in Pool : pc'[v] = "send" =>
        pc[v] = "send" /\ fdtab[cur[v]] \in Conns /\ fdtab'[cur'[v]] = fdtab[cur[v]]
  <2>. SUFFICES ASSUME NEW v \in Pool, pc'[v] = "send"
                PROVE  pc[v] = "send" /\ fdtab[cur[v]] \in Conns /\ fdtab'[cur'[v]] = fdtab[cur[v]]
    OBVIOUS
  <2>1. v # w
    OBVIOUS
  <2>2. pc[v] = "send"
    BY <2>1, ThreadFacts DEF Worker, TakeJob, Find, Recv, Send, SendNonBlocking, Killed, Close,
                             Goto, PInv, TypesInv
  <2>. QED
    BY <2>1, <2>2, JobClient, OthersKept
<1>4. \A c \in Conns : taken'[c] \in Nat /\ taken[c] <= taken'[c]
  BY DEF DInv, StreamTypes, streams
<1>5. BufInv'
  BY <1>3, <1>4, BufferKept DEF streams
<1>. QED
  BY <1>1, <1>2, <1>5 DEF DInv

\* The last of n units in order is no less than the n-th.
LEMMA InOrderBound ==
  ASSUME NEW c, NEW t, t \in Nat, NEW s \in Seq(Conns \X Nat), InOrder(c, s, t)
  PROVE  Len(s) <= t
<1>1. CASE Len(s) > 0
  <2>1. Len(s) \in DOMAIN s
    BY <1>1
  <2>2. s[Len(s)][2] \in Len(s) .. t
    BY <2>1 DEF InOrder
  <2>. QED
    BY <2>2
<1>2. CASE ~(Len(s) > 0)
  BY <1>2
<1>. QED
  BY <1>1, <1>2

LEMMA EchoedFromTaken ==
  ASSUME DInv, NEW c \in Conns
  PROVE  /\ echoed[c] \in Seq(Conns \X Nat) /\ Len(echoed[c]) \in Nat /\ taken[c] \in Nat
         /\ Len(echoed[c]) <= taken[c]
<1>1. echoed[c] \in Seq(Conns \X Nat) /\ taken[c] \in Nat /\ InOrder(c, echoed[c], taken[c])
  BY DEF DInv, StreamTypes, EchoInv
<1>. QED
  BY <1>1, InOrderBound

\* A thread receives what its client has sent last, after all that went back.
LEMMA RecvData ==
  ASSUME PInv, DInv, alive, NEW w \in Pool, Recv(w), Received(w, Entry(cur[w])),
         Goto(w, "send"), UNCHANGED cur
  PROVE  DInv'
<1>. PICK c : c = fdtab[cur[w]]
  OBVIOUS
<1>. PICK n : n = IF Unread(c) < RecvMax THEN Unread(c) ELSE RecvMax
  OBVIOUS
<1>1. c \in Conns /\ FileOf(Entry(cur[w])) = c
  BY JobClient DEF Recv
<1>2. /\ buf' = [buf EXCEPT ![w] = [i \in 1 .. n |-> <<c, taken[c] + i>>]]
      /\ taken' = [taken EXCEPT ![c] = @ + n] /\ Unread(c) > 0
  BY <1>1 DEF Received
<1>3. /\ taken[c] \in Nat /\ sent[c] \in Nat /\ taken[c] <= sent[c]
      /\ n \in Nat /\ taken[c] + n <= sent[c]
  <2>1. taken[c] \in Nat /\ sent[c] \in Nat /\ taken[c] <= sent[c]
    BY <1>1 DEF DInv, StreamTypes, BoundsInv
  <2>. QED
    BY <2>1, KernelAssumption DEF Unread
<1>4. /\ taken' \in [Conns -> Nat] /\ taken'[c] = taken[c] + n
      /\ \A d \in Conns : taken'[d] \in Nat /\ taken[d] <= taken'[d] /\ taken'[d] <= sent[d]
  <2>1. taken \in [Conns -> Nat] /\ \A d \in Conns : taken[d] <= sent[d]
    BY DEF DInv, StreamTypes, BoundsInv
  <2>. QED
    BY <1>1, <1>2, <1>3, <2>1
<1>5. UNCHANGED <<sock, fdtab, alive, backlog, accepted, peer, sent, echoed, got>>
  BY DEF Recv
<1>6. StreamTypes'
  <2>1. [i \in 1 .. n |-> <<c, taken[c] + i>>] \in Seq(Conns \X Nat)
    BY <1>1, <1>3
  <2>. QED
    BY <1>2, <1>4, <1>5, <2>1 DEF DInv, StreamTypes
<1>7. BoundsInv' /\ ConnsInv'
  BY <1>4, <1>5 DEF DInv, BoundsInv, ConnsInv
<1>8. EchoInv'
  BY <1>4, <1>5, EchoKept
<1>9. Follows(w, c)'
  <2>1. /\ DOMAIN buf'[w] = 1 .. n
        /\ \A i \in 1 .. n : buf'[w][i] = <<c, taken[c] + i>>
    BY <1>2, ThreadFacts DEF DInv, StreamTypes
  <2>2. /\ echoed[c] \in Seq(Conns \X Nat) /\ Len(echoed[c]) \in Nat
        /\ Len(echoed[c]) <= taken[c]
    BY <1>1, EchoedFromTaken
  <2>3. \A j \in DOMAIN echoed[c] : echoed[c][j][2] \in Nat /\ echoed[c][j][2] <= taken[c]
    BY <1>1, <1>3, <2>2 DEF DInv, EchoInv, InOrder
  <2>4. ASSUME NEW i \in 1 .. n
        PROVE  /\ buf'[w][i][1] = c /\ buf'[w][i][2] \in Len(echoed[c]) + i .. taken'[c]
               /\ \A j \in DOMAIN echoed[c] : echoed[c][j][2] < buf'[w][i][2]
               /\ i > 1 => buf'[w][i][2] > buf'[w][i - 1][2]
    <3>1. buf'[w][i] = <<c, taken[c] + i>> /\ i \in Nat /\ i <= n /\ i > 0
      BY <1>3, <2>1
    <3>2. i > 1 => buf'[w][i - 1] = <<c, taken[c] + (i - 1)>>
      BY <1>3, <2>1
    <3>3. buf'[w][i][2] \in Len(echoed[c]) + i .. taken'[c]
      BY <1>3, <1>4, <2>2, <3>1, SMTT(30)
    <3>4. \A j \in DOMAIN echoed[c] : echoed[c][j][2] < buf'[w][i][2]
      BY <1>3, <2>3, <3>1
    <3>. QED
      BY <1>3, <3>1, <3>2, <3>3, <3>4
  <2>. QED
    BY <1>5, <2>1, <2>4 DEF Follows, Continues
<1>10. BufInv'
  <2>. SUFFICES ASSUME NEW v \in Pool, pc'[v] = "send"
                PROVE  Follows(v, fdtab[cur[v]])'
    BY DEF BufInv
  <2>. PICK d : d = fdtab[cur[v]]
    OBVIOUS
  <2>1. fdtab'[cur'[v]] = d
    BY <1>5
  <2>2. CASE v = w
    BY <1>9, <2>1, <2>2 DEF Follows
  <2>3. CASE v # w
    <3>1. pc[v] = "send"
      BY <2>3, ThreadFacts DEF Goto, PInv, TypesInv
    <3>2. d \in Conns /\ Follows(v, d) /\ buf'[v] = buf[v]
      BY <1>2, <2>3, <3>1, JobClient, ThreadFacts DEF DInv, BufInv, StreamTypes
    <3>3. Follows(v, d)'
      BY <1>4, <1>5, <3>2, FollowsKept
    <3>. QED
      BY <2>1, <3>3 DEF Follows
  <2>. QED
    BY <2>2, <2>3
<1>. QED
  BY <1>6, <1>7, <1>8, <1>10 DEF DInv

LEMMA ConcatParts ==
  ASSUME NEW S, NEW e \in Seq(S), NEW s \in Seq(S)
  PROVE  /\ e \o s \in Seq(S) /\ Len(e \o s) = Len(e) + Len(s)
         /\ \A i \in 1 .. Len(e) : (e \o s)[i] = e[i]
         /\ \A i \in Len(e) + 1 .. Len(e) + Len(s) :
              i - Len(e) \in 1 .. Len(s) /\ (e \o s)[i] = s[i - Len(e)]
  OBVIOUS

LEMMA PrefixParts ==
  ASSUME NEW S, NEW b \in Seq(S), NEW m \in 0 .. Len(b)
  PROVE  /\ SubSeq(b, 1, m) \in Seq(S) /\ Len(SubSeq(b, 1, m)) = m
         /\ \A i \in 1 .. m : SubSeq(b, 1, m)[i] = b[i]
  OBVIOUS

\* What has gone back to client c, and a part s of what continues it.
LEMMA EchoGrows ==
  ASSUME NEW c, NEW t, NEW e \in Seq(Conns \X Nat), NEW b \in Seq(Conns \X Nat),
         NEW s \in Seq(Conns \X Nat), Len(s) <= Len(b), \A i \in 1 .. Len(s) : s[i] = b[i],
         InOrder(c, e, t), Continues(c, e, b, t)
  PROVE  InOrder(c, e \o s, t)
<1>. PICK r, m : r = e \o s /\ m = Len(s)
  OBVIOUS
<1>2. /\ r \in Seq(Conns \X Nat) /\ Len(r) = Len(e) + m
      /\ \A i \in 1 .. Len(e) : r[i] = e[i]
      /\ \A i \in Len(e) + 1 .. Len(e) + m : i - Len(e) \in 1 .. m /\ r[i] = b[i - Len(e)]
  <2>1. /\ r \in Seq(Conns \X Nat) /\ Len(r) = Len(e) + m
        /\ \A i \in 1 .. Len(e) : r[i] = e[i]
        /\ \A i \in Len(e) + 1 .. Len(e) + m : i - Len(e) \in 1 .. m /\ r[i] = s[i - Len(e)]
    BY ConcatParts, SMTT(30)
  <2>. QED
    BY <2>1
<1>3. Len(e) \in Nat /\ m \in Nat /\ m <= Len(b) /\ Len(b) \in Nat /\ DOMAIN r = 1 .. Len(e) + m
  BY <1>2
<1>4. ASSUME NEW i \in 1 .. Len(e) + m
      PROVE  r[i][1] = c /\ r[i][2] \in i .. t /\ (i > 1 => r[i][2] > r[i - 1][2])
  <2>1. CASE i <= Len(e)
    <3>1. r[i] = e[i] /\ i \in DOMAIN e /\ (i > 1 => r[i - 1] = e[i - 1])
      BY <1>2, <1>3, <2>1
    <3>. QED
      BY <3>1 DEF InOrder
  <2>2. CASE i > Len(e)
    <3>. PICK k : k = i - Len(e)
      OBVIOUS
    <3>1. /\ r[i] = b[k] /\ k \in 1 .. m /\ k \in DOMAIN b /\ Len(e) + k = i
          /\ k > 1 => k - 1 \in 1 .. m /\ r[i - 1] = b[k - 1]
          /\ k = 1 /\ i > 1 => i - 1 \in DOMAIN e /\ r[i - 1] = e[i - 1]
      <4>1. i \in Len(e) + 1 .. Len(e) + m
        BY <1>3, <2>2
      <4>2. k > 1 => i - 1 \in Len(e) + 1 .. Len(e) + m /\ (i - 1) - Len(e) = k - 1
        <5>. PICK l : l = Len(e)
          OBVIOUS
        <5>. QED
          BY <1>3, <4>1, SMTT(30)
      <4>3. k \in 1 .. m /\ Len(e) + k = i /\ r[i] = b[k] /\ k \in DOMAIN b
        <5>1. k \in 1 .. m /\ r[i] = b[k]
          BY <1>2, <4>1
        <5>2. Len(e) + k = i
          BY <1>3, <4>1
        <5>. QED
          BY <1>3, <5>1, <5>2
      <4>4. k > 1 => k - 1 \in 1 .. m /\ r[i - 1] = b[k - 1]
        BY <1>2, <4>2
      <4>5. k = 1 => i - 1 = Len(e)
        BY <1>3, <4>1
      <4>6. k = 1 /\ i > 1 => i - 1 \in DOMAIN e /\ r[i - 1] = e[i - 1]
        BY <1>2, <1>3, <4>5, SMTT(30)
      <4>. QED
        BY <4>3, <4>4, <4>6
    <3>2. b[k][1] = c /\ b[k][2] \in i .. t
      BY <3>1 DEF Continues
    <3>3. k > 1 => b[k][2] > b[k - 1][2]
      BY <3>1 DEF Continues
    <3>4. ASSUME i > 1, k = 1 PROVE b[k][2] > e[i - 1][2]
      <4>1. e[i - 1][2] < b[k][2] /\ e[i - 1][2] \in Int /\ b[k][2] \in Int
        BY <3>1, <3>4 DEF Continues
      <4>. QED
        BY <4>1
    <3>5. k > 1 \/ k = 1
      BY <3>1
    <3>. QED
      BY <3>1, <3>2, <3>3, <3>4, <3>5
  <2>3. i <= Len(e) \/ i > Len(e)
    BY <1>3
  <2>. QED
    BY <2>1, <2>2, <2>3
<1>. QED
  BY <1>3, <1>4 DEF InOrder

\* What a send takes of the buffer: as much as there is room for.
Fits(w, c) ==
  IF Len(buf[w]) < TxMax - InTransit(c) THEN Len(buf[w]) ELSE TxMax - InTransit(c)

LEMMA RoomFor ==
  ASSUME DInv, NEW w \in Pool, NEW c \in Conns
  PROVE  Fits(w, c) \in 0 .. Len(buf[w]) /\ Len(echoed[c]) + Fits(w, c) <= got[c] + TxMax
<1>1. /\ Len(buf[w]) \in Nat /\ Len(echoed[c]) \in Nat
      /\ got[c] \in Nat /\ got[c] <= Len(echoed[c]) /\ Len(echoed[c]) <= got[c] + TxMax
  BY ThreadFacts DEF DInv, StreamTypes, BoundsInv
<1>2. TxMax \in Nat
  BY KernelAssumption
<1>. PICK b, e, g : b = Len(buf[w]) /\ e = Len(echoed[c]) /\ g = got[c]
  OBVIOUS
<1>3. Fits(w, c) = IF b < TxMax - (e - g) THEN b ELSE TxMax - (e - g)
  BY DEF InTransit, Fits
<1>. QED
  BY <1>1, <1>2, <1>3, SMTT(30)

LEMMA BufferEmptied ==
  ASSUME NEW b \in [Threads -> Seq(Conns \X Nat)], NEW t \in Threads
  PROVE  [b EXCEPT ![t] = <<>>] \in [Threads -> Seq(Conns \X Nat)]
  OBVIOUS

\* What a client has got back after a send.
EchoedTo(w, c) == echoed[c] \o SubSeq(buf[w], 1, Fits(w, c))

LEMMA EchoGrown ==
  ASSUME PInv, DInv, alive, NEW w \in Pool, pc[w] = "send", NEW c, c = fdtab[cur[w]]
  PROVE  /\ c \in Conns /\ Fits(w, c) \in Nat /\ EchoedTo(w, c) \in Seq(Conns \X Nat)
         /\ Len(EchoedTo(w, c)) = Len(echoed[c]) + Fits(w, c)
         /\ Len(EchoedTo(w, c)) <= got[c] + TxMax /\ Len(EchoedTo(w, c)) <= taken[c]
         /\ InOrder(c, EchoedTo(w, c), taken[c])
<1>. PICK m : m = Fits(w, c)
  OBVIOUS
<1>. PICK r : r = echoed[c] \o SubSeq(buf[w], 1, m)
  OBVIOUS
<1>1. c \in Conns /\ Follows(w, c) /\ w \in Threads
  BY JobClient, ThreadFacts DEF DInv, BufInv
<1>2. m \in 0 .. Len(buf[w]) /\ Len(echoed[c]) + m <= got[c] + TxMax
  BY <1>1, RoomFor
<1>3. /\ echoed[c] \in Seq(Conns \X Nat) /\ buf[w] \in Seq(Conns \X Nat)
      /\ taken[c] \in Nat /\ Len(echoed[c]) \in Nat /\ m \in Nat
  <2>1. echoed[c] \in Seq(Conns \X Nat) /\ buf[w] \in Seq(Conns \X Nat) /\ taken[c] \in Nat
    BY <1>1 DEF DInv, StreamTypes
  <2>2. Len(buf[w]) \in Nat /\ Len(echoed[c]) \in Nat
    BY <2>1
  <2>. QED
    BY <1>2, <2>1, <2>2
<1>4. r \in Seq(Conns \X Nat) /\ Len(r) = Len(echoed[c]) + m /\ InOrder(c, r, taken[c])
  <2>. PICK s : s = SubSeq(buf[w], 1, m)
    OBVIOUS
  <2>1. InOrder(c, echoed[c], taken[c]) /\ Continues(c, echoed[c], buf[w], taken[c])
    BY <1>1 DEF DInv, EchoInv, Follows
  <2>2. s \in Seq(Conns \X Nat) /\ Len(s) = m /\ \A i \in 1 .. m : s[i] = buf[w][i]
    BY <1>2, <1>3, PrefixParts
  <2>3. Len(s) <= Len(buf[w])
    BY <1>2, <2>2
  <2>4. InOrder(c, echoed[c] \o s, taken[c])
    <3>. PICK e, b, t : e = echoed[c] /\ b = buf[w] /\ t = taken[c]
      OBVIOUS
    <3>1. /\ e \in Seq(Conns \X Nat) /\ b \in Seq(Conns \X Nat) /\ s \in Seq(Conns \X Nat)
          /\ Len(s) <= Len(b) /\ \A i \in 1 .. Len(s) : s[i] = b[i]
          /\ InOrder(c, e, t) /\ Continues(c, e, b, t)
      BY <1>3, <2>1, <2>2, <2>3
    <3>2. InOrder(c, e \o s, t)
      BY ONLY <3>1, EchoGrows
    <3>. QED
      BY <3>2
  <2>5. r = echoed[c] \o s
    OBVIOUS
  <2>6. r \in Seq(Conns \X Nat) /\ Len(r) = Len(echoed[c]) + m
    <3>. PICK e : e = echoed[c]
      OBVIOUS
    <3>1. e \in Seq(Conns \X Nat) /\ s \in Seq(Conns \X Nat)
      BY <1>3, <2>2
    <3>2. e \o s \in Seq(Conns \X Nat) /\ Len(e \o s) = Len(e) + Len(s)
      BY ONLY <3>1, ConcatParts
    <3>. QED
      BY <2>2, <2>5, <3>2
  <2>. QED
    BY <2>4, <2>5, <2>6
<1>5. Len(r) <= taken[c]
  BY <1>3, <1>4, InOrderBound
<1>6. r = EchoedTo(w, c)
  BY DEF EchoedTo
<1>. QED
  BY <1>1, <1>2, <1>3, <1>4, <1>5, <1>6

\* A client that is there gets what there is room for.
LEMMA EchoData ==
  ASSUME PInv, DInv, alive, NEW w \in Pool, pc[w] = "send", NEW c \in Conns, c = fdtab[cur[w]],
         NEW r \in Seq(Conns \X Nat), Len(echoed[c]) <= Len(r), Len(r) <= got[c] + TxMax,
         InOrder(c, r, taken[c]), echoed' = [echoed EXCEPT ![c] = r],
         buf' = [buf EXCEPT ![w] = <<>>], Goto(w, "recv"),
         UNCHANGED <<sock, fdtab, alive, backlog, accepted, peer, sent, taken, got, cur>>
  PROVE  DInv'
<1>1. w \in Threads /\ got[c] \in Nat /\ got[c] <= Len(echoed[c]) /\ Len(echoed[c]) \in Nat
  BY ThreadFacts DEF DInv, StreamTypes, BoundsInv
<1>5. /\ echoed'[c] = r /\ \A d \in Conns \ {c} : echoed'[d] = echoed[d]
      /\ echoed' \in [Conns -> Seq(Conns \X Nat)]
  BY DEF DInv, StreamTypes
<1>6. StreamTypes'
  <2>1. buf' \in [Threads -> Seq(Conns \X Nat)]
    BY BufferEmptied, <1>1 DEF DInv, StreamTypes
  <2>. QED
    BY <1>5, <2>1 DEF DInv, StreamTypes
<1>7. BoundsInv'
  <2>1. Len(echoed'[c]) <= got[c] + TxMax /\ got[c] <= Len(echoed'[c])
    BY <1>1, <1>5
  <2>. QED
    BY <1>5, <2>1 DEF DInv, BoundsInv
<1>8. EchoInv'
  BY <1>5 DEF DInv, EchoInv
<1>9. BufInv'
  <2>. SUFFICES ASSUME NEW v \in Pool, pc'[v] = "send"
                PROVE  Follows(v, fdtab[cur[v]])'
    BY DEF BufInv
  <2>. PICK d : d = fdtab[cur[v]]
    OBVIOUS
  <2>1. v # w /\ pc[v] = "send" /\ v \in Threads
    BY ThreadFacts DEF Goto, PInv, TypesInv
  <2>2. d \in Conns /\ Follows(v, d) /\ buf'[v] = buf[v]
    BY <2>1, JobClient DEF DInv, BufInv, StreamTypes
  <2>3. d # c
    <3>1. cur[v] # cur[w] /\ cur[v] \in Fds /\ cur[w] \in Fds
      BY <2>1, JobClient
    <3>. QED
      BY <1>1, <3>1 DEF DInv, ConnsInv
  <2>4. taken'[d] \in Nat /\ taken[d] <= taken'[d] /\ echoed'[d] = echoed[d]
    BY <1>5, <2>2, <2>3 DEF DInv, StreamTypes
  <2>5. Follows(v, d)'
    BY <2>2, <2>4, FollowsKept
  <2>. QED
    BY <2>5 DEF Follows
<1>. QED
  BY <1>6, <1>7, <1>8, <1>9 DEF DInv, ConnsInv

\* A send that reaches nobody: the connection is reset, or the client gone.
LEMMA LostData ==
  ASSUME PInv, DInv, alive, NEW w \in Pool, pc[w] = "send",
         peer' \in [Conns -> {"open", "closed", "reset"}],
         buf' = [buf EXCEPT ![w] = <<>>], Goto(w, "recv"),
         UNCHANGED <<sock, fdtab, alive, backlog, accepted, sent, taken, echoed, got, cur>>
  PROVE  DInv'
<1>1. StreamTypes'
  <2>1. buf' \in [Threads -> Seq(Conns \X Nat)]
    BY BufferEmptied, ThreadFacts DEF DInv, StreamTypes
  <2>. QED
    BY <2>1 DEF DInv, StreamTypes
<1>2. BoundsInv' /\ ConnsInv' /\ EchoInv'
  BY DEF DInv, BoundsInv, ConnsInv, EchoInv
<1>3. BufInv'
  <2>. SUFFICES ASSUME NEW v \in Pool, pc'[v] = "send"
                PROVE  Follows(v, fdtab[cur[v]])'
    BY DEF BufInv
  <2>1. v # w /\ pc[v] = "send" /\ v \in Threads
    BY ThreadFacts DEF Goto, PInv, TypesInv
  <2>2. Follows(v, fdtab[cur[v]]) /\ buf'[v] = buf[v]
    BY <2>1 DEF DInv, BufInv, StreamTypes
  <2>. QED
    BY <2>2 DEF Follows
<1>. QED
  BY <1>1, <1>2, <1>3 DEF DInv

\* What Send does to the data: nothing is sent back, or it is an EchoData step.
LEMMA SendCases ==
  ASSUME PInv, DInv, alive, NEW w \in Pool, Send(w)
  PROVE  \/ DInv' /\ UNCHANGED <<sent, echoed>>
         \/ \E c \in Conns : /\ c = fdtab[cur[w]]
                             /\ echoed' = [echoed EXCEPT ![c] = EchoedTo(w, c)]
                             /\ buf' = [buf EXCEPT ![w] = <<>>] /\ Goto(w, "recv")
                             /\ UNCHANGED <<sock, fdtab, alive, backlog, accepted, peer, sent,
                                            taken, got, cur>>
<1>. PICK c : c = fdtab[cur[w]]
  OBVIOUS
<1>1. c \in Conns /\ FileOf(Entry(cur[w])) = c /\ pc[w] = "send"
  BY JobClient DEF Send
<1>2. UNCHANGED <<backlog, accepted, sent, taken, got, cur>>
  BY DEF Send, evars
<1>3. CASE Exit /\ UNCHANGED <<buf, peer, echoed>>
  BY <1>2, <1>3, ExitData DEF streams
<1>4. CASE /\ buf' = [buf EXCEPT ![w] = <<>>] /\ Goto(w, "recv")
           /\ UNCHANGED <<sock, fdtab, alive>>
           /\ IF SendBroken(Entry(cur[w]))
              THEN UNCHANGED <<peer, echoed>>
              ELSE Transmits(w, Entry(cur[w]), Fits(w, c))
  <2>1. CASE UNCHANGED echoed
    <3>1. peer' \in [Conns -> {"open", "closed", "reset"}]
      BY <1>1, <1>4, <2>1 DEF Transmits, DInv, StreamTypes
    <3>. QED
      BY <1>1, <1>2, <1>4, <2>1, <3>1, LostData
  <2>2. CASE echoed' # echoed
    <3>1. /\ UNCHANGED peer
          /\ echoed' = [echoed EXCEPT ![c] = EchoedTo(w, c)]
      BY <1>1, <1>4, <2>2 DEF Transmits, EchoedTo
    <3>. QED
      BY <1>1, <1>2, <1>4, <3>1
  <2>. QED
    BY <2>1, <2>2
<1>. QED
  BY <1>1, <1>3, <1>4 DEF Send, SendNonBlocking, Killed, Room, Fits

LEMMA SendData == ASSUME PInv, DInv, alive, NEW w \in Pool, Send(w) PROVE DInv'
<1>1. ASSUME NEW c \in Conns, c = fdtab[cur[w]],
             echoed' = [echoed EXCEPT ![c] = EchoedTo(w, c)],
             buf' = [buf EXCEPT ![w] = <<>>], Goto(w, "recv"),
             UNCHANGED <<sock, fdtab, alive, backlog, accepted, peer, sent, taken, got, cur>>
      PROVE  DInv'
  <2>1. pc[w] = "send" /\ c = fdtab[cur[w]]
    BY <1>1 DEF Send
  <2>2. /\ Fits(w, c) \in Nat /\ EchoedTo(w, c) \in Seq(Conns \X Nat)
        /\ Len(EchoedTo(w, c)) = Len(echoed[c]) + Fits(w, c)
        /\ Len(EchoedTo(w, c)) <= got[c] + TxMax /\ InOrder(c, EchoedTo(w, c), taken[c])
    BY <2>1, EchoGrown
  <2>3. Len(echoed[c]) <= Len(EchoedTo(w, c))
    BY <2>2, EchoedFromTaken
  <2>. QED
    BY <1>1, <2>1, <2>2, <2>3, EchoData
<1>. QED
  BY <1>1, SendCases

LEMMA WorkerData == ASSUME PInv, DInv, alive, NEW w \in Pool, Worker(w) PROVE DInv'
<1>1. CASE TakeJob(w) \/ Find(w)
  <2>1. pc'[w] # "send"
    BY <1>1, ThreadFacts DEF TakeJob, Find, Goto, PInv, TypesInv
  <2>. QED
    BY <1>1, <2>1, QuietData DEF TakeJob, Find
<1>2. CASE Recv(w)
  <2>1. CASE Received(w, Entry(cur[w])) /\ Goto(w, "send") /\ UNCHANGED cur
    BY <1>2, <2>1, RecvData
  <2>2. CASE (Goto(w, "close") \/ Goto(w, "check")) /\ UNCHANGED <<buf, taken>>
    <3>1. pc'[w] # "send"
      BY <2>2, ThreadFacts DEF Goto, PInv, TypesInv
    <3>. QED
      BY <1>2, <2>2, <3>1, QuietData DEF Recv, streams
  <2>. QED
    BY <1>2, <2>1, <2>2 DEF Recv
<1>3. CASE Send(w)
  BY <1>3, SendData
<1>4. CASE Close(w)
  <2>1. pc'[w] # "send"
    BY <1>4, ThreadFacts DEF Close, Goto, PInv, TypesInv
  <2>2. cur[w] \in Fds /\ sock[Entry(cur[w])] = cur[w]
    BY <1>4, JobClient DEF Close
  <2>3. fdtab' = [fdtab EXCEPT ![cur[w]] = NoFile]
    BY <1>4, <2>2, ThreadFacts DEF Close, Become, Destroyed, Closing, Tables
  <2>4. \A f \in Fds : fdtab'[f] \in Conns => fdtab'[f] = fdtab[f]
    BY <2>2, <2>3, ConnIsFile DEF PInv, Owned
  <2>. QED
    BY <1>4, <2>1, <2>4, QuietData DEF Close
<1>. QED
  BY <1>1, <1>2, <1>3, <1>4 DEF Worker

LEMMA ClientData ==
  ASSUME PInv, DInv, UNCHANGED cur, NEW c \in Conns, AnyClient(c) PROVE DInv'
BY ConnectData, ClientSendsData, ClientReadsData, ClientEndsData DEF AnyClient

LEMMA DataStep == ASSUME PInv, DInv, [Next]_vars PROVE DInv'
<1>1. CASE UNCHANGED <<kvars, cur>>
  BY <1>1 DEF kvars, process, streams, DInv, StreamTypes, BoundsInv, ConnsInv, EchoInv, BufInv,
              Follows
<1>2. ASSUME NEW c \in Conns, AnyClient(c), UNCHANGED <<evars, pool>> PROVE DInv'
  BY <1>2, ClientData DEF evars
<1>3. CASE alive /\ Reactor
  <2>1. CASE Join
    BY <2>1, ExitData DEF Join
  <2>. QED
    BY <1>3, <2>1, ReactorData
<1>. QED
  BY <1>1, <1>2, <1>3, WorkerData DEF Next, WakeSpuriously, vars, evars

LEMMA DataInvariant == Spec => [](PInv /\ DInv)
<1>1. Init => DInv
  <2>. SUFFICES ASSUME Init PROVE DInv
    OBVIOUS
  <2>1. /\ alive = TRUE /\ buf = [t \in Threads |-> <<>>] /\ accepted = {}
        /\ backlog = [l \in Listeners |-> {}] /\ peer = [c \in Conns |-> "open"]
        /\ sent = [c \in Conns |-> 0] /\ taken = sent /\ got = sent
        /\ echoed = [c \in Conns |-> <<>>] /\ \A f \in Fds : fdtab[f] = NoFile
        /\ \A w \in Pool : pc[w] = "check"
    BY ThreadFacts DEF Init, EpollInit, KernelInit, SocketInit
  <2>2. StreamTypes
    <3>1. buf \in [Threads -> Seq(Conns \X Nat)] /\ echoed \in [Conns -> Seq(Conns \X Nat)]
      BY <2>1
    <3>. QED
      BY <2>1, <3>1 DEF StreamTypes
  <2>3. BoundsInv
    BY <2>1, KernelAssumption DEF BoundsInv
  <2>4. ConnsInv /\ EchoInv /\ BufInv
    BY <2>1, ConnIsFile, PoolAssumption DEF ConnsInv, EchoInv, InOrder, BufInv
  <2>. QED
    BY <2>2, <2>3, <2>4 DEF DInv
<1>. QED
  BY <1>1, DataStep, PoolInvariant, PTL DEF Spec

\* Every variable of the pool keeps its type, and no more is in transit to a
\* client than the kernel buffers: a send takes what there is room for
\* (MultiR_server.cpp:86-92).
THEOREM PoolTypeCorrect == Spec => []TypeOK
<1>1. PInv /\ DInv /\ WakeInv => TypeOK
  <2>. SUFFICES ASSUME PInv, DInv, WakeInv PROVE TypeOK
    OBVIOUS
  <2>1. SocketTypeOK
    BY OwnedIsInv DEF PInv
  <2>2. \A c \in Conns : got[c] \in 0 .. Len(echoed[c]) /\ taken[c] \in 0 .. sent[c]
                         /\ sent[c] \in 0 .. SendMax[c] /\ Len(echoed[c]) <= got[c] + TxMax
    <3>. SUFFICES ASSUME NEW c \in Conns
                  PROVE  /\ got[c] \in 0 .. Len(echoed[c]) /\ taken[c] \in 0 .. sent[c]
                         /\ sent[c] \in 0 .. SendMax[c] /\ Len(echoed[c]) <= got[c] + TxMax
      OBVIOUS
    <3>1. /\ got[c] \in Nat /\ taken[c] \in Nat /\ sent[c] \in Nat /\ Len(echoed[c]) \in Nat
          /\ SendMax[c] \in Nat
      BY KernelAssumption DEF DInv, StreamTypes
    <3>. QED
      BY <3>1 DEF DInv, BoundsInv
  <2>3. EpollTypeOK
    BY <2>1, <2>2 DEF EpollTypeOK, KernelTypeOK, PInv, TypesInv, DInv, StreamTypes
  <2>. QED
    BY <2>3 DEF TypeOK, PInv, TypesInv, WakeInv, Labels
<1>. QED
  BY <1>1, DataInvariant, WakeInvariant, PTL

\* A sending client is one of the service ...
LEMMA ClientSendsMaps ==
  ASSUME DInv, NEW c \in Conns, NEW n \in 1 .. SendMax[c], ClientSends(c, n)
  PROVE  Service!ENext
<1>1. sent \in [Conns -> Nat] /\ SendMax[c] \in Nat /\ sent' = [sent EXCEPT ![c] = @ + n]
  BY KernelAssumption DEF DInv, StreamTypes, ClientSends
<1>2. Service!Send(c)
  BY <1>1 DEF Service!Send, ClientSends
<1>. QED
  BY <1>2 DEF Service!ENext

\* An element of k + j .. t.
LEMMA Within ==
  ASSUME NEW k, NEW j, NEW x, NEW t, NEW n, k \in Nat, j \in Nat, j >= 1, t \in Nat, n \in Nat,
         t <= n, x \in k + j .. t
  PROVE  x \in 1 .. n
  OBVIOUS

\* What a send appends are units the client has sent.
LEMMA PrefixOfClient ==
  ASSUME DInv, NEW w \in Pool, NEW c \in Conns, Follows(w, c),
         NEW s \in Seq(Conns \X Nat), Len(s) <= Len(buf[w]), \A i \in DOMAIN s : s[i] = buf[w][i]
  PROVE  s \in [DOMAIN s -> {c} \X (1 .. sent[c])]
<1>. PICK b, e, t, n : b = buf[w] /\ e = echoed[c] /\ t = taken[c] /\ n = sent[c]
  OBVIOUS
<1>1. /\ b \in Seq(Conns \X Nat) /\ e \in Seq(Conns \X Nat) /\ t \in Nat /\ n \in Nat /\ t <= n
      /\ Continues(c, e, b, t)
  BY ThreadFacts DEF DInv, StreamTypes, BoundsInv, Follows
<1>2. ASSUME NEW i \in DOMAIN s PROVE s[i] \in {c} \X (1 .. n)
  <2>1. i \in DOMAIN b /\ b[i] \in Conns \X Nat /\ s[i] = b[i] /\ i \in Nat /\ i >= 1
    <3>1. i \in 1 .. Len(s) /\ Len(s) \in Nat /\ Len(b) \in Nat /\ Len(s) <= Len(b)
      BY <1>1, SMTT(30)
    <3>2. i \in 1 .. Len(b)
      BY <3>1
    <3>. QED
      BY <1>1, <3>1, <3>2, SMTT(30)
  <2>2. b[i][1] = c /\ b[i][2] \in Len(e) + i .. t
    BY <1>1, <2>1 DEF Continues
  <2>4. b[i][2] \in 1 .. n
    <3>. PICK k, j, x : k = Len(e) /\ j = i /\ x = b[i][2]
      OBVIOUS
    <3>1. k \in Nat /\ j \in Nat /\ j >= 1 /\ x \in k + j .. t
      BY <1>1, <2>1, <2>2
    <3>2. t \in Nat /\ n \in Nat /\ t <= n
      BY <1>1
    <3>3. x \in 1 .. n
      BY <3>1, <3>2, Within
    <3>. QED
      BY <3>3
  <2>5. b[i] = <<b[i][1], b[i][2]>>
    BY <2>1
  <2>. QED
    BY <2>1, <2>2, <2>4, <2>5
<1>. QED
  BY <1>2

LEMMA TakenOfClient ==
  ASSUME DInv, NEW w \in Pool, NEW c \in Conns, Follows(w, c), NEW m \in 0 .. Len(buf[w]),
         NEW s, s = SubSeq(buf[w], 1, m)
  PROVE  s \in [1 .. m -> {c} \X (1 .. sent[c])]
<1>1. s \in Seq(Conns \X Nat) /\ Len(s) = m /\ \A i \in 1 .. m : s[i] = buf[w][i]
  <2>1. buf[w] \in Seq(Conns \X Nat)
    BY ThreadFacts DEF DInv, StreamTypes
  <2>. QED
    BY <2>1, PrefixParts
<1>2. /\ s \in Seq(Conns \X Nat) /\ DOMAIN s = 1 .. m /\ Len(s) <= Len(buf[w])
      /\ \A i \in DOMAIN s : s[i] = buf[w][i]
  BY <1>1
<1>3. s \in [DOMAIN s -> {c} \X (1 .. sent[c])]
  BY <1>2, PrefixOfClient
<1>. QED
  BY <1>2, <1>3

\* ... and so is a send that reaches its client, unless it takes nothing.
LEMMA SendMaps ==
  ASSUME PInv, DInv, alive, NEW w \in Pool, pc[w] = "send", NEW c \in Conns, c = fdtab[cur[w]],
         echoed' = [echoed EXCEPT ![c] = EchoedTo(w, c)], UNCHANGED sent
  PROVE  Service!ENext \/ UNCHANGED <<sent, echoed>>
<1>. PICK m, s : m = Fits(w, c) /\ s = SubSeq(buf[w], 1, m)
  OBVIOUS
<1>1. /\ m \in Nat /\ EchoedTo(w, c) \in Seq(Conns \X Nat)
      /\ Len(EchoedTo(w, c)) = Len(echoed[c]) + m /\ Len(EchoedTo(w, c)) <= taken[c]
      /\ InOrder(c, EchoedTo(w, c), taken[c])
  BY EchoGrown
<1>2. /\ w \in Threads /\ buf[w] \in Seq(Conns \X Nat) /\ echoed[c] \in Seq(Conns \X Nat)
      /\ taken[c] \in Nat /\ sent[c] \in Nat /\ taken[c] <= sent[c] /\ m \in 0 .. Len(buf[w])
  BY ThreadFacts, RoomFor DEF DInv, StreamTypes, BoundsInv
<1>3. echoed'[c] = EchoedTo(w, c) /\ EchoedTo(w, c) = echoed[c] \o s
  BY DEF DInv, StreamTypes, EchoedTo
<1>4. CASE m = 0
  <2>1. s = <<>>
    BY <1>2, <1>4, PrefixParts
  <2>2. echoed[c] \o s = echoed[c]
    BY <1>2, <2>1
  <2>3. [echoed EXCEPT ![c] = echoed[c]] = echoed
    BY DEF DInv, StreamTypes
  <2>. QED
    BY <1>3, <2>2, <2>3
<1>5. CASE m > 0
  <2>1. Follows(w, c)
    BY DEF DInv, BufInv
  <2>2. s \in [1 .. m -> {c} \X (1 .. sent[c])]
    BY <1>2, <2>1, TakenOfClient
  <2>3. m \in 1 .. sent[c] - Len(echoed[c])
    <3>. PICK k, l : k = Len(echoed[c]) /\ l = Len(EchoedTo(w, c))
      OBVIOUS
    <3>1. k \in Nat
      BY <1>2
    <3>2. l = k + m /\ l <= taken[c]
      BY <1>1
    <3>3. k + m <= sent[c]
      <4>. PICK t, n : t = taken[c] /\ n = sent[c]
        OBVIOUS
      <4>. QED
        BY <1>1, <1>2, <3>1, <3>2
    <3>. QED
      BY <1>1, <1>2, <1>5, <3>1, <3>3, SMTT(30)
  <2>4. echoed' = [echoed EXCEPT ![c] = echoed[c] \o s]
    BY <1>3
  <2>5. Service!Faithful(c, echoed'[c])
    <3>. PICK r, t, n : r = EchoedTo(w, c) /\ t = taken[c] /\ n = sent[c]
      OBVIOUS
    <3>1. InOrder(c, r, t) /\ r \in Seq(Conns \X Nat) /\ t \in Nat /\ n \in Nat /\ t <= n
      BY <1>1, <1>2
    <3>2. \A i \in DOMAIN r : i \in Nat /\ i >= 1 /\ r[i][2] \in i .. t
      BY <3>1 DEF InOrder
    <3>3. \A i \in DOMAIN r : r[i][2] \in 1 .. n
      BY <3>1, <3>2
    <3>. QED
      BY <1>3, <3>1, <3>3 DEF InOrder, Service!Faithful
  <2>6. Service!Echo(c)
    BY <2>2, <2>3, <2>4, <2>5 DEF Service!Echo
  <2>. QED
    BY <2>6 DEF Service!ENext
<1>. QED
  BY <1>1, <1>4, <1>5

\* Every step is one of the service or leaves what the clients see alone.
LEMMA StepMaps ==
  ASSUME PInv, DInv, [Next]_vars
  PROVE  Service!ENext \/ UNCHANGED <<sent, echoed>>
<1>1. ASSUME NEW c \in Conns, AnyClient(c)
      PROVE  Service!ENext \/ UNCHANGED <<sent, echoed>>
  BY <1>1, ClientSendsMaps
  DEF AnyClient, ClientConnects, ClientReads, ClientCloses, ClientResets, streams
<1>2. CASE Reactor
  BY <1>2 DEF Reactor, SetUp, RegisterListener, EpollWait, EndOfBatch, Accept, Emplace, PushJob,
              Notify, StopPool, NotifyAll, Join, streams
<1>3. ASSUME alive, NEW w \in Pool, Send(w)
      PROVE  Service!ENext \/ UNCHANGED <<sent, echoed>>
  <2>1. pc[w] = "send"
    BY <1>3 DEF Send
  <2>. QED
    BY <1>3, <2>1, SendCases, SendMaps
<1>4. ASSUME NEW w \in Pool, TakeJob(w) \/ Find(w) \/ Recv(w) \/ Close(w) \/ WakeSpuriously(w)
      PROVE  UNCHANGED <<sent, echoed>>
  BY <1>4 DEF TakeJob, Find, Recv, Close, WakeSpuriously, kvars, streams
<1>5. CASE UNCHANGED vars
  BY <1>5 DEF vars, kvars, streams
<1>. QED
  BY <1>1, <1>2, <1>3, <1>4, <1>5 DEF Next, Worker

\* To its clients the thread pool is an echo service that may lose the end of
\* what it sends, however many threads share the work: nothing comes back out
\* of order, twice, or from another client (MultiR_server.cpp:86-92).
THEOREM PoolEchoes == Spec => EchoFaithful
<1>1. Init => Service!EInit
  BY DEF Init, EpollInit, KernelInit, Service!EInit
<1>2. PInv /\ DInv /\ [Next]_vars => [Service!ENext]_<<sent, echoed, FALSE>>
  BY StepMaps
<1>. QED
  BY <1>1, <1>2, DataInvariant, PTL DEF Spec, EchoFaithful, Service!ESpec
=============================================================================
