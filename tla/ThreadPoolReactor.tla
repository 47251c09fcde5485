------------------------- MODULE ThreadPoolReactor -------------------------
(***************************************************************************)
(* 08_MultiReactor/MultiR_server.cpp: one reactor thread accepts and turns *)
(* events into jobs, a pool of threads runs them.  jobq and clients_map    *)
(* are shared under mtx; a critical section is one step, since inside one  *)
(* no thread waits for anything.  The reference a job holds to its socket  *)
(* is used after the unlock: OneJob is about that.                         *)
(***************************************************************************)
EXTENDS Epoll

CONSTANTS
  Main,        \* the thread of main, which runs socket()
  Pool,        \* the threads of the pool
  Listener     \* listen_sock, as a file

\* Where the number of cores is not known the pool has 4 threads (127-129).
ASSUME PoolAssumption ==
  /\ Threads = {Main} \cup Pool /\ Reactors = {Main} /\ Main \notin Pool
  /\ Pool # {} /\ IsFiniteSet(Pool) /\ Listeners = {Listener}

VARIABLES
  jobq,        \* jobs, each named by the client_fd it captured
  stop_server,
  asleep       \* threads waiting in cv

pool == <<jobq, stop_server, asleep>>
vars == <<kvars, evars, pool>>

ListenSock == <<"socket", "listen_sock">>
ClientSock == <<"socket", "client_sock">>
Entry(f)   == <<"clients_map", f>>
Places     == {ListenSock, ClientSock} \cup {Entry(f) : f \in Fds}

ASSUME PlacesAssumption == Objects = Places

TypeOK ==
  /\ EpollTypeOK
  /\ pc \in [Threads -> {"setup", "epoll", "wait", "dispatch", "emplace", "notify", "stop",
                         "notify_all", "join", "check", "find", "recv", "send", "close", "exited"}]
  /\ jobq \in Seq(Fds) /\ stop_server \in BOOLEAN /\ asleep \subseteq Pool

-----------------------------------------------------------------------------
(* socket(), the reactor. *)

\* socket() returns: its locals are destroyed, epfd stays open.
ReturnFromSocket(t) ==
  /\ Become(DestroyedAll(t, {ListenSock, ClientSock}))
  /\ armed' = [armed EXCEPT ![Main] = @ \ {sock[ListenSock]}]
  /\ batch' = [batch EXCEPT ![Main] = {}]
  /\ Goto(Main, "stop")

\* Bind, Listen and SetNonBlocking.
SetUp ==
  /\ pc[Main] = "setup"
  /\ \/ Listens(ListenSock, Listener) /\ Goto(Main, "epoll")
     \/ "bind" \in Faults /\ Goto(Main, "stop") /\ UNCHANGED <<sock, fdtab>>
  /\ UNCHANGED <<alive, buf, backlog, accepted, streams, evars, pool>>

\* epoll_create1 and the registration of listen_sock.
RegisterListener ==
  /\ pc[Main] = "epoll"
  /\ \/ Arm(Main, sock[ListenSock]) /\ Goto(Main, "wait") /\ UNCHANGED <<sock, fdtab, batch>>
     \/ "epoll" \in Faults /\ ReturnFromSocket(Tables)
  /\ UNCHANGED <<alive, buf, backlog, accepted, streams, cur, pool>>

\* epoll_wait without a timeout.  It fails only with EINTR, after which the
\* loop goes on, as epfd and cev are valid all the time.
EpollWait ==
  /\ pc[Main] = "wait"
  /\ \E ev \in Reported(Main, Ready(Main)) \ {{}} :
       /\ batch' = [batch EXCEPT ![Main] = ev]
       /\ armed' = [armed EXCEPT ![Main] = @ \ OneShot(ev)]
  /\ Goto(Main, "dispatch")
  /\ UNCHANGED <<sock, fdtab, alive, buf, backlog, accepted, streams, cur, pool>>

EndOfBatch ==
  /\ pc[Main] = "dispatch" /\ batch[Main] = {}
  /\ Goto(Main, IF stop_server THEN "stop" ELSE "wait")
  /\ UNCHANGED <<sock, fdtab, alive, buf, backlog, accepted, streams, evars, pool>>

\* The listening socket's event.  Without a free descriptor the accepted
\* socket is invalid, EPOLL_CTL_ADD of it fails, and socket() returns.
Accept ==
  /\ pc[Main] = "dispatch" /\ sock[ListenSock] \in batch[Main]
  /\ \/ /\ Free = {} /\ ReturnFromSocket(Tables)
        /\ UNCHANGED <<backlog, accepted, cur>>
     \/ /\ Accepts(Listener, ClientSock)
        /\ batch' = [batch EXCEPT ![Main] = @ \ {sock[ListenSock]}]
        /\ Arm(Main, sock'[ClientSock])
        /\ cur' = [cur EXCEPT ![Main] = sock'[ClientSock]]
        /\ Goto(Main, "emplace")
     \/ /\ "add" \in Faults
        /\ \E c \in Conns : Takes(Listener, c)
        /\ Free # {} /\ ReturnFromSocket(Tables)
        /\ UNCHANGED cur
  /\ UNCHANGED <<alive, buf, streams, pool>>

\* clients_map.emplace, which moves client_sock unless the key is taken; then
\* client_sock goes out of scope.
Emplace ==
  /\ pc[Main] = "emplace"
  /\ LET f == cur[Main]
         t == IF IsValid(Entry(f)) THEN Tables ELSE Moved(Tables, Entry(f), ClientSock)
     IN  Become(Destroyed(t, ClientSock))
  /\ cur' = [cur EXCEPT ![Main] = NoFd]
  /\ Goto(Main, "dispatch")
  /\ UNCHANGED <<alive, buf, backlog, accepted, streams, batch, armed, pool>>

\* A client's event becomes a job ...
PushJob ==
  /\ pc[Main] = "dispatch"
  /\ \E f \in batch[Main] \ {sock[ListenSock]} :
       /\ batch' = [batch EXCEPT ![Main] = @ \ {f}]
       /\ jobq' = Append(jobq, f)
  /\ Goto(Main, "notify")
  /\ UNCHANGED <<sock, fdtab, alive, buf, backlog, accepted, streams, armed, cur, stop_server, asleep>>

\* Mutation: cv.notify_one is forgotten.
NotifyNobody == UNCHANGED asleep

\* ... and, after the unlock, cv.notify_one wakes one thread if any sleeps.
NotifyOne ==
  IF asleep = {} THEN UNCHANGED asleep
                 ELSE \E w \in asleep : asleep' = asleep \ {w}

Notify ==
  /\ pc[Main] = "notify"
  /\ NotifyOne
  /\ Goto(Main, "dispatch")
  /\ UNCHANGED <<sock, fdtab, alive, buf, backlog, accepted, streams, evars, jobq, stop_server>>

-----------------------------------------------------------------------------
(* main, after socket() has returned. *)

StopPool ==
  /\ pc[Main] = "stop"
  /\ stop_server' = TRUE
  /\ Goto(Main, "notify_all")
  /\ UNCHANGED <<sock, fdtab, alive, buf, backlog, accepted, streams, evars, jobq, asleep>>

\* Mutation: notify_one instead of notify_all.
NotifyOneOfAll ==
  /\ pc[Main] = "notify_all"
  /\ NotifyOne
  /\ Goto(Main, "join")
  /\ UNCHANGED <<sock, fdtab, alive, buf, backlog, accepted, streams, evars, jobq, stop_server>>

NotifyAll ==
  /\ pc[Main] = "notify_all"
  /\ asleep' = {}
  /\ Goto(Main, "join")
  /\ UNCHANGED <<sock, fdtab, alive, buf, backlog, accepted, streams, evars, jobq, stop_server>>

\* The threads are joined and main returns, which destroys clients_map.
Join ==
  /\ pc[Main] = "join" /\ \A w \in Pool : pc[w] = "exited"
  /\ Exit
  /\ UNCHANGED <<pc, buf, backlog, accepted, streams, evars, pool>>

-----------------------------------------------------------------------------
(* The threads of the pool. *)

\* cv.wait with its predicate, and the job that is taken.
TakeJob(w) ==
  /\ pc[w] = "check" /\ w \notin asleep
  /\ \/ /\ jobq # <<>>
        /\ cur' = [cur EXCEPT ![w] = Head(jobq)]
        /\ jobq' = Tail(jobq)
        /\ Goto(w, "find") /\ UNCHANGED asleep
     \/ /\ jobq = <<>> /\ stop_server
        /\ Goto(w, "exited") /\ UNCHANGED <<cur, jobq, asleep>>
     \/ /\ jobq = <<>> /\ ~stop_server
        /\ asleep' = asleep \cup {w} /\ UNCHANGED <<pc, cur, jobq>>
  /\ UNCHANGED <<sock, fdtab, alive, buf, backlog, accepted, streams, batch, armed, stop_server>>

\* A condition variable may wake without a notification.
WakeSpuriously(w) ==
  /\ w \in asleep
  /\ asleep' = asleep \ {w}
  /\ UNCHANGED <<kvars, evars, jobq, stop_server>>

\* clients_map.find under the lock; a job without its client just returns.
Find(w) ==
  /\ pc[w] = "find"
  /\ IF IsValid(Entry(cur[w]))
     THEN Goto(w, "recv") /\ UNCHANGED cur
     ELSE Goto(w, "check") /\ cur' = [cur EXCEPT ![w] = NoFd]
  /\ UNCHANGED <<sock, fdtab, alive, buf, backlog, accepted, streams, batch, armed, pool>>

\* Mutation: EPOLL_CTL_MOD is forgotten.
RearmForgotten(w) == UNCHANGED armed

\* Mutation: with client_sock.GetFd() of a socket that has been moved away.
RearmMoved(w) == Arm(Main, NoFd)

\* EPOLL_CTL_MOD.
Rearm(w) == Arm(Main, cur[w])

\* One Recv of the drain loop, and what follows EAGAIN.
Recv(w) ==
  /\ pc[w] = "recv"
  /\ LET o == Entry(cur[w])
     IN  \/ Received(w, o) /\ Goto(w, "send") /\ UNCHANGED <<armed, cur>>
         \/ AtEnd(o) /\ Goto(w, "close") /\ UNCHANGED <<buf, taken, armed, cur>>
         \/ /\ NothingYet(o) /\ Rearm(w)
            /\ cur' = [cur EXCEPT ![w] = NoFd]
            /\ Goto(w, "check") /\ UNCHANGED <<buf, taken>>
  /\ UNCHANGED <<sock, fdtab, alive, backlog, accepted, peer, sent, echoed, got, batch, pool>>

Send(w) ==
  /\ pc[w] = "send"
  /\ SendNonBlocking(w, Entry(cur[w]), "recv")
  /\ UNCHANGED <<backlog, accepted, sent, taken, got, evars, pool>>

\* EPOLL_CTL_DEL, and clients_map.erase under the lock, which closes.
Close(w) ==
  /\ pc[w] = "close"
  /\ armed' = [armed EXCEPT ![Main] = @ \ {cur[w]}]
  /\ Become(Destroyed(Tables, Entry(cur[w])))
  /\ cur' = [cur EXCEPT ![w] = NoFd]
  /\ Goto(w, "check")
  /\ UNCHANGED <<alive, buf, backlog, accepted, streams, batch, pool>>

-----------------------------------------------------------------------------

\* main has created the threads of the pool and calls socket().
Init ==
  /\ EpollInit
  /\ pc = [t \in Threads |-> IF t = Main THEN "setup" ELSE "check"]
  /\ jobq = <<>> /\ stop_server = FALSE /\ asleep = {}

Reactor ==
  \/ SetUp \/ RegisterListener \/ EpollWait \/ EndOfBatch \/ Accept \/ Emplace
  \/ PushJob \/ Notify \/ StopPool \/ NotifyAll \/ Join

Worker(w) == TakeJob(w) \/ Find(w) \/ Recv(w) \/ Send(w) \/ Close(w)

Next ==
  \/ \E c \in Conns : AnyClient(c) /\ UNCHANGED <<evars, pool>>
  \/ alive /\ Reactor
  \/ alive /\ \E w \in Pool : Worker(w) \/ WakeSpuriously(w)

Spec == Init /\ [][Next]_vars

\* Every thread is scheduled, and a lock that is free is given to who asks.
FairSpec ==
  Spec /\ WF_vars(alive /\ Reactor) /\ \A w \in Pool : WF_vars(alive /\ Worker(w))

-----------------------------------------------------------------------------

Queued(f) == {i \in DOMAIN jobq : jobq[i] = f}

Running(f) == {w \in Pool : cur[w] = f}

\* A client of the map is waited for, or has one event or one job, and is not
\* forgotten while the reactor runs.
OneEach(f) ==
  LET waiting == (IF f \in armed[Main] THEN 1 ELSE 0) + (IF f \in batch[Main] THEN 1 ELSE 0)
      jobs    == Cardinality(Queued(f)) + Cardinality(Running(f))
  IN  /\ waiting + jobs <= 1
      /\ pc[Main] \in {"wait", "dispatch", "emplace", "notify"} => waiting + jobs = 1

\* A client never has two jobs, and a job never meets a client that is gone:
\* two jobs would share its socket without a lock and answer out of order,
\* and the reference a job keeps after the unlock would dangle once the other
\* erased the entry (MultiR_server.cpp:58, 75-88, 107-117).
OneJob ==
  alive => \A f \in Fds :
    /\ IsValid(Entry(f)) => OneEach(f)
    /\ Queued(f) # {} \/ Running(f) # {} => IsValid(Entry(f))

\* The threads that are awake and will look at the queue next.
Coming == {w \in Pool : pc[w] = "check" /\ w \notin asleep}

\* A thread sleeps only while each job of the queue has another thread coming
\* for it, or the notification of the last one is still due: a job never waits
\* for a busy thread beside one that sleeps.  And once stop_server is set none
\* sleeps whom notify_all is not about to wake, also when others have ended
\* (MultiR_server.cpp:113-120, 138, 152-156).
NoLostWakeup ==
  alive /\ asleep # {} =>
    /\ Len(jobq) <= Cardinality(Coming) + (IF pc[Main] = "notify" THEN 1 ELSE 0)
    /\ stop_server => pc[Main] = "notify_all"

\* Clients get their own data back in order, whatever threads their jobs run
\* on (MultiR_server.cpp:86-92); what does not fit into a send is lost.
Service == INSTANCE EchoService WITH lossless <- FALSE
EchoFaithful == Service!ESpec

\* What a client sends is read and its closing noticed, as long as the
\* reactor has not left.  The drain loop (86-105) has no bound of its own: a
\* client that never stops sending would hold its thread for ever, and
\* SendMax excludes it.
ClientsServed ==
  \A c \in Conns :
    ServerOpen(c) /\ (Unread(c) > 0 \/ peer[c] # "open")
      ~> \/ ~ServerOpen(c)
         \/ Unread(c) = 0 /\ peer[c] = "open"
         \/ pc[Main] \in {"stop", "notify_all", "join"}

\* After the reactor has left, the pool runs the jobs that are queued, every
\* thread ends and main returns (MultiR_server.cpp:150-162).
PoolEnds == pc[Main] = "stop" ~> ~alive
=============================================================================
