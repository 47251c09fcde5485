------------------------ MODULE ShareNothingReactor ------------------------
(***************************************************************************)
(* 08_MultiReactor/SNMRserver.cpp: every thread runs socket() with its own *)
(* listening socket on the one port (SO_REUSEPORT), epoll instance and     *)
(* clients_map.  A worker that meets an error returns from socket(), which *)
(* closes all it had; its epfd stays open.                                 *)
(***************************************************************************)
EXTENDS SingleReactor

CONSTANT Workers   \* each also the name of its listening socket

Listen08(r)   == <<r, "listen_sock">>
Client08(r)   == <<r, "client_sock">>
Entry08(r, f) == <<r, "clients_map", f>>

\* The objects of worker r.
Locals(r) == {Listen08(r), Client08(r)} \cup {Entry08(r, f) : f \in Fds}

WorkerAt(r, label) == alive /\ stage = "08_MultiReactor" /\ pc[r] = label

\* socket() returns.
ReturnWorker(r) ==
  /\ Become(DestroyedAll(Tables, Locals(r)))
  /\ armed' = [armed EXCEPT ![r] = {}]
  /\ batch' = [batch EXCEPT ![r] = {}]
  /\ Goto(r, "returned")

\* Bind, Listen, SetNonBlocking.
SetUpWorker(r) ==
  /\ WorkerAt(r, "setup")
  /\ \/ Listens(Listen08(r), r) /\ Goto(r, "epoll") /\ UNCHANGED <<armed, batch>>
     \/ "bind" \in Faults /\ ReturnWorker(r)
  /\ UNCHANGED <<alive, buf, backlog, accepted, streams, cur, seen>>

\* epoll_create1 and the registration of listen_sock.
CreateWorkerEpoll(r) ==
  /\ WorkerAt(r, "epoll")
  /\ \/ Arm(r, sock[Listen08(r)]) /\ Goto(r, "dispatch") /\ UNCHANGED <<sock, fdtab, batch>>
     \/ "epoll" \in Faults /\ ReturnWorker(r)
  /\ UNCHANGED <<alive, buf, backlog, accepted, streams, cur, seen>>

\* epoll_wait, when the events of the last one are done; see ThreadPoolReactor.
Wait08(r) ==
  /\ WorkerAt(r, "dispatch") /\ batch[r] = {}
  /\ \E ev \in Reported(r, Ready(r)) \ {{}} :
       /\ batch' = [batch EXCEPT ![r] = ev]
       /\ armed' = [armed EXCEPT ![r] = @ \ OneShot(ev)]
  /\ UNCHANGED <<sock, fdtab, alive, pc, buf, backlog, accepted, streams, cur, seen>>

\* listen_sock.Accept, the registration and clients_map.emplace.
Accept08(r) ==
  /\ WorkerAt(r, "dispatch") /\ sock[Listen08(r)] \in batch[r]
  /\ \/ \E c \in Conns, f \in Fds :
          /\ Takes(r, c) /\ Lowest(f)
          /\ Become(Moved(Opened(Tables, Client08(r), f, c), Entry08(r, f), Client08(r)))
          /\ Arm(r, f)
          /\ batch' = [batch EXCEPT ![r] = @ \ {sock[Listen08(r)]}]
          /\ UNCHANGED pc
     \/ AcceptFails /\ ReturnWorker(r) /\ UNCHANGED <<backlog, accepted>>
  /\ UNCHANGED <<alive, buf, streams, cur, seen>>

\* clients_map.find, which fails for no event: EventsFresh.
Find08(r) ==
  /\ WorkerAt(r, "dispatch")
  /\ \E f \in batch[r] \ {sock[Listen08(r)]} :
       IF IsValid(Entry08(r, f))
       THEN /\ batch' = [batch EXCEPT ![r] = @ \ {f}]
            /\ cur' = [cur EXCEPT ![r] = f]
            /\ Goto(r, "recv") /\ UNCHANGED <<sock, fdtab, armed>>
       ELSE ReturnWorker(r) /\ UNCHANGED cur
  /\ UNCHANGED <<alive, buf, backlog, accepted, streams, seen>>

\* One Recv of the drain loop.  At EAGAIN follows EPOLL_CTL_MOD, at the end
\* EPOLL_CTL_DEL and erase.
Recv08(r) ==
  /\ WorkerAt(r, "recv")
  /\ LET o == Entry08(r, cur[r])
     IN  \/ /\ Received(r, o)
            /\ Goto(r, "send") /\ UNCHANGED <<sock, fdtab, armed, cur>>
         \/ /\ NothingYet(o) /\ Arm(r, cur[r])
            /\ Goto(r, "dispatch") /\ cur' = [cur EXCEPT ![r] = NoFd]
            /\ UNCHANGED <<sock, fdtab, buf, taken>>
         \/ /\ AtEnd(o) /\ Become(Destroyed(Tables, o))
            /\ armed' = [armed EXCEPT ![r] = @ \ {cur[r]}]
            /\ Goto(r, "dispatch") /\ cur' = [cur EXCEPT ![r] = NoFd]
            /\ UNCHANGED <<buf, taken>>
  /\ UNCHANGED <<alive, backlog, accepted, peer, sent, echoed, got, batch, seen>>

Send08(r) ==
  /\ WorkerAt(r, "send")
  /\ SendNonBlocking(r, Entry08(r, cur[r]), "recv")
  /\ UNCHANGED <<backlog, accepted, sent, taken, got, evars, seen>>

\* main joins its threads and returns.
Join08 ==
  /\ At("08_MultiReactor", "setup") /\ \A r \in Workers : pc[r] = "returned"
  /\ Exit
  /\ UNCHANGED <<pc, buf, backlog, accepted, streams, evars, seen>>

Worker08(r) ==
  \/ SetUpWorker(r) \/ CreateWorkerEpoll(r) \/ Wait08(r)
  \/ Accept08(r) \/ Find08(r) \/ Recv08(r) \/ Send08(r)
=============================================================================
