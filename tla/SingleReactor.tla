--------------------------- MODULE SingleReactor ---------------------------
(***************************************************************************)
(* 07_epoll/EpollServer.cpp: one thread, one epoll instance.  Clients are  *)
(* registered edge-triggered and without EPOLLONESHOT: an event is         *)
(* reported when something has arrived since the last one, so each must be *)
(* drained to EAGAIN.                                                      *)
(***************************************************************************)
EXTENDS EchoServers, Epoll

VARIABLE seen  \* what had arrived from a client at its last event

Entry07(f) == <<"client_map", f>>

Arrival(c) == <<sent[c], peer[c]>>

\* What epoll_wait may report: the listening socket by level, clients by edge.
Edges == {f \in Ready(Main) : fdtab[f] \in Conns => seen[fdtab[f]] # Arrival(fdtab[f])}

\* main returns.
Return07 == Exit /\ UNCHANGED pc

\* Bind, Listen, SetNonBlocking.
SetUpEpollServer ==
  /\ At("07_epoll", "setup") /\ ListensOrReturns
  /\ UNCHANGED <<evars, seen>>

\* epoll_create1 and the registration of server.
CreateEpoll ==
  /\ At("07_epoll", "accept")
  /\ \/ Arm(Main, sock[Server]) /\ Goto(Main, "dispatch") /\ UNCHANGED <<sock, fdtab, alive>>
     \/ "epoll" \in Faults /\ Return07 /\ UNCHANGED armed
  /\ UNCHANGED <<buf, backlog, accepted, streams, batch, cur, seen>>

\* epoll_wait, when the events of the last one are done; see ThreadPoolReactor.
Wait07 ==
  /\ At("07_epoll", "dispatch") /\ batch[Main] = {}
  /\ \E ev \in Reported(Main, Edges) \ {{}} :
       /\ batch' = [batch EXCEPT ![Main] = ev]
       /\ seen' = [c \in Conns |-> IF \E f \in ev : fdtab[f] = c THEN Arrival(c) ELSE seen[c]]
  /\ UNCHANGED <<sock, fdtab, alive, pc, buf, backlog, accepted, streams, armed, cur>>

\* server.Accept and the registration of the client, which moves into
\* client_map; without a descriptor EPOLL_CTL_ADD fails and main returns.
Accept07 ==
  /\ At("07_epoll", "dispatch") /\ sock[Server] \in batch[Main]
  /\ \/ \E c \in Conns, f \in Fds :
          /\ Takes(Port, c) /\ Lowest(f)
          /\ Become(Moved(Opened(Tables, Client, f, c), Entry07(f), Client))
          /\ Arm(Main, f)
          /\ batch' = [batch EXCEPT ![Main] = @ \ {sock[Server]}]
          /\ UNCHANGED <<alive, pc>>
     \/ /\ AcceptFails /\ Return07
        /\ UNCHANGED <<backlog, accepted, armed, batch>>
  /\ UNCHANGED <<buf, streams, cur, seen>>

\* A client's event, whose entry is looked up; without one it is skipped.
Find07 ==
  /\ At("07_epoll", "dispatch")
  /\ \E f \in batch[Main] \ {sock[Server]} :
       /\ batch' = [batch EXCEPT ![Main] = @ \ {f}]
       /\ IF IsValid(Entry07(f))
          THEN Goto(Main, "recv") /\ cur' = [cur EXCEPT ![Main] = f]
          ELSE UNCHANGED <<pc, cur>>
  /\ UNCHANGED <<sock, fdtab, alive, buf, backlog, accepted, streams, armed, seen>>

\* Mutation: one Recv for each event.
LeaveAtOnce == "dispatch"

\* while(1): after Send comes the next Recv.
AfterSend == "recv"

\* Recv, and at the end EPOLL_CTL_DEL, which cannot fail here, and erase,
\* which closes.
Recv07 ==
  /\ At("07_epoll", "recv")
  /\ LET o == Entry07(cur[Main])
     IN  \/ Received(Main, o) /\ Goto(Main, "send") /\ UNCHANGED <<sock, fdtab, armed, cur>>
         \/ /\ AtEnd(o) /\ Become(Destroyed(Tables, o))
            /\ armed' = [armed EXCEPT ![Main] = @ \ {cur[Main]}]
            /\ Goto(Main, "dispatch") /\ cur' = [cur EXCEPT ![Main] = NoFd]
            /\ UNCHANGED <<buf, taken>>
         \/ /\ NothingYet(o)
            /\ Goto(Main, "dispatch") /\ cur' = [cur EXCEPT ![Main] = NoFd]
            /\ UNCHANGED <<sock, fdtab, buf, taken, armed>>
  /\ UNCHANGED <<alive, backlog, accepted, peer, sent, echoed, got, batch, seen>>

Send07 ==
  /\ At("07_epoll", "send")
  /\ SendNonBlocking(Main, Entry07(cur[Main]), AfterSend)
  /\ UNCHANGED <<backlog, accepted, sent, taken, got, evars, seen>>

EpollServer ==
  \/ SetUpEpollServer \/ CreateEpoll \/ Wait07
  \/ Accept07 \/ Find07 \/ Recv07 \/ Send07
=============================================================================
