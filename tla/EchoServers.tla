---------------------------- MODULE EchoServers ----------------------------
(***************************************************************************)
(* The echo servers of stages 01 to 06: one client at a time (01-03 and    *)
(* 06, the last without blocking), or a detached thread for each (04, 05). *)
(* Stages 01 and 02 use bare descriptors; their two are objects here too.  *)
(***************************************************************************)
EXTENDS EchoKernel

CONSTANTS
  Main,        \* the thread of main
  Port         \* the listening socket, as a file

VARIABLE stage

Server == <<"main", "server">>
Client == <<"main", "client">>

\* The socket a connection's thread has moved into its closure, and where
\* that thread is one of Threads: it is named by the connection.
Own(c) == <<c, "client">>

At(s, label) == alive /\ stage = s /\ pc[Main] = label

\* No descriptor is left, in this process or in the system.
AcceptFails == Free = {} \/ "accept" \in Faults

-----------------------------------------------------------------------------
(* Setting up. *)

\* The result of bind is not looked at; listen then takes a port of its own.
ListensAnyway ==
  /\ Listens(Server, Port) \/ ("bind" \in Faults /\ Listens(Server, Fresh))
  /\ Goto(Main, "accept")
  /\ UNCHANGED <<alive, buf, backlog, accepted, streams>>

ListensOrReturns ==
  /\ \/ Listens(Server, Port) /\ Goto(Main, "accept") /\ UNCHANGED alive
     \/ "bind" \in Faults /\ Exit /\ UNCHANGED pc
  /\ UNCHANGED <<buf, backlog, accepted, streams>>

SetUpSkeleton     == At("01_skeleton", "setup") /\ ListensAnyway
SetUpEchoLoop     == At("02_EchoLoop", "setup") /\ ListensAnyway
SetUpTestServer   == At("03_SocketClass", "setup") /\ ListensAnyway
SetUpThreadServer == At("04_MultiThread", "setup") /\ ListensOrReturns
SetUpLatency      == At("05_Latency", "setup") /\ ListensOrReturns
SetUpNonBlock     == At("06_NonBlock", "setup") /\ ListensOrReturns

-----------------------------------------------------------------------------
(* 01 to 03. *)

\* accept blocks.
AcceptsOne(next) ==
  /\ Accepts(Port, Client) /\ Goto(Main, next)
  /\ UNCHANGED <<alive, buf, streams>>

\* Mutation: the end of the stream is not told from having no data.
ReadsOneForEver(next, end) ==
  /\ \/ Received(Main, Client) /\ Goto(Main, next)
     \/ AtEnd(Client) /\ UNCHANGED <<pc, buf, taken>>
  /\ UNCHANGED <<sock, fdtab, alive, backlog, accepted, peer, sent, echoed, got>>

ReadsOne(next, end) ==
  /\ \/ Received(Main, Client) /\ Goto(Main, next)
     \/ AtEnd(Client) /\ Goto(Main, end) /\ UNCHANGED <<buf, taken>>
  /\ UNCHANGED <<sock, fdtab, alive, backlog, accepted, peer, sent, echoed, got>>

WritesOne ==
  /\ SendBlocking(Main, Client, "recv")
  /\ UNCHANGED <<backlog, accepted, sent, taken, got>>

\* Both descriptors are closed and main returns.
ClosesAll == Exit /\ UNCHANGED <<pc, buf, backlog, accepted, streams>>

\* 01: the server greets before it reads, as its client does.
AcceptForGreeting == At("01_skeleton", "accept") /\ AcceptsOne("greet")

Greet ==
  /\ At("01_skeleton", "greet")
  /\ LET c == FileOf(Client)
     IN  \/ /\ peer[c] = "open"
            /\ echoed' = [echoed EXCEPT ![c] = Append(@, <<c, 0>>)]
            /\ Goto(Main, "recv") /\ UNCHANGED <<sock, fdtab, alive>>
         \/ peer[c] # "open" /\ Goto(Main, "recv") /\ UNCHANGED <<sock, fdtab, alive, echoed>>
         \/ peer[c] = "reset" /\ Killed /\ UNCHANGED <<pc, echoed>>
  /\ UNCHANGED <<buf, backlog, accepted, peer, sent, taken, got>>

ReadGreeting  == At("01_skeleton", "recv") /\ ReadsOne("close", "close")
CloseSkeleton == At("01_skeleton", "close") /\ ClosesAll

\* 02
AcceptOne     == At("02_EchoLoop", "accept") /\ AcceptsOne("recv")
ReadLoop      == At("02_EchoLoop", "recv") /\ ReadsOne("send", "close")
WriteBack     == At("02_EchoLoop", "send") /\ WritesOne
CloseEchoLoop == At("02_EchoLoop", "close") /\ ClosesAll

\* 03
TestServerAccepts == At("03_SocketClass", "accept") /\ AcceptsOne("recv")
TestServerRecv    == At("03_SocketClass", "recv") /\ ReadsOne("send", "close")
TestServerSend    == At("03_SocketClass", "send") /\ WritesOne
TestServerReturns == At("03_SocketClass", "close") /\ ClosesAll

-----------------------------------------------------------------------------
(* 04 and 05. *)

\* Accept, and a thread whose closure the client is moved into.  While no
\* descriptor is free the loop spins; a thread that cannot be created ends
\* the process.
Hands(c) ==
  /\ \/ /\ Takes(Port, c)
        /\ \E f \in Fds : Lowest(f) /\ Become(Moved(Opened(Tables, Client, f, c), Own(c), Client))
        /\ Goto(c, "recv") /\ UNCHANGED alive
     \/ "thread" \in Faults /\ Takes(Port, c) /\ Free # {} /\ Exit /\ UNCHANGED pc
  /\ UNCHANGED <<buf, streams>>

ThreadReads(c, next, end) ==
  /\ \/ Received(c, Own(c)) /\ Goto(c, next) /\ UNCHANGED <<sock, fdtab>>
     \/ /\ AtEnd(Own(c)) /\ UNCHANGED <<buf, taken>>
        /\ Goto(c, end)
        /\ IF end = "exited" THEN Become(Destroyed(Tables, Own(c))) ELSE UNCHANGED <<sock, fdtab>>
  /\ UNCHANGED <<alive, backlog, accepted, peer, sent, echoed, got>>

ThreadWrites(c) ==
  /\ SendBlocking(c, Own(c), "recv")
  /\ UNCHANGED <<backlog, accepted, sent, taken, got>>

ThreadAt(s, c, label) == alive /\ stage = s /\ pc[c] = label

\* Mutation: what was logged is not sent.
LogsOnly(c) ==
  /\ ThreadAt("04_MultiThread", c, "log")
  /\ IF buf[c] # <<>>
     THEN Goto(c, "recv") /\ UNCHANGED <<sock, fdtab>>
     ELSE Goto(c, "exited") /\ Become(Destroyed(Tables, Own(c)))
  /\ UNCHANGED <<alive, buf, backlog, accepted, streams>>

\* 04 logs under log_mtx between receiving and what follows.
ThreadServerAccepts(c) == At("04_MultiThread", "accept") /\ Hands(c)
ThreadServerRecv(c)    == ThreadAt("04_MultiThread", c, "recv") /\ ThreadReads(c, "log", "log")
ThreadServerSend(c)    == ThreadAt("04_MultiThread", c, "send") /\ ThreadWrites(c)

ThreadServerLogs(c) ==
  /\ ThreadAt("04_MultiThread", c, "log")
  /\ IF buf[c] # <<>>
     THEN Goto(c, "send") /\ UNCHANGED <<sock, fdtab>>
     ELSE Goto(c, "exited") /\ Become(Destroyed(Tables, Own(c)))
  /\ UNCHANGED <<alive, buf, backlog, accepted, streams>>

\* 05
LatencyServerAccepts(c) == At("05_Latency", "accept") /\ Hands(c)
LatencyServerRecv(c)    == ThreadAt("05_Latency", c, "recv") /\ ThreadReads(c, "send", "exited")
LatencyServerSend(c)    == ThreadAt("05_Latency", c, "send") /\ ThreadWrites(c)

-----------------------------------------------------------------------------
(* 06: one client at a time, by polling.  The result of each call is       *)
(* assigned to client, which closes what client held before.               *)

Temporary == <<"main", "temporary">>

\* Mutation: the default constructor opens a socket, as it did up to 04.
DefaultOpens(t, o) ==
  IF Free = {} THEN t ELSE LET f == CHOOSE g \in Fds : Lowest(g) IN Opened(t, o, f, Fresh)

\* TcpSocket()
DefaultConstructed(t, o) == t

\* The variable client comes to life and the loop is entered.
EnterLoop ==
  /\ At("06_NonBlock", "accept")
  /\ Become(DefaultConstructed(Tables, Client))
  /\ Goto(Main, "poll")
  /\ UNCHANGED <<alive, buf, backlog, accepted, streams>>

\* client = server.Accept(), with EAGAIN no step at all.
PollAccept ==
  /\ At("06_NonBlock", "poll") /\ ~IsValid(Client)
  /\ \E c \in Conns, f \in Fds :
       /\ Takes(Port, c) /\ Lowest(f)
       /\ Become(Assigned(Opened(Tables, Temporary, f, c), Client, Temporary))
  /\ UNCHANGED <<alive, pc, buf, streams>>

\* Mutation: EAGAIN is taken for an error.
PollRecvStrict ==
  /\ At("06_NonBlock", "poll") /\ IsValid(Client)
  /\ \/ Received(Main, Client) /\ Goto(Main, "send") /\ UNCHANGED <<sock, fdtab>>
     \/ /\ AtEnd(Client) \/ NothingYet(Client)
        /\ Become(Assigned(DefaultConstructed(Tables, Temporary), Client, Temporary))
        /\ UNCHANGED <<pc, buf, taken>>
  /\ UNCHANGED <<alive, backlog, accepted, peer, sent, echoed, got>>

\* client.Recv, likewise; at the end client = TcpSocket().
PollRecv ==
  /\ At("06_NonBlock", "poll") /\ IsValid(Client)
  /\ \/ Received(Main, Client) /\ Goto(Main, "send") /\ UNCHANGED <<sock, fdtab>>
     \/ /\ AtEnd(Client)
        /\ Become(Assigned(DefaultConstructed(Tables, Temporary), Client, Temporary))
        /\ UNCHANGED <<pc, buf, taken>>
  /\ UNCHANGED <<alive, backlog, accepted, peer, sent, echoed, got>>

PollSend ==
  /\ At("06_NonBlock", "send")
  /\ SendNonBlocking(Main, Client, "poll")
  /\ UNCHANGED <<backlog, accepted, sent, taken, got>>

-----------------------------------------------------------------------------

\* accept fails.  Stages 01 and 02 use its -1 like a descriptor and close, 03
\* spins on an invalid client, 06 leaves its loop.
AcceptError ==
  /\ alive /\ AcceptFails
  /\ \/ stage \in {"01_skeleton", "02_EchoLoop"} /\ pc[Main] = "accept"
        /\ Goto(Main, "close") /\ UNCHANGED <<sock, fdtab, alive>>
     \/ At("03_SocketClass", "accept") /\ Goto(Main, "spin") /\ UNCHANGED <<sock, fdtab, alive>>
     \/ At("06_NonBlock", "poll") /\ ~IsValid(Client) /\ Exit /\ UNCHANGED pc
  /\ UNCHANGED <<buf, backlog, accepted, streams>>


MainThread ==
  \/ SetUpSkeleton \/ SetUpEchoLoop \/ SetUpTestServer
  \/ SetUpThreadServer \/ SetUpLatency \/ SetUpNonBlock
  \/ AcceptForGreeting \/ Greet \/ ReadGreeting \/ CloseSkeleton
  \/ AcceptOne \/ ReadLoop \/ WriteBack \/ CloseEchoLoop
  \/ TestServerAccepts \/ TestServerRecv \/ TestServerSend \/ TestServerReturns
  \/ \E c \in Conns : ThreadServerAccepts(c) \/ LatencyServerAccepts(c)
  \/ EnterLoop \/ PollAccept \/ PollRecv \/ PollSend

ConnThread(c) ==
  \/ ThreadServerRecv(c) \/ ThreadServerLogs(c) \/ ThreadServerSend(c)
  \/ LatencyServerRecv(c) \/ LatencyServerSend(c)
=============================================================================
