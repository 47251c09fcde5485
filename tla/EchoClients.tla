---------------------------- MODULE EchoClients ----------------------------
(***************************************************************************)
(* The client programs of stages 01 to 08: the greeting of 01, the line    *)
(* clients of 02 (bare descriptors), of 03 (testClient.cpp) and of 04, 06  *)
(* and 07 (one Client.cpp).  A program is named by its connection.  Each   *)
(* sends a line and then waits for one Recv; typed is the line's length in *)
(* units, 0 for an empty one, which sends nothing and is waited for alike. *)
(***************************************************************************)
EXTENDS EchoServers

CONSTANT LineMax   \* units of a line, at most

ASSUME LineAssumption == LineMax \in Nat

VARIABLES
  cpc,         \* where each client program is
  typed

cvars == <<cpc, typed>>

Program(c, s, from) == stage \in s /\ cpc[c] = from

Proceed(c, to) == cpc' = [cpc EXCEPT ![c] = to]

\* Stages whose client uses bare descriptors and does not look at the result of
\* connect; stages with Client.cpp.
Bare == {"01_skeleton", "02_EchoLoop"}
Line == {"04_MultiThread", "06_NonBlock", "07_epoll"}

\* The socket of stage 06 is opened by nobody: its default constructor leaves
\* it at -1, and its Connect, unlike that of 05, does not make up for it.
ConnectHasSocket == stage # "06_NonBlock"

\* connect, and what is done about its failure.
Connect(c, next) ==
  \/ ConnectHasSocket /\ ClientConnects(c) /\ Proceed(c, next)
  \/ /\ Listening = {} \/ ~ConnectHasSocket
     /\ Proceed(c, IF stage \in Bare THEN next ELSE "refused")
     /\ UNCHANGED kvars

\* write or send of n units.  On a socket that never was connected it raises
\* SIGPIPE; on one whose server has gone it may.
Write(c, n) ==
  \/ Arrived(c) /\ ~ServerEnded(c) /\ Proceed(c, "recv")
     /\ IF n = 0 THEN UNCHANGED kvars ELSE ClientSends(c, n)
  \/ Arrived(c) /\ ServerEnded(c) /\ Proceed(c, "recv") /\ UNCHANGED kvars
  \/ ~Arrived(c) /\ Proceed(c, "done") /\ UNCHANGED kvars
  \/ Arrived(c) /\ ServerEnded(c) /\ Proceed(c, "done") /\ ClientCloses(c)

\* read or recv blocks; one call may return a part of what was sent back.  At
\* the end of the stream the program ends.
Read(c, next) ==
  \/ \E n \in 1 .. TxMax : ClientReads(c, n) /\ Proceed(c, next)
  \/ ServerEnded(c) /\ InTransit(c) = 0 /\ ClientCloses(c) /\ Proceed(c, "done")

\* 01: connect without a look at the result, greet, read, close.
ConnectSkeleton(c) == Program(c, {"01_skeleton"}, "start") /\ Connect(c, "send") /\ UNCHANGED typed
SendGreeting(c)    == Program(c, {"01_skeleton"}, "send") /\ Write(c, 1) /\ UNCHANGED typed
ReadReply(c)       == Program(c, {"01_skeleton"}, "recv") /\ Read(c, "close") /\ UNCHANGED typed
CloseSocket(c) ==
  /\ Program(c, {"01_skeleton"}, "close") /\ Proceed(c, "done")
  /\ ClientCloses(c)
  /\ UNCHANGED typed

\* getline: "quit" ends the program; at the end of the input lines are empty.
Input(c) ==
  /\ cpc[c] = "input"
  /\ \/ /\ \E n \in 0 .. LineMax : sent[c] + n <= SendMax[c] /\ typed' = [typed EXCEPT ![c] = n]
        /\ Proceed(c, "send") /\ UNCHANGED kvars
     \/ /\ Proceed(c, "done") /\ UNCHANGED typed
        /\ IF Arrived(c) THEN ClientCloses(c) ELSE UNCHANGED kvars

\* 02
ConnectEchoLoop(c) == Program(c, {"02_EchoLoop"}, "start") /\ Connect(c, "input") /\ UNCHANGED typed
WriteLine(c)       == Program(c, {"02_EchoLoop"}, "send") /\ Write(c, typed[c]) /\ UNCHANGED typed
ReadEcho(c)        == Program(c, {"02_EchoLoop"}, "recv") /\ Read(c, "input") /\ UNCHANGED typed

\* 03
TestClientConnects(c) == Program(c, {"03_SocketClass"}, "start") /\ Connect(c, "input") /\ UNCHANGED typed
TestClientSends(c)    == Program(c, {"03_SocketClass"}, "send") /\ Write(c, typed[c]) /\ UNCHANGED typed
TestClientRecvs(c)    == Program(c, {"03_SocketClass"}, "recv") /\ Read(c, "input") /\ UNCHANGED typed

\* 04, 06 and 07
LineConnect(c) == Program(c, Line, "start") /\ Connect(c, "input") /\ UNCHANGED typed
LineSend(c)    == Program(c, Line, "send") /\ Write(c, typed[c]) /\ UNCHANGED typed
LineRecv(c)    == Program(c, Line, "recv") /\ Read(c, "input") /\ UNCHANGED typed

\* The steps that wait for nothing but the server.
Proceeds(c) ==
  \/ ConnectSkeleton(c) \/ SendGreeting(c) \/ ReadReply(c) \/ CloseSocket(c)
  \/ ConnectEchoLoop(c) \/ WriteLine(c) \/ ReadEcho(c)
  \/ TestClientConnects(c) \/ TestClientSends(c) \/ TestClientRecvs(c)
  \/ LineConnect(c) \/ LineSend(c) \/ LineRecv(c)
=============================================================================
