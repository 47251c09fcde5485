----------------------------- MODULE EchoStages -----------------------------
(***************************************************************************)
(* The echo servers of stages 01 to 08 (the thread pool of 08 has a module *)
(* of its own) with their client programs.  A behaviour is a run of one    *)
(* stage.  Where the client is a line client, the connections that are not *)
(* in Users belong to somebody else, who may do anything TCP allows.       *)
(***************************************************************************)
EXTENDS ShareNothingReactor, LatencyClient, Functions

CONSTANTS Stages, Users

ASSUME StageAssumption ==
  /\ Stages \subseteq {"01_skeleton", "02_EchoLoop", "03_SocketClass", "04_MultiThread",
                       "05_Latency", "06_NonBlock", "07_epoll", "08_MultiReactor"}
  /\ Users \subseteq Conns
  /\ Threads = {Main} \cup Conns \cup Workers /\ Reactors = {Main} \cup Workers
  /\ Listeners = {Port} \cup Workers /\ Main \notin Conns \cup Workers

vars == <<kvars, evars, seen, stage, cvars, lvars>>

Places ==
  {Server, Client, Temporary}
    \cup {Own(c) : c \in Conns} \cup {Entry07(f) : f \in Fds} \cup UNION {Locals(r) : r \in Workers}

\* No connection and no thread bears the name of a variable.
ASSUME PlacesAssumption ==
  Objects = Places /\ Conns \cap {"main", "client_map"} = {} /\ "client_map" \notin Workers

Init ==
  /\ EpollInit
  /\ stage \in Stages
  /\ pc = [t \in Threads |->
             IF t = Main \/ (t \in Workers /\ stage = "08_MultiReactor") THEN "setup" ELSE "none"]
  /\ seen = [c \in Conns |-> <<0, "new">>]
  /\ cpc = [c \in Conns |-> "start"] /\ typed = [c \in Conns |-> 0]
  /\ LatencyInit

\* The programs' steps, but for what is typed.
Clients(c) ==
  \/ stage \in Measuring /\ RunClient(c)
  \/ c \in Users /\ Proceeds(c) /\ UNCHANGED lvars

Others(c) ==
  \/ c \in Users /\ Input(c) /\ UNCHANGED lvars
  \/ c \notin Users /\ stage \notin Measuring /\ AnyClient(c) /\ UNCHANGED <<cvars, lvars>>

\* The latency client is interrupted from outside, while a round trip is under
\* way: at another time that is like the end of its threads.
Interrupt ==
  /\ stage \in Measuring /\ \E c \in Conns : cpc[c] = "pong"
  /\ ProcessKilled
  /\ UNCHANGED <<typed, lvars>>

ServerThread(t) ==
  \/ t = Main /\ MainThread /\ UNCHANGED <<evars, seen>>
  \/ t = Main /\ (EpollServer \/ Join08)
  \/ t \in Conns /\ ConnThread(t) /\ UNCHANGED <<evars, seen>>
  \/ t \in Workers /\ Worker08(t)

Next ==
  \/ \E c \in Conns : (Clients(c) \/ Others(c)) /\ UNCHANGED <<evars, seen, stage>>
  \/ Interrupt /\ UNCHANGED <<evars, seen, stage>>
  \/ \E t \in Threads : ServerThread(t) /\ UNCHANGED <<stage, cvars, lvars>>
  \/ AcceptError /\ UNCHANGED <<evars, seen, stage, cvars, lvars>>

Spec == Init /\ [][Next]_vars

\* Threads and client programs are scheduled; nobody has to type, and neither
\* the somebody else nor an error of accept has to happen.
FairSpec ==
  /\ Spec
  /\ \A t \in Threads : WF_vars(ServerThread(t) /\ UNCHANGED <<stage, cvars, lvars>>)
  /\ \A c \in Conns : WF_vars(Clients(c) /\ UNCHANGED <<evars, seen, stage>>)

-----------------------------------------------------------------------------

TypeOK ==
  /\ EpollTypeOK /\ LatencyTypeOK
  /\ pc \in [Threads -> {"none", "setup", "epoll", "accept", "greet", "recv", "log", "send",
                         "close", "spin", "poll", "dispatch", "exited", "returned"}]
  /\ cpc \in [Conns -> {"start", "input", "send", "recv", "close", "ping", "pong", "lock",
                        "merge", "done", "refused", "killed"}]
  /\ typed \in [Conns -> 0 .. LineMax]

\* The servers with blocking sockets.
Blocking == {"01_skeleton", "02_EchoLoop", "03_SocketClass", "04_MultiThread", "05_Latency"}

\* What is sent back, without the greeting of stage 01, which comes first.
Echoes(c) ==
  IF echoed[c] # <<>> /\ Head(echoed[c]) = <<c, 0>> THEN Tail(echoed[c]) ELSE echoed[c]

Service == INSTANCE EchoService WITH
             lossless <- stage \in Blocking, echoed <- [c \in Conns |-> Echoes(c)]

\* Each client gets back its own data in order, and from a server with
\* blocking sockets all of it, as long as the connection holds: whatever the
\* threads do, a buffer is never another client's (ThreadServer.cpp:22-34,
\* NonBlockServer.cpp:34-43, EpollServer.cpp:71-77, SNMRserver.cpp:77-84).
EchoFaithful == Service!ESpec

\* While a server runs it drops a client only after that client has ended or
\* reset its connection: having nothing to read is not an end
\* (NonBlockServer.cpp:47-51, EpollServer.cpp:86, SNMRserver.cpp:90).  A worker
\* of stage 08 that returns takes its clients with it.
KeepsClients ==
  [][\A c \in Conns :
       ServerOpen(c) /\ ~ServerOpen(c)' /\ alive' =>
         \/ peer[c] # "open"
         \/ \E r \in Workers : pc[r] # "returned" /\ pc'[r] = "returned"]_vars

\* The threads whose results are in the globals.
Merged == {c \in Conns : cpc[c] = "done"}

SumOverMerged(f) == FoldFunctionOnSet(+, 0, f, Merged)

\* Under mtx no thread's result is lost: the globals are the sums, and the
\* maximum, of the threads that have merged (LatencyClient.cpp:55-60), unless
\* SIGPIPE has ended them all.
MergedTotals ==
  stage \in Measuring /\ (\A c \in Conns : cpc[c] # "killed") =>
    /\ g_tot_t = SumOverMerged(total_t) /\ g_cnt = SumOverMerged(cnt)
    /\ \A c \in Merged : max_t[c] <= g_max_t
    /\ g_max_t = 0 \/ \E c \in Merged : max_t[c] = g_max_t

\* A line client whose line has reached a server that serves it gets an
\* answer or the end of the stream.  An empty line is excluded: nothing is
\* sent, both sides wait in recv, and for good (Client.cpp:20-28).
Answered ==
  \A c \in Users :
    stage \notin Measuring /\ cpc[c] = "recv" /\ typed[c] > 0 /\ ServerOpen(c) ~> cpc[c] # "recv"

\* What a client that is served sends is read, in stage 07 also when it comes
\* while its last event is being handled.  Only a blocking server stops at a
\* client that does not read.
InputRead ==
  \A c \in Conns :
    stage # "01_skeleton" /\ ServerOpen(c) /\ Unread(c) > 0
      ~> \/ Unread(c) = 0
         \/ ~ServerOpen(c)
         \/ stage \in Blocking /\ InTransit(c) = TxMax

\* A client in the queue is accepted, also when there was no descriptor left for
\* it, or 06 had another client: 04 and 05 spin and 06 polls until one that has
\* ended is closed (ThreadServer.cpp:17-21, NonBlockServer.cpp:26-51).  It waits
\* only while all that are served stay.
Admitted ==
  \A c \in Conns :
    stage \in {"04_MultiThread", "05_Latency", "06_NonBlock", "07_epoll"} /\ c \in backlog[Port]
      ~> \/ c \in accepted
         \/ ~alive
         \/ /\ stage = "06_NonBlock" \/ Free = {}
            /\ \E d \in Conns : ServerOpen(d)
            /\ \A d \in Conns : ServerOpen(d) => peer[d] = "open"

\* The servers for one client end when it has gone, and every thread of the
\* latency client ends, so that main joins them and reports (02 server.cpp:52-54,
\* testServer.cpp:33-41, LatencyClient.cpp:78-84).
ProgramsEnd ==
  /\ stage \in {"01_skeleton", "02_EchoLoop", "03_SocketClass"}
       /\ (\E c \in Conns : ServerOpen(c) /\ peer[c] # "open") ~> ~alive
  /\ stage \in Measuring ~> \A c \in Conns : cpc[c] \in {"done", "refused", "killed"}

-----------------------------------------------------------------------------
(* What the repository says, and its code does not do. *)

\* 05_NonBlock.md:5: "Bind()나 Connect() 호출 시점에 socket을 생성하도록" (the socket is
\* made when Bind or Connect is called).  A client then fails to connect only
\* when no server listens.
ConnectFindsServer ==
  [][\A c \in Users : cpc[c] = "start" /\ cpc'[c] = "refused" => Listening = {}]_vars

\* LatencyClient.cpp:84 prints g_max_t as "최고 지연", the highest latency.
MaximumIsMaximum ==
  g_cnt > 0 /\ (\A c \in Conns : cpc[c] = "done") =>
    \E c \in Conns : \E i \in DOMAIN measured[c] : measured[c][i] = g_max_t
=============================================================================
