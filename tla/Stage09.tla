------------------------------ MODULE Stage09 ------------------------------
(***************************************************************************)
(* Stage 09 as a whole: the engine with the echo application of server.cpp *)
(* from its start to its end, and one MultiReactorClient.  A worker's work *)
(* on that client is one action per event; MultiReactorServer has the      *)
(* detail of it.                                                           *)
(***************************************************************************)
EXTENDS EngineLifecycle, MultiReactorClient

VARIABLE owner   \* the worker the kernel has given the connection to

vars == <<lvars, cvars, owner>>

TypeOK ==
  /\ LifecycleTypeOK /\ ClientTypeOK
  /\ owner \in Worker \cup {0} /\ (owner = 0 <=> link = "none")

Serves(i) == Up /\ wst[i] = "serving" /\ owner = i

client == <<crunning, epfd, io, thread, cpc, entered, proc>>

-----------------------------------------------------------------------------
(* The worker's part. *)

\* listen_sock.Accept()
Accepts(i) ==
  /\ Serves(i) /\ link = "queued"
  /\ link' = "held"
  /\ UNCHANGED <<lvars, client, mine, up, down, edge, owner>>

\* One Recv, and the Send of on_read_: what the kernel has no room for is
\* lost.  A client that has closed answers with a reset, and a Send after it
\* may end the process by SIGPIPE.
Echoes(i) ==
  /\ Serves(i) /\ link = "held" /\ up > 0
  /\ LET n == Least(up, RecvMax)
     IN  /\ up' = up - n
         /\ IF mine = "open"
            THEN down' = Least(Window, down + n) /\ edge' = TRUE /\ UNCHANGED mine
            ELSE mine' \in {mine, "reset"} /\ UNCHANGED <<down, edge>>
  /\ \/ UNCHANGED <<lvars, link>>
     \/ /\ mine = "reset" /\ server' = "killed" /\ link' = "reset"
        /\ UNCHANGED <<running, workers, wst, joined, spc, sjoin, tpc, tjoin>>
  /\ UNCHANGED <<client, owner>>

\* The client has closed and its data is read, or it has reset.
ClosesClient(i) ==
  /\ Serves(i) /\ link = "held"
  /\ mine = "reset" \/ (mine = "fin" /\ up = 0)
  /\ link' = "shut" /\ up' = 0
  /\ UNCHANGED <<lvars, client, mine, down, edge, owner>>

\* The connection ends with the worker that holds it or would have taken it.
\* A reset takes the place of the end when data is left unread, and then
\* what the client has not yet received may be lost.
Drops ==
  IF link \notin {"queued", "held"}
  THEN UNCHANGED wire
  ELSE /\ link' = IF link = "queued" \/ up > 0 THEN "reset" ELSE "shut"
       /\ down' \in {down} \cup (IF link' = "reset" THEN {0} ELSE {})
       /\ edge' = TRUE /\ up' = 0
       /\ UNCHANGED mine

\* workerLoop returns, which destroys clients_map and listen_sock.
Leaves09(i) ==
  /\ Exits(i)
  /\ IF owner = i THEN Drops ELSE UNCHANGED wire
  /\ UNCHANGED <<client, owner>>

-----------------------------------------------------------------------------
(* The composition. *)

Connects ==
  \/ \E i \in Worker :
       /\ Up /\ wst[i] = "serving"
       /\ Connected \/ ConnectFails(TRUE)
       /\ owner' = i /\ UNCHANGED lvars
  \/ ConnectFails(FALSE) /\ UNCHANGED <<lvars, owner>>

ClientStep ==
  \/ Connects
  \/ (Send \/ MainThread \/ IoThread) /\ UNCHANGED <<lvars, owner>>

MainServer == Start \/ CreateWorker \/ JoinInStart

Controller == Stop \/ JoinInStop

ServerStep ==
  \/ /\ MainServer \/ Controller \/ \E i \in Worker : SetsUp(i)
     /\ UNCHANGED <<cvars, owner>>
  \/ /\ Destroy \/ Abort
     /\ Drops /\ UNCHANGED <<client, owner>>
  \/ \E i \in Worker : Accepts(i) \/ Echoes(i) \/ ClosesClient(i) \/ Leaves09(i)

Init == LifecycleInit /\ ClientInit /\ owner = 0

Next == ClientStep \/ ServerStep

Spec == Init /\ [][Next]_vars

Works(i) == Accepts(i) \/ Echoes(i) \/ ClosesClient(i) \/ Leaves09(i)
            \/ (SetsUp(i) /\ UNCHANGED <<cvars, owner>>)

\* Every thread runs on, the main one of the client but for its user, the
\* controller but for its decision to stop.
FairSpec ==
  /\ Spec
  /\ WF_vars(MainServer /\ UNCHANGED <<cvars, owner>>)
  /\ WF_vars(\/ JoinInStop /\ UNCHANGED <<cvars, owner>>
             \/ Terminates /\ Drops /\ UNCHANGED <<client, owner>>)
  /\ \A i \in Worker : WF_vars(Works(i))
  /\ WF_vars((OnConnect \/ CloseEpfd \/ Join \/ Destruct \/ DestroyThread)
             /\ UNCHANGED <<lvars, owner>>)
  /\ WF_vars(IoThread /\ UNCHANGED <<lvars, owner>>)

-----------------------------------------------------------------------------
(* Properties. *)

\* When start has returned every worker it created has ended, whichever of
\* them failed, and also when a stop took them over: it joined them itself and
\* cleared workers_ under start's loop, or found workers it had not seen and
\* the process ended.  The engine is destroyed with nobody inside
\* (MultiReactorServer.cpp:13-15, 18-27, 29-36).
NoOrphans == Up /\ spc = "stop" => \A i \in Worker : wst[i] = "exited"

\* The client's process ends with std::terminate, or its io thread outlives
\* the callbacks it may call, only if the server has ended the connection
\* first: the exchange in disconnect then finds running_ false and does not
\* join (MultiReactorClient.cpp:8-10, 65-75, 110).
CleanQuit ==
  /\ proc = "aborted" => EndedByServer
  /\ cpc = "members" /\ io \notin {"none", "ended"} => EndedByServer

\* disconnect returns: the io thread, wherever it is when its epoll instance
\* is closed, comes to its end (MultiReactorClient.cpp:68-72, 82-86).
DisconnectReturns == Alive /\ cpc = "join" ~> ~Alive \/ cpc # "join"

\* What the server sends is received while the io thread runs, for all that
\* EPOLLET reports it once (MultiReactorClient.cpp:27, 93-108).
RepliesRead == down > 0 /\ crunning ~> down = 0 \/ ~crunning \/ ~Alive

\* The end of the connection by the server clears running_, after which send
\* does nothing (MultiReactorClient.cpp:99-112, 44).
EndNoticed == EndedByServer /\ crunning ~> ~crunning \/ ~Alive

\* A stop that found running_ true returns, and every worker has ended, also
\* one that start was still creating: an idle worker leaves because its
\* epoll_wait has a timeout.  A stop before start stores running_ has no effect
\* at all (MultiReactorServer.cpp:19-22, 30-34, 63-64).
StopStops ==
  tpc = "join" ~>
    ~Up \/ (tpc = "done" /\ \A i \in Worker : wst[i] \in {"none", "exited"})
=============================================================================
