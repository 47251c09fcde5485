--------------------------- MODULE Stage09_proofs ---------------------------
(* start leaves no worker behind, for any number of workers, and the client *)
(* aborts only after the server has ended the connection; and the types.   *)
EXTENDS Stage09, TLAPS

LEMMA ThreadCountPositive == ThreadCount \in Nat \ {0}
  BY LifecycleAssumption DEF ThreadCount

\* What LifecycleTypeOK says of the engine.
TypesInv ==
  /\ workers \in Seq(Worker) /\ sjoin \in Seq(Worker) /\ tjoin \in Seq(Worker)
  /\ wst \in [Worker -> {"none", "setup", "serving", "exited"}]

Within(i, s) == \E k \in DOMAIN s : s[k] = i

JoinedInv == joined \subseteq Worker /\ \A i \in joined : wst[i] = "exited"

\* A thread that has been created is in workers_ until somebody has joined it:
\* clear() would not let go of any other.
KeptInv == \A i \in Worker : wst[i] # "none" => i \in joined \/ Within(i, workers)

\* What start has still to look at are the threads that nobody has joined, ...
LeftInv ==
  spc = "join" => \A i \in Worker : wst[i] # "none" /\ (i \in joined \/ Within(i, sjoin))

\* ... and when it has seen them all they have ended.
GoneInv == spc = "stop" => \A i \in Worker : wst[i] = "exited"

LInv == TypesInv /\ JoinedInv /\ KeptInv /\ LeftInv /\ GoneInv

-----------------------------------------------------------------------------

\* A step that is none of the engine's life, or that ends its process.
LEMMA ElsewhereStep ==
  ASSUME LInv, UNCHANGED <<workers, wst, joined, spc, sjoin, tjoin>>
  PROVE  LInv'
  BY DEF LInv, TypesInv, JoinedInv, KeptInv, LeftInv, GoneInv, Within

LEMMA WithinAppend ==
  ASSUME NEW s \in Seq(Worker), NEW i \in Worker, NEW j \in Worker, Within(i, s) \/ i = j
  PROVE  Append(s, j) \in Seq(Worker) /\ Within(i, Append(s, j))
<1>1. /\ Append(s, j) \in Seq(Worker) /\ DOMAIN Append(s, j) = 1 .. Len(s) + 1
      /\ Append(s, j)[Len(s) + 1] = j /\ Len(s) + 1 \in DOMAIN Append(s, j)
      /\ \A k \in DOMAIN s : k \in DOMAIN Append(s, j) /\ Append(s, j)[k] = s[k]
  OBVIOUS
<1>. QED
  BY <1>1 DEF Within

LEMMA WithinTail ==
  ASSUME NEW s \in Seq(Worker), s # <<>>
  PROVE  /\ Head(s) \in Worker /\ Tail(s) \in Seq(Worker)
         /\ \A i : Within(i, s) => i = Head(s) \/ Within(i, Tail(s))
<1>1. Head(s) \in Worker /\ Tail(s) \in Seq(Worker) /\ Head(s) = s[1]
  OBVIOUS
<1>2. ASSUME NEW k \in DOMAIN s, k # 1
      PROVE  k - 1 \in DOMAIN Tail(s) /\ Tail(s)[k - 1] = s[k]
  BY <1>2
<1>. QED
  BY <1>1, <1>2 DEF Within

LEMMA StartStep == ASSUME LInv, Start PROVE LInv'
  BY DEF Start, LInv, TypesInv, JoinedInv, KeptInv, LeftInv, GoneInv, Within

LEMMA CreateStep == ASSUME LInv, CreateWorker PROVE LInv'
<1>1. UNCHANGED <<joined, tjoin>> /\ spc = "create"
  BY DEF CreateWorker
<1>2. ASSUME NEW i \in Worker, wst[i] = "none", workers' = Append(workers, i),
             wst' = [wst EXCEPT ![i] = "setup"], UNCHANGED <<spc, sjoin>>
      PROVE  LInv'
  <2>1. TypesInv'
    BY <1>1, <1>2, WithinAppend DEF LInv, TypesInv
  <2>2. JoinedInv'
    BY <1>1, <1>2 DEF LInv, TypesInv, JoinedInv
  <2>3. KeptInv'
    <3>. SUFFICES ASSUME NEW j \in Worker, wst'[j] # "none"
                  PROVE  j \in joined \/ Within(j, workers')
      BY <1>1 DEF KeptInv, Within
    <3>1. j = i \/ wst[j] # "none"
      BY <1>2 DEF LInv, TypesInv
    <3>2. j \in joined \/ Within(j, workers) \/ j = i
      BY <3>1 DEF LInv, KeptInv
    <3>. QED
      BY <1>2, <3>2, WithinAppend DEF LInv, TypesInv
  <2>. QED
    BY <1>1, <1>2, <2>1, <2>2, <2>3 DEF LInv, LeftInv, GoneInv
<1>3. CASE /\ \A i \in Worker : wst[i] # "none"
           /\ spc' = "join" /\ sjoin' = workers
           /\ UNCHANGED <<workers, wst>>
  BY <1>1, <1>3 DEF LInv, TypesInv, JoinedInv, KeptInv, LeftInv, GoneInv, Within
<1>. QED
  BY <1>2, <1>3 DEF CreateWorker

\* Whoever joins a thread finds it ended.
LEMMA JoinedStep ==
  ASSUME LInv, NEW i \in Worker, Joins(i), joined' = joined \cup {i}, UNCHANGED wst
  PROVE  JoinedInv'
  BY DEF LInv, JoinedInv, Joins

LEMMA JoinInStartStep == ASSUME LInv, JoinInStart PROVE LInv'
<1>1. UNCHANGED <<workers, wst, tjoin>> /\ spc = "join"
  BY DEF JoinInStart
<1>2. CASE sjoin # <<>>
  <2>1. Joins(Head(sjoin)) /\ joined' = joined \cup {Head(sjoin)} /\ sjoin' = Tail(sjoin) /\ spc' = spc
    BY <1>2 DEF JoinInStart
  <2>2. Head(sjoin) \in Worker /\ TypesInv'
    BY <1>1, <1>2, <2>1, WithinTail DEF LInv, TypesInv
  <2>3. JoinedInv'
    BY <1>1, <2>1, <2>2, JoinedStep
  <2>4. KeptInv'
    BY <1>1, <2>1 DEF LInv, KeptInv, Within
  <2>5. \A i : Within(i, sjoin) => i = Head(sjoin) \/ Within(i, Tail(sjoin))
    BY <1>2, WithinTail DEF LInv, TypesInv
  <2>6. LeftInv'
    BY <1>1, <2>1, <2>5 DEF LInv, LeftInv, Within
  <2>. QED
    BY <1>1, <2>1, <2>2, <2>3, <2>4, <2>6 DEF LInv, GoneInv
<1>3. CASE sjoin = <<>>
  <2>1. spc' = "stop" /\ UNCHANGED <<joined, sjoin>>
    BY <1>3 DEF JoinInStart
  <2>2. \A i : ~Within(i, sjoin)
    BY <1>3 DEF Within
  <2>3. GoneInv'
    BY <1>1, <2>2 DEF LInv, LeftInv, JoinedInv, GoneInv
  <2>. QED
    BY <1>1, <2>1, <2>3 DEF LInv, TypesInv, JoinedInv, KeptInv, LeftInv, Within
<1>. QED
  BY <1>2, <1>3

LEMMA StopStep == ASSUME LInv, Stop PROVE LInv'
<1>1. UNCHANGED <<workers, wst, joined, spc, sjoin>> /\ (tjoin' = workers \/ tjoin' = tjoin)
  BY DEF Stop
<1>. QED
  BY <1>1 DEF LInv, TypesInv, JoinedInv, KeptInv, LeftInv, GoneInv, Within

\* clear() takes from workers_ what has been joined.
LEMMA JoinInStopStep == ASSUME LInv, JoinInStop PROVE LInv'
<1>1. UNCHANGED <<wst, spc, sjoin>>
  BY DEF JoinInStop
<1>2. CASE tjoin # <<>>
  <2>1. Joins(Head(tjoin)) /\ joined' = joined \cup {Head(tjoin)} /\ tjoin' = Tail(tjoin)
        /\ workers' = workers
    BY <1>2 DEF JoinInStop
  <2>2. Head(tjoin) \in Worker /\ TypesInv'
    BY <1>1, <1>2, <2>1, WithinTail DEF LInv, TypesInv
  <2>3. JoinedInv'
    BY <1>1, <2>1, <2>2, JoinedStep
  <2>. QED
    BY <1>1, <2>1, <2>2, <2>3 DEF LInv, KeptInv, LeftInv, GoneInv, Within
<1>3. CASE tjoin = <<>>
  <2>1. AllJoined /\ workers' = <<>> /\ UNCHANGED <<joined, tjoin>>
    BY <1>3 DEF JoinInStop
  <2>2. KeptInv'
    BY <1>1, <2>1 DEF LInv, KeptInv, AllJoined, Within
  <2>3. TypesInv'
    BY <1>1, <2>1 DEF LInv, TypesInv
  <2>. QED
    BY <1>1, <2>1, <2>2, <2>3 DEF LInv, JoinedInv, LeftInv, GoneInv, Within
<1>. QED
  BY <1>2, <1>3

LEMMA DestroyStep == ASSUME LInv, Destroy PROVE LInv'
  BY DEF Destroy, LInv, TypesInv, JoinedInv, KeptInv, LeftInv, GoneInv, Within

\* A worker that goes on, or ends: none that has ended does.
LEMMA WorkerStep == ASSUME LInv, NEW i \in Worker, SetsUp(i) \/ Exits(i) PROVE LInv'
<1>1. /\ UNCHANGED <<workers, joined, spc, sjoin, tjoin>> /\ wst[i] \in {"setup", "serving"}
      /\ \E s \in {"serving", "exited"} : wst' = [wst EXCEPT ![i] = s]
  BY DEF SetsUp, Exits
<1>2. TypesInv'
  BY <1>1 DEF LInv, TypesInv
<1>3. \A j \in Worker : /\ wst[j] = "exited" => wst'[j] = "exited"
                        /\ wst[j] # "none" <=> wst'[j] # "none"
  BY <1>1 DEF LInv, TypesInv
<1>. QED
  BY <1>1, <1>2, <1>3 DEF LInv, JoinedInv, KeptInv, LeftInv, GoneInv, Within

-----------------------------------------------------------------------------

\* The client's steps and the worker's leave the engine's life alone, but for
\* SIGPIPE.
LEMMA NextStep == ASSUME LInv, [Next]_vars PROVE LInv'
<1>1. CASE ClientStep
  BY <1>1, ElsewhereStep DEF ClientStep, Connects, lvars
<1>2. CASE ServerStep
  <2>1. CASE MainServer \/ Controller
    BY <2>1, StartStep, CreateStep, JoinInStartStep, StopStep, JoinInStopStep
    DEF MainServer, Controller
  <2>2. CASE \E i \in Worker : SetsUp(i)
    BY <2>2, WorkerStep
  <2>3. CASE Destroy
    BY <2>3, DestroyStep
  <2>4. CASE Abort
    BY <2>4, ElsewhereStep DEF Abort
  <2>5. ASSUME NEW i \in Worker, Accepts(i) \/ Echoes(i) \/ ClosesClient(i)
        PROVE  LInv'
    BY <2>5, ElsewhereStep DEF Accepts, Echoes, ClosesClient, lvars
  <2>6. ASSUME NEW i \in Worker, Leaves09(i) PROVE LInv'
    BY <2>6, WorkerStep DEF Leaves09
  <2>. QED
    BY <1>2, <2>1, <2>2, <2>3, <2>4, <2>5, <2>6 DEF ServerStep
<1>3. CASE UNCHANGED vars
  BY <1>3, ElsewhereStep DEF vars, lvars
<1>. QED
  BY <1>1, <1>2, <1>3 DEF Next

\* When start returns every worker has ended, however many there are, whichever
\* of them fail, and at whatever moment a controller stops them
\* (MultiReactorServer.cpp:18-36).
THEOREM StartLeavesNoOrphans == Spec => []NoOrphans
<1>1. Init => LInv
  BY DEF Init, LifecycleInit, LInv, TypesInv, JoinedInv, KeptInv, LeftInv, GoneInv
<1>2. LInv /\ [Next]_vars => LInv'
  BY NextStep
<1>3. LInv => NoOrphans
  BY DEF LInv, GoneInv, NoOrphans
<1>. QED
  BY <1>1, <1>2, <1>3, PTL DEF Spec
-----------------------------------------------------------------------------

\* The io thread exists when it has been started, and has ended when joined.
ThreadInv ==
  /\ thread \in {"none", "joinable", "joined"} /\ (thread = "none" <=> io = "none")
  /\ thread = "joined" => io = "ended"
  /\ cpc = "connect" => thread = "none"

\* running_ is cleared by disconnect, which joins, or by the io thread, after
\* the server's end.  The destructor runs with a thread that nobody has joined
\* only in the second case.
EndInv ==
  /\ io \in {"closed", "notify"} => EndedByServer
  /\ thread = "joinable" /\ cpc \in {"on_connect", "input"} /\ ~crunning => EndedByServer
  /\ thread = "joinable" /\ cpc \in {"destruct", "members", "end"} => EndedByServer
  /\ proc = "aborted" => EndedByServer

CInv == ThreadInv /\ EndInv

USE DEF ThreadInv, EndInv, CInv

\* A step of the server, which never takes back the end of a connection.
LEMMA WorkerKeepsEnd ==
  ASSUME NEW i \in Worker, Accepts(i) \/ Echoes(i) \/ ClosesClient(i) \/ Leaves09(i)
  PROVE  UNCHANGED client /\ (EndedByServer => EndedByServer')
  BY DEF Accepts, Echoes, ClosesClient, Leaves09, Drops, wire, EndedByServer

LEMMA ServerKeepsEnd ==
  ASSUME ServerStep
  PROVE  UNCHANGED client /\ (EndedByServer => EndedByServer')
<1>1. CASE UNCHANGED cvars
  BY <1>1 DEF cvars, wire, client, EndedByServer
<1>2. CASE Drops /\ UNCHANGED client
  BY <1>2 DEF Drops, wire, EndedByServer
<1>. QED
  BY <1>1, <1>2, WorkerKeepsEnd DEF ServerStep

LEMMA ConnectStep == ASSUME CInv, Connects PROVE CInv'
<1>1. CASE Connected
  BY <1>1 DEF Connected, Alive, EndedByServer
<1>2. CASE ConnectFails(TRUE) \/ ConnectFails(FALSE)
  BY <1>2 DEF ConnectFails, Alive, EndedByServer
<1>. QED
  BY <1>1, <1>2 DEF Connects

LEMMA SendStep == ASSUME CInv, Send PROVE CInv'
  BY DEF Send, Alive, Ends, EndedByServer, wire

LEMMA MainThreadStep == ASSUME CInv, MainThread PROVE CInv'
<1>1. CASE OnConnect \/ CloseEpfd \/ Join \/ Destruct
  BY <1>1 DEF OnConnect, CloseEpfd, Join, IoEnded, Destruct, wire, EndedByServer
<1>2. CASE Quit
  BY <1>2 DEF Quit, Exchanges, wire, EndedByServer
<1>3. CASE DestroyThread
  BY <1>3 DEF DestroyThread, Ends, EndedByServer
<1>. QED
  BY <1>1, <1>2, <1>3 DEF MainThread

LEMMA IoThreadStep == ASSUME CInv, IoThread PROVE CInv'
<1>1. CASE IoTest \/ IoEnter
  BY <1>1 DEF IoTest, IoEnter, wire, EndedByServer
<1>2. CASE IoWait \/ IoRecv
  BY <1>2 DEF IoWait, IoRecv, NextRecv, EndedByServer
<1>3. CASE IoClosed \/ IoNotify
  BY <1>3 DEF IoClosed, ClearsRunning, IoNotify, wire, EndedByServer
<1>. QED
  BY <1>1, <1>2, <1>3 DEF IoThread

\* The client of stage 09 ends with std::terminate, or lets its io thread
\* outlive the callbacks, only if the server has ended the connection first
\* (MultiReactorClient.cpp:8-10, 65-75, 110).
THEOREM QuitIsClean == Spec => []CleanQuit
<1>1. Init => CInv
  BY DEF Init, ClientInit
<1>2. CInv /\ [Next]_vars => CInv'
  <2>. SUFFICES ASSUME CInv, [Next]_vars PROVE CInv'
    OBVIOUS
  <2>1. CASE ClientStep
    BY <2>1, ConnectStep, SendStep, MainThreadStep, IoThreadStep DEF ClientStep
  <2>2. CASE ServerStep
    BY <2>2, ServerKeepsEnd DEF client
  <2>3. CASE UNCHANGED vars
    BY <2>3 DEF vars, cvars, wire, EndedByServer
  <2>. QED
    BY <2>1, <2>2, <2>3 DEF Next
<1>3. CInv => CleanQuit
  BY DEF CleanQuit
<1>. QED
  BY <1>1, <1>2, <1>3, PTL DEF Spec
-----------------------------------------------------------------------------
(* The types, in three parts: the engine's life, the client's threads, and *)
(* the connection between the two.                                         *)

LifeTypes == LifecycleTypeOK

\* running_ is true between connect and disconnect only, which is why
\* disconnect closes an epoll instance that is there, and joins a thread.
ThreadTypes ==
  /\ crunning \in BOOLEAN /\ epfd \in {"none", "open"}
  /\ io \in {"none", "test", "enter", "waiting", "recv", "closed", "notify", "ended"}
  /\ thread \in {"none", "joinable", "joined"} /\ (thread = "none" <=> io = "none")
  /\ cpc \in {"connect", "on_connect", "input", "close", "join", "destruct", "members", "end"}
  /\ entered \in 0 .. Lines /\ proc \in {"alive", "exited", "aborted", "killed"}
  /\ crunning => epfd = "open" /\ thread = "joinable" /\ cpc \in {"on_connect", "input"}

WireTypes ==
  /\ edge \in BOOLEAN /\ link \in {"none", "queued", "held", "shut", "reset"}
  /\ mine \in {"none", "open", "fin", "reset"}
  /\ up \in 0 .. Window /\ down \in 0 .. Window
  /\ owner \in Worker \cup {0} /\ (owner = 0 <=> link = "none")

AllTypes == LifeTypes /\ ThreadTypes /\ WireTypes

LEMMA LifeKept ==
  ASSUME LifeTypes, UNCHANGED <<running, workers, wst, joined, spc, sjoin, tpc, tjoin>>,
         server' \in {"alive", "undefined", "aborted", "killed", "ended"}
  PROVE  LifeTypes'
  BY DEF LifeTypes, LifecycleTypeOK

LEMMA LifeStep ==
  ASSUME LifeTypes, [Next]_vars
  PROVE  LifeTypes'
<1>1. CASE ClientStep
  BY <1>1 DEF ClientStep, Connects, lvars, LifeTypes, LifecycleTypeOK
<1>2. CASE MainServer
  <2>1. CASE Start
    BY <2>1 DEF Start, LifeTypes, LifecycleTypeOK
  <2>2. CASE CreateWorker
    <3>1. \A i \in Worker : Append(workers, i) \in Seq(Worker)
      BY DEF LifeTypes, LifecycleTypeOK
    <3>. QED
      BY <2>2, <3>1 DEF CreateWorker, LifeTypes, LifecycleTypeOK
  <2>3. CASE JoinInStart
    <3>1. sjoin # <<>> => Head(sjoin) \in Worker /\ Tail(sjoin) \in Seq(Worker)
      BY WithinTail DEF LifeTypes, LifecycleTypeOK
    <3>. QED
      BY <2>3, <3>1 DEF JoinInStart, LifeTypes, LifecycleTypeOK
  <2>. QED
    BY <1>2, <2>1, <2>2, <2>3 DEF MainServer
<1>3. CASE Controller
  <2>1. CASE Stop
    BY <2>1 DEF Stop, Clears, LifeTypes, LifecycleTypeOK
  <2>2. CASE JoinInStop
    <3>1. tjoin # <<>> => Head(tjoin) \in Worker /\ Tail(tjoin) \in Seq(Worker)
      BY WithinTail DEF LifeTypes, LifecycleTypeOK
    <3>2. <<>> \in Seq(Worker)
      OBVIOUS
    <3>. QED
      BY <2>2, <3>1, <3>2 DEF JoinInStop, LifeTypes, LifecycleTypeOK
  <2>. QED
    BY <1>3, <2>1, <2>2 DEF Controller
<1>4. CASE Abort
  BY <1>4, LifeKept DEF Abort
<1>5. CASE Destroy
  BY <1>5 DEF Destroy, LifeTypes, LifecycleTypeOK
<1>6. ASSUME NEW i \in Worker, SetsUp(i) \/ Leaves09(i)
      PROVE  LifeTypes'
  BY <1>6 DEF SetsUp, Leaves09, Exits, LifeTypes, LifecycleTypeOK
<1>7. ASSUME NEW i \in Worker, Accepts(i) \/ Echoes(i) \/ ClosesClient(i)
      PROVE  LifeTypes'
  <2>1. server \in {"alive", "undefined", "aborted", "killed", "ended"}
    BY DEF LifeTypes, LifecycleTypeOK
  <2>. QED
    BY <1>7, <2>1, LifeKept DEF Accepts, Echoes, ClosesClient, lvars
<1>8. CASE UNCHANGED vars
  BY <1>8 DEF vars, lvars, LifeTypes, LifecycleTypeOK
<1>. QED
  BY <1>1, <1>2, <1>3, <1>4, <1>5, <1>6, <1>7, <1>8 DEF Next, ServerStep

LEMMA ThreadStep ==
  ASSUME ThreadTypes, [Next]_vars
  PROVE  ThreadTypes'
<1>1. CASE UNCHANGED client
  BY <1>1 DEF client, ThreadTypes
<1>2. CASE Connects
  <2>1. CASE Connected
    BY <2>1 DEF Connected, ThreadTypes
  <2>2. CASE ConnectFails(TRUE) \/ ConnectFails(FALSE)
    BY <2>2 DEF ConnectFails, ThreadTypes
  <2>. QED
    BY <1>2, <2>1, <2>2 DEF Connects
<1>3. CASE Send
  <2>1. entered' \in 0 .. Lines /\ proc' \in {"alive", "exited", "aborted", "killed"}
    BY <1>3, ClientAssumption DEF Send, Ends, wire, ThreadTypes
  <2>. QED
    BY <1>3, <2>1 DEF Send, ThreadTypes
<1>4. CASE MainThread
  <2>1. CASE OnConnect
    BY <2>1 DEF OnConnect, ThreadTypes
  <2>2. CASE Quit
    BY <2>2 DEF Quit, Exchanges, ThreadTypes
  <2>3. CASE CloseEpfd \/ Join \/ Destruct
    BY <2>3 DEF CloseEpfd, Join, IoEnded, Destruct, ThreadTypes
  <2>4. CASE DestroyThread
    BY <2>4 DEF DestroyThread, Ends, ThreadTypes
  <2>. QED
    BY <1>4, <2>1, <2>2, <2>3, <2>4 DEF MainThread
<1>5. CASE IoThread
  <2>1. CASE IoTest
    BY <2>1 DEF IoTest, ThreadTypes
  <2>2. CASE IoEnter
    BY <2>2 DEF IoEnter, ThreadTypes
  <2>3. CASE IoWait
    BY <2>3 DEF IoWait, ThreadTypes
  <2>4. CASE IoRecv
    BY <2>4 DEF IoRecv, NextRecv, ThreadTypes
  <2>5. CASE IoClosed
    BY <2>5 DEF IoClosed, ClearsRunning, ThreadTypes
  <2>6. CASE IoNotify
    BY <2>6 DEF IoNotify, ThreadTypes
  <2>. QED
    BY <1>5, <2>1, <2>2, <2>3, <2>4, <2>5, <2>6 DEF IoThread
<1>6. CASE ServerStep \/ UNCHANGED vars
  BY <1>1, <1>6, ServerKeepsEnd DEF vars, cvars, client
<1>. QED
  BY <1>2, <1>3, <1>4, <1>5, <1>6 DEF Next, ClientStep

\* The end of a worker or of the process leaves the connection well formed.
LEMMA DropsTypes ==
  ASSUME WireTypes, Drops, UNCHANGED owner
  PROVE  WireTypes'
<1>1. CASE link \notin {"queued", "held"}
  BY <1>1 DEF Drops, wire, WireTypes
<1>2. CASE link \in {"queued", "held"}
  <2>1. /\ link' \in {"shut", "reset"} /\ down' \in {down, 0}
        /\ edge' = TRUE /\ up' = 0 /\ UNCHANGED mine
    BY <1>2 DEF Drops
  <2>2. 0 \in 0 .. Window
    BY ClientAssumption
  <2>. QED
    BY <1>2, <2>1, <2>2 DEF WireTypes
<1>. QED
  BY <1>1, <1>2

\* Bytes taken from or added to a direction of the connection.
LEMMA InWindow ==
  ASSUME NEW u \in 0 .. Window, NEW n \in Nat
  PROVE  /\ Least(Window, u + n) \in 0 .. Window /\ u - Least(u, n) \in 0 .. Window
         /\ Least(u, n) \in Nat
  BY ClientAssumption DEF Least

LEMMA WireStep ==
  ASSUME WireTypes, [Next]_vars
  PROVE  WireTypes'
<1>1. CASE UNCHANGED <<wire, owner>>
  BY <1>1 DEF wire, WireTypes
<1>2. CASE Connects
  <2>1. 0 \notin Worker
    BY ThreadCountPositive DEF Worker
  <2>2. ASSUME NEW i \in Worker, Connected \/ ConnectFails(TRUE), owner' = i
        PROVE  WireTypes'
    BY <2>1, <2>2 DEF Connected, ConnectFails, WireTypes
  <2>3. CASE ConnectFails(FALSE) /\ UNCHANGED owner
    BY <2>3 DEF ConnectFails, WireTypes
  <2>. QED
    BY <1>2, <2>2, <2>3 DEF Connects
<1>3. CASE Send /\ UNCHANGED owner
  <2>1. Least(Window, up + LineSize) \in 0 .. Window
    BY InWindow, ClientAssumption DEF WireTypes
  <2>2. 0 \in 0 .. Window
    BY ClientAssumption
  <2>3. CASE ~EndedByServer /\ up' = Least(Window, up + LineSize) /\ UNCHANGED <<link, mine, down, edge>>
    BY <1>3, <2>1, <2>3 DEF WireTypes
  <2>4. CASE link = "shut" /\ link' = "reset" /\ edge' = TRUE /\ down' \in {0, down} /\ UNCHANGED <<mine, up>>
    BY <1>3, <2>2, <2>4 DEF WireTypes
  <2>5. CASE Ends("killed")
    BY <1>3, <2>5 DEF Ends, WireTypes
  <2>. QED
    BY <1>1, <1>3, <2>3, <2>4, <2>5 DEF Send
<1>4. CASE MainThread /\ UNCHANGED owner
  <2>1. CASE DestroyThread
    BY <1>4, <2>1 DEF DestroyThread, Ends, WireTypes
  <2>. QED
    BY <1>1, <1>4, <2>1 DEF MainThread, OnConnect, Quit, CloseEpfd, Join, Destruct
<1>5. CASE IoThread /\ UNCHANGED owner
  <2>1. CASE IoWait
    BY <1>5, <2>1 DEF IoWait, WireTypes
  <2>2. CASE IoRecv
    <3>1. down' \in 0 .. Window
      BY <2>2, InWindow, ClientAssumption DEF IoRecv, WireTypes
    <3>. QED
      BY <1>5, <2>2, <3>1 DEF IoRecv, WireTypes
  <2>. QED
    BY <1>1, <1>5, <2>1, <2>2 DEF IoThread, IoTest, IoEnter, IoClosed, IoNotify
<1>6. ASSUME NEW i \in Worker, Accepts(i) \/ ClosesClient(i)
      PROVE  WireTypes'
  <2>1. 0 \in 0 .. Window
    BY ClientAssumption
  <2>2. CASE Accepts(i)
    BY <2>2 DEF Accepts, WireTypes
  <2>3. CASE ClosesClient(i)
    BY <2>1, <2>3 DEF ClosesClient, WireTypes
  <2>. QED
    BY <1>6, <2>2, <2>3
<1>7. ASSUME NEW i \in Worker, Echoes(i)
      PROVE  WireTypes'
  <2>. PICK n : n = Least(up, RecvMax)
    OBVIOUS
  <2>1. up - n \in 0 .. Window /\ Least(Window, down + n) \in 0 .. Window
    BY InWindow, ClientAssumption DEF WireTypes
  <2>2. up' \in 0 .. Window /\ down' \in 0 .. Window /\ edge' \in BOOLEAN
        /\ mine' \in {"none", "open", "fin", "reset"}
    BY <1>7, <2>1 DEF Echoes, WireTypes
  <2>3. link = "held" /\ link' \in {"held", "reset"} /\ UNCHANGED owner
    BY <1>7 DEF Echoes
  <2>. QED
    BY <2>2, <2>3 DEF WireTypes
<1>8. ASSUME NEW i \in Worker, Leaves09(i)
      PROVE  WireTypes'
  BY <1>1, <1>8, DropsTypes DEF Leaves09
<1>9. CASE (MainServer \/ Controller \/ \E i \in Worker : SetsUp(i)) /\ UNCHANGED <<cvars, owner>>
  BY <1>1, <1>9 DEF cvars
<1>10. CASE Drops /\ UNCHANGED owner
  BY <1>10, DropsTypes
<1>11. CASE UNCHANGED vars
  BY <1>1, <1>11 DEF vars, cvars
<1>. QED
  BY <1>2, <1>3, <1>4, <1>5, <1>6, <1>7, <1>8, <1>9, <1>10, <1>11
  DEF Next, ClientStep, ServerStep

\* Types, and with them what relates the client's flag to its epoll instance
\* and its thread, and the connection to the worker that holds it
\* (MultiReactorClient.cpp:20-39, 65-75).
THEOREM Stage09TypeCorrect == Spec => []TypeOK
<1>1. Init => AllTypes
  <2>. SUFFICES ASSUME Init PROVE AllTypes
    OBVIOUS
  <2>1. LifeTypes
    <3>1. /\ <<>> \in Seq(Worker)
          /\ [i \in Worker |-> "none"] \in [Worker -> {"none", "setup", "serving", "exited"}]
      OBVIOUS
    <3>. QED
      BY <3>1, Zenon DEF Init, LifecycleInit, LifeTypes, LifecycleTypeOK
  <2>2. ThreadTypes
    <3>1. entered \in 0 .. Lines
      BY ClientAssumption DEF Init, ClientInit
    <3>2. ~crunning /\ crunning \in BOOLEAN
      BY DEF Init, ClientInit
    <3>. QED
      BY <3>1, <3>2 DEF Init, ClientInit, ThreadTypes
  <2>3. WireTypes
    <3>1. 0 \in 0 .. Window
      BY ClientAssumption
    <3>. QED
      BY <3>1 DEF Init, ClientInit, WireTypes
  <2>. QED
    BY <2>1, <2>2, <2>3 DEF AllTypes
<1>2. AllTypes /\ [Next]_vars => AllTypes'
  BY LifeStep, ThreadStep, WireStep DEF AllTypes
<1>3. AllTypes => TypeOK
  BY DEF AllTypes, LifeTypes, ThreadTypes, WireTypes, TypeOK, ClientTypeOK
<1>. QED
  BY <1>1, <1>2, <1>3, PTL DEF Spec
=============================================================================
