------------------------- MODULE MultiReactorClient -------------------------
(***************************************************************************)
(* 09_MultiReactorEngine/MultiReactorClient.cpp and the program client.cpp *)
(* that uses it: the main thread connects, sends lines and disconnects;    *)
(* the io thread waits for what the server sends and calls on_read_.  The  *)
(* two share running_ and epfd_, and the socket.                           *)
(***************************************************************************)
EXTENDS Integers

CONSTANTS
  Lines,        \* lines the user enters before "quit", at most
  LineSize,     \* bytes of a line
  Window,       \* bytes the kernel buffers in each direction
  RecvMax,      \* most bytes of one Recv (1023 in the code)
  ClientFaults  \* "epoll": epoll_create1 or EPOLL_CTL_ADD may fail

ASSUME ClientAssumption ==
  /\ Lines \in Nat /\ LineSize \in Nat \ {0}
  /\ Window \in Nat \ {0} /\ RecvMax \in Nat \ {0}

VARIABLES
  crunning,    \* running_
  epfd,        \* epfd_ is "none" (-1) or "open"
  io,          \* where the io thread is in ioLoop
  thread,      \* io_thread_: "none", "joinable" or "joined"
  cpc,         \* where the main thread is
  entered,     \* lines entered
  edge,        \* EPOLLET: something came since the last epoll_wait
  proc,        \* the process: "alive", "exited", "aborted" or "killed"
  link,        \* the server's end: "none", "queued", "held", "shut" or "reset"
  mine,        \* the client's end: "none", "open", "fin" or "reset"
  up, down     \* bytes on their way to the server and to the client

wire  == <<link, mine, up, down, edge>>
cvars == <<crunning, epfd, io, thread, cpc, entered, proc, wire>>

ClientTypeOK ==
  /\ crunning \in BOOLEAN /\ epfd \in {"none", "open"}
  /\ io \in {"none", "test", "enter", "waiting", "recv", "closed", "notify", "ended"}
  /\ thread \in {"none", "joinable", "joined"} /\ (thread = "none" <=> io = "none")
  /\ cpc \in {"connect", "on_connect", "input", "close", "join", "destruct", "members", "end"}
  /\ entered \in 0 .. Lines /\ edge \in BOOLEAN
  /\ proc \in {"alive", "exited", "aborted", "killed"}
  /\ link \in {"none", "queued", "held", "shut", "reset"}
  /\ mine \in {"none", "open", "fin", "reset"}
  /\ up \in 0 .. Window /\ down \in 0 .. Window
  /\ crunning => epfd = "open" /\ thread = "joinable"

Alive == proc = "alive"

EndedByServer == link \in {"shut", "reset"}

Least(m, n) == IF m < n THEN m ELSE n

\* The process ends, and the kernel closes the socket: with data unread that
\* is a reset.
Ends(how) ==
  /\ proc' = how
  /\ mine' = IF mine # "open" THEN mine ELSE IF down > 0 THEN "reset" ELSE "fin"
  /\ UNCHANGED <<link, up, down, edge>>

-----------------------------------------------------------------------------
(* The main thread. *)

\* connect, up to the start of the io thread.
Connected ==
  /\ Alive /\ cpc = "connect" /\ ~crunning
  /\ link' = "queued" /\ mine' = "open"
  /\ crunning' = TRUE /\ epfd' = "open" /\ io' = "test" /\ thread' = "joinable"
  /\ cpc' = "on_connect"
  /\ UNCHANGED <<entered, proc, up, down, edge>>

\* connect returns false, because no listening socket takes the connection or,
\* when one has, for want of an epoll instance; main returns, and the
\* destructor has nothing to disconnect.
ConnectFails(reached) ==
  /\ Alive /\ cpc = "connect"
  /\ reached => "epoll" \in ClientFaults
  /\ IF reached THEN link' = "queued" /\ mine' = "open" ELSE UNCHANGED <<link, mine>>
  /\ cpc' = "destruct"
  /\ UNCHANGED <<crunning, epfd, io, thread, entered, proc, up, down, edge>>

\* on_connect_()
OnConnect ==
  /\ Alive /\ cpc = "on_connect"
  /\ cpc' = "input"
  /\ UNCHANGED <<crunning, epfd, io, thread, entered, proc, wire>>

\* The user enters a line, and send passes on what the kernel has room for.
\* A server that has closed answers with a reset; after it SIGPIPE, which
\* nothing handles, may end the process.
Send ==
  /\ Alive /\ cpc = "input" /\ entered < Lines
  /\ entered' = entered + 1
  /\ UNCHANGED <<crunning, epfd, io, thread, cpc>>
  /\ \/ /\ crunning /\ ~EndedByServer
        /\ up' = Least(Window, up + LineSize)
        /\ UNCHANGED <<proc, link, mine, down, edge>>
     \/ /\ crunning /\ link = "shut"
        /\ link' = "reset" /\ edge' = TRUE /\ down' \in {0, down}
        /\ UNCHANGED <<proc, mine, up>>
     \/ crunning /\ link = "reset" /\ Ends("killed")
     \/ (crunning => link = "reset") /\ UNCHANGED <<proc, wire>>

\* Mutation: running_.load() instead.
Loads == UNCHANGED crunning

\* running_.exchange(false)
Exchanges == crunning' = FALSE

\* disconnect, called for "quit".
Quit ==
  /\ Alive /\ cpc = "input"
  /\ Exchanges
  /\ cpc' = IF crunning THEN "close" ELSE "destruct"
  /\ UNCHANGED <<epfd, io, thread, entered, proc, wire>>

\* Its ::close(epfd_).
CloseEpfd ==
  /\ Alive /\ cpc = "close"
  /\ epfd' = "none" /\ cpc' = "join"
  /\ UNCHANGED <<crunning, io, thread, entered, proc, wire>>

\* Mutation: the thread is detached.
Detaches == TRUE

\* io_thread_.join()
IoEnded == io = "ended"

Join ==
  /\ Alive /\ cpc = "join" /\ IoEnded
  /\ thread' = "joined" /\ cpc' = "destruct"
  /\ UNCHANGED <<crunning, epfd, io, entered, proc, wire>>

\* The destructor: its disconnect finds running_ false, as every way here has
\* left it; the callbacks are destroyed first ...
Destruct ==
  /\ Alive /\ cpc = "destruct"
  /\ cpc' = "members"
  /\ UNCHANGED <<crunning, epfd, io, thread, entered, proc, wire>>

\* ... then io_thread_, which must not be joinable, and the socket.
DestroyThread ==
  /\ Alive /\ cpc = "members"
  /\ cpc' = "end"
  /\ Ends(IF thread = "joinable" THEN "aborted" ELSE "exited")
  /\ UNCHANGED <<crunning, epfd, io, thread, entered>>

MainThread ==
  \/ OnConnect \/ Quit \/ CloseEpfd \/ Join \/ Destruct \/ DestroyThread

-----------------------------------------------------------------------------
(* The io thread. *)

\* while(running_.load())
IoTest ==
  /\ Alive /\ io = "test"
  /\ io' = IF crunning THEN "enter" ELSE "ended"
  /\ UNCHANGED <<crunning, epfd, thread, cpc, entered, proc, wire>>

\* epoll_wait fails on a descriptor that disconnect has closed ...
IoEnter ==
  /\ Alive /\ io = "enter"
  /\ io' = IF epfd = "open" THEN "waiting" ELSE "ended"
  /\ UNCHANGED <<crunning, epfd, thread, cpc, entered, proc, wire>>

\* Mutation: epoll_wait(epfd_, cev, 10, -1).
NoTimeout == FALSE

\* The timeout of 100 ms, or a signal.
Timeout == TRUE

\* ... but one that has begun goes on, to an event or to its timeout.
IoWait ==
  /\ Alive /\ io = "waiting"
  /\ \/ edge /\ edge' = FALSE /\ io' = "recv"
     \/ ~edge /\ Timeout /\ io' = "test" /\ UNCHANGED edge
  /\ UNCHANGED <<crunning, epfd, thread, cpc, entered, proc, link, mine, up, down>>

\* Mutation: one Recv per event.
OneRecv == "test"

\* After on_read_ the loop receives again.
NextRecv == "recv"

\* Recv: data for on_read_, the end or an error, or EAGAIN.
IoRecv ==
  /\ Alive /\ io = "recv"
  /\ \/ /\ down > 0
        /\ down' = down - Least(down, RecvMax) /\ io' = NextRecv
     \/ down = 0 /\ EndedByServer /\ io' = "closed" /\ UNCHANGED down
     \/ down = 0 /\ ~EndedByServer /\ io' = "test" /\ UNCHANGED down
  /\ UNCHANGED <<crunning, epfd, thread, cpc, entered, proc, link, mine, up, edge>>

\* Mutation: running_ is left for disconnect to clear.
LeavesRunning == UNCHANGED crunning

\* running_.store(false)
ClearsRunning == crunning' = FALSE

IoClosed ==
  /\ Alive /\ io = "closed"
  /\ ClearsRunning /\ io' = "notify"
  /\ UNCHANGED <<epfd, thread, cpc, entered, proc, wire>>

\* on_disconnect_(); return;
IoNotify ==
  /\ Alive /\ io = "notify"
  /\ io' = "ended"
  /\ UNCHANGED <<crunning, epfd, thread, cpc, entered, proc, wire>>

IoThread == IoTest \/ IoEnter \/ IoWait \/ IoRecv \/ IoClosed \/ IoNotify

ClientInit ==
  /\ crunning = FALSE /\ epfd = "none" /\ io = "none" /\ thread = "none"
  /\ cpc = "connect" /\ entered = 0 /\ proc = "alive"
  /\ link = "none" /\ mine = "none" /\ up = 0 /\ down = 0 /\ edge = FALSE
=============================================================================
