----------------------------- MODULE EchoKernel -----------------------------
(***************************************************************************)
(* What the echo servers of stages 01 to 08 run on: TCP connections as the *)
(* server's kernel keeps them, and the calls of TcpSocket on them.  The    *)
(* bytes of a connection are units <<c, k>>, the k-th of client c.         *)
(***************************************************************************)
EXTENDS TcpSocket, Sequences

CONSTANTS
  Conns,       \* the connections clients make
  Listeners,   \* listening sockets: one, or one per thread (SO_REUSEPORT)
  Fresh,       \* the file behind a socket neither bound nor connected
  Threads,     \* threads of the server
  SendMax,     \* units client c may send
  TxMax,       \* units the kernel buffers towards a client
  RecvMax,     \* most units one Recv returns (1023 in the code)
  Faults       \* the calls that may fail

ASSUME KernelAssumption ==
  /\ Files = Conns \cup Listeners \cup {Fresh}
  /\ Conns \cap Listeners = {} /\ Fresh \notin Conns \cup Listeners
  /\ SendMax \in [Conns -> Nat]
  /\ TxMax \in Nat \ {0} /\ RecvMax \in Nat \ {0}

VARIABLES
  alive,       \* the server's process has not ended
  pc,          \* where each of its threads is
  buf,         \* what a thread has received and not yet sent
  backlog,     \* connections in the accept queue of a listening socket
  accepted,    \* connections that have left it
  peer,        \* the client's end: "open", "closed" or "reset"
  sent,        \* units each client has sent
  taken,       \* of these, the ones no longer in the receive buffer
  echoed,      \* units sent to each client
  got          \* of these, the ones it has read

process == <<sock, fdtab, alive, pc, buf>>
streams == <<peer, sent, taken, echoed, got>>
kvars   == <<process, backlog, accepted, streams>>

KernelTypeOK ==
  /\ SocketTypeOK
  /\ alive \in BOOLEAN
  /\ buf \in [Threads -> Seq(Conns \X Nat)]
  /\ backlog \in [Listeners -> SUBSET Conns] /\ accepted \subseteq Conns
  /\ peer \in [Conns -> {"open", "closed", "reset"}]
  /\ \A c \in Conns : got[c] \in 0 .. Len(echoed[c]) /\ taken[c] \in 0 .. sent[c]
  /\ \A c \in Conns : sent[c] \in 0 .. SendMax[c] /\ Len(echoed[c]) <= got[c] + TxMax

Goto(t, label) == pc' = [pc EXCEPT ![t] = label]

\* The process ends, and with it every descriptor.
Exit ==
  /\ alive' = FALSE
  /\ sock' = [o \in Objects |-> NoFd]
  /\ fdtab' = [f \in Fds |-> NoFile]

-----------------------------------------------------------------------------
(* The clients, any that speak TCP. *)

Listening == {l \in Listeners : \E f \in Fds : fdtab[f] = l}

Arrived(c) == c \in accepted \/ \E l \in Listeners : c \in backlog[l]

\* The server holds the connection open; it has closed it, or never took it
\* from the queue of a listening socket that is gone.
ServerOpen(c) == \E f \in Fds : fdtab[f] = c

ServerEnded(c) ==
  /\ Arrived(c) /\ ~ServerOpen(c)
  /\ c \in accepted \/ \E l \in Listeners \ Listening : c \in backlog[l]

Unread(c) == sent[c] - taken[c]

InTransit(c) == Len(echoed[c]) - got[c]

\* The kernel hands a new connection to one of the listening sockets.
ClientConnects(c) ==
  /\ ~Arrived(c)
  /\ \E l \in Listening : backlog' = [backlog EXCEPT ![l] = @ \cup {c}]
  /\ UNCHANGED <<process, accepted, streams>>

ClientSends(c, n) ==
  /\ Arrived(c) /\ ~ServerEnded(c) /\ peer[c] = "open"
  /\ sent[c] + n <= SendMax[c]
  /\ sent' = [sent EXCEPT ![c] = @ + n]
  /\ UNCHANGED <<process, backlog, accepted, peer, taken, echoed, got>>

ClientReads(c, n) ==
  /\ peer[c] = "open" /\ n \in 1 .. InTransit(c)
  /\ got' = [got EXCEPT ![c] = @ + n]
  /\ UNCHANGED <<process, backlog, accepted, peer, sent, taken, echoed>>

\* Closing with data unread resets the connection.
ClientCloses(c) ==
  /\ Arrived(c) /\ peer[c] = "open"
  /\ peer' = [peer EXCEPT ![c] = IF InTransit(c) > 0 THEN "reset" ELSE "closed"]
  /\ UNCHANGED <<process, backlog, accepted, sent, taken, echoed, got>>

\* A reset may take the data not yet received with it.
ClientResets(c) ==
  /\ Arrived(c) /\ peer[c] # "reset"
  /\ peer' = [peer EXCEPT ![c] = "reset"]
  /\ \E n \in {taken[c], sent[c]} : taken' = [taken EXCEPT ![c] = n]
  /\ UNCHANGED <<process, backlog, accepted, sent, echoed, got>>

AnyClient(c) ==
  \/ ClientConnects(c) \/ ClientCloses(c) \/ ClientResets(c)
  \/ \E n \in 1 .. SendMax[c] : ClientSends(c, n) \/ ClientReads(c, n)

-----------------------------------------------------------------------------
(* The calls of the server. *)

\* Bind and Listen of object o, which is l from now on.
Listens(o, l) ==
  \E f \in Fds : Lowest(f) /\ Become(Opened(Tables, o, f, l))

\* accept takes connection c from the queue of listener l ...
Takes(l, c) ==
  /\ c \in backlog[l]
  /\ backlog' = [backlog EXCEPT ![l] = @ \ {c}]
  /\ accepted' = accepted \cup {c}

\* ... and makes it the socket in object o.
Accepts(l, o) ==
  \E c \in Conns, f \in Fds :
    Takes(l, c) /\ Lowest(f) /\ Become(Opened(Tables, o, f, c))

\* Mutation: all threads receive into one buffer.
ReceivedShared(t, o) ==
  LET c == FileOf(o)
      n == IF Unread(c) < RecvMax THEN Unread(c) ELSE RecvMax
  IN  /\ c \in Conns /\ Unread(c) > 0
      /\ buf' = [u \in Threads |-> [i \in 1 .. n |-> <<c, taken[c] + i>>]]
      /\ taken' = [taken EXCEPT ![c] = @ + n]

\* recv by thread t on object o: data ...
Received(t, o) ==
  LET c == FileOf(o)
      n == IF Unread(c) < RecvMax THEN Unread(c) ELSE RecvMax
  IN  /\ c \in Conns /\ Unread(c) > 0
      /\ buf' = [buf EXCEPT ![t] = [i \in 1 .. n |-> <<c, taken[c] + i>>]]
      /\ taken' = [taken EXCEPT ![c] = @ + n]

\* ... 0 or an error, also for a descriptor that is no connection ...
AtEnd(o) ==
  LET c == FileOf(o) IN c \in Conns => Unread(c) = 0 /\ peer[c] # "open"

\* ... and otherwise EAGAIN, or the thread blocks.
NothingYet(o) ==
  LET c == FileOf(o) IN c \in Conns /\ Unread(c) = 0 /\ peer[c] = "open"

\* The first n units of the buffer of thread t go to the client of object o.
\* One that has closed answers with a reset.
Transmits(t, o, n) ==
  LET c == FileOf(o)
  IN  IF peer[c] = "open"
      THEN echoed' = [echoed EXCEPT ![c] = @ \o SubSeq(buf[t], 1, n)] /\ UNCHANGED peer
      ELSE \E p \in {"closed", "reset"} :
             peer' = [peer EXCEPT ![c] = p] /\ UNCHANGED echoed

Room(o) == TxMax - InTransit(FileOf(o))

\* After a reset send fails; SIGPIPE, which nothing handles, may then end the
\* process.
SendBroken(o) == LET x == FileOf(o) IN x \in Conns => peer[x] = "reset"

Killed == Exit

\* send on a non-blocking socket takes what there is room for; its result is
\* not looked at, so the rest is lost.
SendNonBlocking(t, o, next) ==
  \/ /\ IF SendBroken(o)
        THEN UNCHANGED <<peer, echoed>>
        ELSE Transmits(t, o, IF Len(buf[t]) < Room(o) THEN Len(buf[t]) ELSE Room(o))
     /\ buf' = [buf EXCEPT ![t] = <<>>]
     /\ Goto(t, next)
     /\ UNCHANGED <<sock, fdtab, alive>>
  \/ /\ SendBroken(o) /\ Killed
     /\ UNCHANGED <<pc, buf, peer, echoed>>

\* send on a blocking socket waits for room until all is taken.
SendBlocking(t, o, next) ==
  \/ /\ ~SendBroken(o) /\ Room(o) > 0
     /\ Transmits(t, o, 1)
     /\ buf' = [buf EXCEPT ![t] = Tail(@)]
     /\ IF Len(buf[t]) = 1 THEN Goto(t, next) ELSE UNCHANGED pc
     /\ UNCHANGED <<sock, fdtab, alive>>
  \/ /\ SendBroken(o)
     /\ buf' = [buf EXCEPT ![t] = <<>>]
     /\ Goto(t, next)
     /\ UNCHANGED <<sock, fdtab, alive, peer, echoed>>
  \/ /\ SendBroken(o) /\ Killed
     /\ UNCHANGED <<pc, buf, peer, echoed>>

-----------------------------------------------------------------------------

KernelInit ==
  /\ SocketInit
  /\ alive = TRUE
  /\ buf = [t \in Threads |-> <<>>]
  /\ backlog = [l \in Listeners |-> {}] /\ accepted = {}
  /\ peer = [c \in Conns |-> "open"]
  /\ sent = [c \in Conns |-> 0] /\ taken = sent /\ got = sent
  /\ echoed = [c \in Conns |-> <<>>]
=============================================================================
