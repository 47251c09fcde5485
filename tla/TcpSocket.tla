------------------------------ MODULE TcpSocket ------------------------------
(***************************************************************************)
(* The class TcpSocket of stages 03 to 10: an object that owns at most one *)
(* descriptor, moved but never copied, closed by its destructor.  Between  *)
(* the stages the class changes in one respect that matters here: in 03    *)
(* and 04 its constructor opens a socket, from 05 on Bind and Connect do.  *)
(*                                                                         *)
(* The operators are functions of the pair of tables (the objects', the    *)
(* kernel's), so that a statement of a program that constructs, assigns    *)
(* and destroys is their composition.  TcpSpec is any use of the class.    *)
(***************************************************************************)
EXTENDS Integers, FiniteSets

CONSTANTS
  Objects,     \* the places where a TcpSocket may live
  Fds,         \* descriptors the process may have open
  Files,       \* what a descriptor may refer to
  NoFile

ASSUME SocketAssumption == Fds \subseteq Nat /\ NoFile \notin Files

VARIABLES
  sock,        \* sock_fd_ of each object; NoFd also where no object is
  fdtab        \* the file each descriptor refers to, NoFile when it is free

\* The value of sock_fd_ in an object without a socket.
NoFd == -1

svars == <<sock, fdtab>>

SocketTypeOK ==
  /\ sock \in [Objects -> Fds \cup {NoFd}]
  /\ fdtab \in [Fds -> Files \cup {NoFile}]

Tables == [sock |-> sock, fdtab |-> fdtab]

Become(t) == sock' = t.sock /\ fdtab' = t.fdtab

IsValid(o) == sock[o] # NoFd

Free == {f \in Fds : fdtab[f] = NoFile}

\* The kernel gives the lowest free descriptor.
Lowest(f) == f \in Free /\ \A g \in Free : f <= g

\* The file an object's descriptor refers to.
FileOf(o) == IF IsValid(o) THEN fdtab[sock[o]] ELSE NoFile

-----------------------------------------------------------------------------
(* The operations. *)

\* A system call has returned the new descriptor f for file x.
Opened(t, o, f, x) ==
  [sock |-> [t.sock EXCEPT ![o] = f], fdtab |-> [t.fdtab EXCEPT ![f] = x]]

\* if(sock_fd_ >= 0) close(sock_fd_);
Closing(t, o) ==
  [sock  |-> t.sock,
   fdtab |-> IF t.sock[o] = NoFd THEN t.fdtab ELSE [t.fdtab EXCEPT ![t.sock[o]] = NoFile]]

\* ~TcpSocket, after which nothing lives at o.
Destroyed(t, o) ==
  [sock |-> [t.sock EXCEPT ![o] = NoFd], fdtab |-> Closing(t, o).fdtab]

\* The end of a scope, or of a container, in which the objects in os live.
DestroyedAll(t, os) ==
  [sock  |-> [o \in Objects |-> IF o \in os THEN NoFd ELSE t.sock[o]],
   fdtab |-> [f \in Fds |-> IF \E o \in os : t.sock[o] = f THEN NoFile ELSE t.fdtab[f]]]

\* Mutation: the source keeps its descriptor.
MovedCopying(t, to, from) ==
  [sock |-> [t.sock EXCEPT ![to] = t.sock[from]], fdtab |-> t.fdtab]

\* TcpSocket(TcpSocket&&)
Moved(t, to, from) ==
  [sock |-> [t.sock EXCEPT ![to] = t.sock[from], ![from] = NoFd], fdtab |-> t.fdtab]

\* Mutation: the descriptor held before is forgotten.
AssignedLeaking(t, to, from) == IF to = from THEN t ELSE Moved(t, to, from)

\* operator=(TcpSocket&&)
Assigned(t, to, from) ==
  IF to = from THEN t ELSE Moved(Closing(t, to), to, from)

-----------------------------------------------------------------------------
(* Any use of the class. *)

\* Bind and Connect open a socket unless there is one, and keep it also when
\* bind or connect fails; socket fails when no descriptor is free.
Open(o) ==
  /\ IF IsValid(o) \/ Free = {}
     THEN UNCHANGED svars
     ELSE \E f \in Fds, x \in Files : Lowest(f) /\ Become(Opened(Tables, o, f, x))

\* to is constructed from the result of from.Accept(), which is -1 when there
\* is nothing to accept or no descriptor.
AcceptInto(to, from) ==
  /\ IsValid(from) /\ ~IsValid(to)
  /\ \E f \in Fds, x \in Files : Lowest(f) /\ Become(Opened(Tables, to, f, x))

MoveInto(to, from) == to # from /\ ~IsValid(to) /\ Become(Moved(Tables, to, from))

Assign(to, from) == Become(Assigned(Tables, to, from))

Destroy(o) == Become(Destroyed(Tables, o))

SocketInit ==
  /\ sock = [o \in Objects |-> NoFd]
  /\ fdtab = [f \in Fds |-> NoFile]

SocketNext ==
  \/ \E o \in Objects : Open(o) \/ Destroy(o)
  \/ \E o, p \in Objects : AcceptInto(o, p) \/ MoveInto(o, p) \/ Assign(o, p)

SocketSpec == SocketInit /\ [][SocketNext]_svars

\* Every open descriptor is held by exactly one object, which will close it,
\* and no object holds a closed one: through any sequence of moves,
\* assignments, failed calls and destructions nothing leaks and nothing is
\* closed twice, which 08.md:30-32 names as the danger
\* (TcpSocket.cpp:15-37, 71-77).
SingleOwner ==
  /\ \A o \in Objects : IsValid(o) => fdtab[sock[o]] # NoFile
  /\ \A o, p \in Objects : o # p /\ IsValid(o) => sock[o] # sock[p]
  /\ \A f \in Fds : fdtab[f] # NoFile => \E o \in Objects : sock[o] = f
=============================================================================
