------------------------------- MODULE Epoll -------------------------------
(* epoll as the reactors of stages 07 and 08 use it, and the part of their *)
(* event loops that is the same in each of them.                           *)
EXTENDS EchoKernel

CONSTANTS
  Reactors,    \* the threads with an epoll instance
  BatchMax     \* most events one epoll_wait returns (1024 in the code)

ASSUME EpollAssumption == Reactors \subseteq Threads /\ BatchMax \in Nat \ {0}

VARIABLES
  batch,       \* the descriptors of a reactor's events not yet looked at
  armed,       \* the registrations that are armed
  cur          \* client_fd of a thread, of its event or of its job

evars == <<batch, armed, cur>>

EpollTypeOK ==
  /\ KernelTypeOK
  /\ batch \in [Reactors -> SUBSET Fds] /\ armed \in [Reactors -> SUBSET Fds]
  /\ cur \in [Threads -> Fds \cup {NoFd}]

Readable(f) ==
  LET x == fdtab[f]
  IN  \/ x \in Listeners /\ backlog[x] # {}
      \/ x \in Conns /\ (Unread(x) > 0 \/ peer[x] # "open")

Ready(r) == {f \in armed[r] : Readable(f)}

\* What one epoll_wait of r may return: all that is ready, or as much as fits.
Reported(r, ready) ==
  {ev \in SUBSET ready :
     \/ ev = ready /\ Cardinality(ev) <= BatchMax
     \/ Cardinality(ev) = BatchMax}

\* Mutation: clients are registered without EPOLLONESHOT.
OneShotMissing(ev) == {}

\* The events of client sockets, which EPOLLONESHOT disarms, in ev.
OneShot(ev) == {f \in ev : fdtab[f] \in Conns}

Arm(r, f) == armed' = [armed EXCEPT ![r] = @ \cup {f}]

EpollInit ==
  /\ KernelInit
  /\ batch = [r \in Reactors |-> {}] /\ armed = batch
  /\ cur = [t \in Threads |-> NoFd]
=============================================================================
