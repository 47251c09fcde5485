-------------------------- MODULE EchoStages_proofs --------------------------
(***************************************************************************)
(* Proofs about EchoStages for any number of connections, workers,         *)
(* descriptors and rounds, and for each of the eight stages: who owns      *)
(* which descriptor, the types, when a server drops a client, the totals   *)
(* of the latency client, and that the servers implement EchoService.      *)
(*                                                                         *)
(* Every step of a server has the same shape, Served: it opens one socket  *)
(* or closes those of some objects (Effect), moves one connection between  *)
(* the queues (Queued), reads, writes or drops units (Data).  A step of a  *)
(* client, or of the outside, leaves the process alone (Outside).  That    *)
(* the invariant is kept is proved once for the shapes; each handler is    *)
(* then shown to have its shape, and to keep the control invariant CInv.   *)
(* What the clients get back is proved on top: a server's step is also a   *)
(* Turn, in which one thread receives (Reading) or sends (Writing) and all *)
(* others keep what they are about to send.                                *)
(***************************************************************************)
EXTENDS EchoStages, TcpSocket_proofs, SequenceTheorems, FiniteSetTheorems, WellFoundedInduction

-----------------------------------------------------------------------------
(* The inductive invariant. *)

Labels == {"none", "setup", "epoll", "accept", "greet", "recv", "log", "send",
           "close", "spin", "poll", "dispatch", "exited", "returned"}

AllStages == {"01_skeleton", "02_EchoLoop", "03_SocketClass", "04_MultiThread",
              "05_Latency", "06_NonBlock", "07_epoll", "08_MultiReactor"}

\* The stages that accept into the variable client of main, and where main is
\* while it has a client.
OneClient  == {"01_skeleton", "02_EchoLoop", "03_SocketClass", "06_NonBlock"}
WithClient == {"greet", "recv", "send", "close", "poll"}

\* What the objects of main hold.
MainPlaces ==
  /\ sock[Server] # NoFd => pc[Main] # "setup"
  /\ sock[Client] # NoFd => stage \in OneClient /\ pc[Main] \in WithClient
  /\ sock[Temporary] = NoFd

\* A thread has the client it was created for.
ThreadPlaces ==
  \A c \in Conns : sock[Own(c)] # NoFd => c \in accepted /\ fdtab[sock[Own(c)]] = c

\* An entry of client_map holds the descriptor it is keyed by.
EntryPlaces ==
  \A f \in Fds : /\ sock[Entry07(f)] \in {NoFd, f}
                 /\ \A r \in Workers : sock[Entry08(r, f)] \in {NoFd, f}

WorkerPlaces ==
  \A r \in Workers : /\ sock[Client08(r)] = NoFd
                     /\ sock[Listen08(r)] # NoFd => pc[r] # "setup"

PlacesInv == MainPlaces /\ ThreadPlaces /\ EntryPlaces /\ WorkerPlaces

\* A connection is in one queue, or has been accepted.
QueuesInv ==
  /\ backlog \in [Listeners -> SUBSET Conns] /\ accepted \subseteq Conns
  /\ \A l \in Listeners : backlog[l] \cap accepted = {}
  /\ \A l, m \in Listeners : l # m => backlog[l] \cap backlog[m] = {}

StreamTypes ==
  /\ alive \in BOOLEAN /\ peer \in [Conns -> {"open", "closed", "reset"}]
  /\ sent \in [Conns -> Nat] /\ taken \in [Conns -> Nat] /\ got \in [Conns -> Nat]
  /\ echoed \in [Conns -> Seq(Conns \X Nat)] /\ buf \in [Threads -> Seq(Conns \X Nat)]

BoundsInv ==
  \A c \in Conns : /\ got[c] <= Len(echoed[c]) /\ Len(echoed[c]) <= got[c] + TxMax
                   /\ taken[c] <= sent[c] /\ sent[c] <= SendMax[c]

EventTypes ==
  /\ batch \in [Reactors -> SUBSET Fds] /\ armed \in [Reactors -> SUBSET Fds]
  /\ cur \in [Threads -> Fds \cup {NoFd}]

\* A reactor receives and sends for the event it is at.
CurInv ==
  stage \in {"07_epoll", "08_MultiReactor"} =>
    \A r \in Reactors : pc[r] \in {"recv", "send"} => cur[r] \in Fds

\* It registers the listening socket it has opened.
ListenInv ==
  alive => /\ stage = "07_epoll" /\ pc[Main] = "accept" => sock[Server] \in Fds
           /\ stage = "08_MultiReactor" =>
                \A r \in Workers : pc[r] = "epoll" => sock[Listen08(r)] \in Fds

\* A blocking send is entered with something to send.
SendInv ==
  stage \in Blocking => \A t \in Threads : pc[t] = "send" => buf[t] # <<>>

\* 04 logs between Recv and what follows: an empty buffer there is the end.
LogInv ==
  stage = "04_MultiThread" =>
    \A c \in Conns : /\ pc[c] = "recv" \/ c \notin accepted => buf[c] = <<>>
                     /\ pc[c] = "log" /\ buf[c] = <<>> /\ sock[Own(c)] # NoFd => peer[c] # "open"

\* 01 greets a client to which nothing has been sent.
GreetInv ==
  alive /\ stage = "01_skeleton" =>
    /\ pc[Main] \in {"setup", "accept", "greet"} => \A c \in Conns : echoed[c] = <<>>
    /\ pc[Main] = "greet" => FileOf(Client) \in Conns

OInv ==
  /\ stage \in AllStages /\ pc \in [Threads -> Labels]
  /\ Owned(sock, fdtab) /\ PlacesInv /\ QueuesInv

DInv == StreamTypes /\ BoundsInv /\ EventTypes

CInv == CurInv /\ ListenInv /\ SendInv /\ LogInv /\ GreetInv

Inv == OInv /\ DInv /\ CInv

-----------------------------------------------------------------------------
(* The two ways in which a step changes the tables: one socket is opened,  *)
(* or the sockets of some objects are closed.                              *)

\* The threads that send back to clients, and the object from which one does.
Sender(t) ==
  \/ stage \in {"02_EchoLoop", "03_SocketClass", "06_NonBlock", "07_epoll"} /\ t = Main
  \/ stage \in {"04_MultiThread", "05_Latency"} /\ t \in Conns
  \/ stage = "08_MultiReactor" /\ t \in Workers

Holder(t) == IF t \in Conns THEN Own(t)
             ELSE IF t \in Workers THEN Entry08(t, cur[t])
             ELSE IF stage = "07_epoll" THEN Entry07(cur[t]) ELSE Client

\* A thread that has received something which is still to be sent.
Sending(t) ==
  Sender(t) /\ \/ pc[t] = "send"
               \/ stage = "04_MultiThread" /\ pc[t] = "log" /\ buf[t] # <<>>

\* No such thread has its client in one of the objects in os.
Spares(os) == \A t \in Threads : Sending(t) => Holder(t) \notin os

Opens(o, f, x) ==
  /\ f \in Free /\ sock[o] = NoFd
  /\ sock' = [sock EXCEPT ![o] = f] /\ fdtab' = [fdtab EXCEPT ![f] = x]

Closes(os) ==
  /\ sock' = [o \in Objects |-> IF o \in os THEN NoFd ELSE sock[o]]
  /\ fdtab' = [f \in Fds |-> IF \E o \in os : sock[o] = f THEN NoFile ELSE fdtab[f]]

\* Where a program opens a socket ...
MayOpen(o, f, x) ==
  \/ o = Server /\ pc'[Main] # "setup"
  \/ o = Client /\ stage \in OneClient /\ pc'[Main] \in WithClient
  \/ \E c \in Conns : o = Own(c) /\ x = c /\ c \in accepted' /\ pc'[c] = "recv"
  \/ o = Entry07(f)
  \/ \E r \in Workers : o = Entry08(r, f)
  \/ \E r \in Workers : o = Listen08(r) /\ pc'[r] # "setup"

\* A connection is accepted once.
Arrives(x) == x \in Conns => x \in accepted' \ accepted

\* ... and when it closes some: it ends, a worker returns, or the client has gone.
MayClose(os) ==
  \/ ~alive'
  \/ /\ Spares(os)
     /\ \/ \E r \in Workers : pc[r] # "returned" /\ pc'[r] = "returned"
        \/ \E o \in Objects : os = {o} /\ (FileOf(o) \in Conns => peer[FileOf(o)] # "open")

Effect ==
  \/ UNCHANGED <<sock, fdtab>>
  \/ \E o \in Objects, f \in Fds, x \in Files : Opens(o, f, x) /\ MayOpen(o, f, x) /\ Arrives(x)
  \/ \E os \in SUBSET Objects : Closes(os) /\ MayClose(os)

Labelled ==
  /\ pc' \in [Threads -> Labels] /\ UNCHANGED stage
  /\ \A t \in Threads : pc'[t] = "setup" => pc[t] = "setup"
  /\ stage \in OneClient /\ pc[Main] \in WithClient => pc'[Main] \in WithClient

Queued ==
  \/ UNCHANGED <<backlog, accepted>>
  \/ \E l \in Listeners, c \in Conns : Takes(l, c)
  \/ \E l \in Listeners, c \in Conns :
       ~Arrived(c) /\ backlog' = [backlog EXCEPT ![l] = @ \cup {c}] /\ UNCHANGED accepted

-----------------------------------------------------------------------------

\* What the assumptions say of the threads.
LEMMA ThreadFacts ==
  /\ Main \in Threads /\ Conns \subseteq Threads /\ Workers \subseteq Threads
  /\ Main \notin Conns /\ Main \notin Workers /\ Conns \cap Workers = {}
  /\ Main \in Reactors /\ Workers \subseteq Reactors /\ Port \in Listeners /\ Workers \subseteq Listeners
  /\ Conns \subseteq Files /\ Listeners \subseteq Files /\ Fresh \in Files /\ NoFile \notin Files
  /\ Port \notin Conns /\ Fresh \notin Conns
  BY StageAssumption, KernelAssumption, SocketAssumption

\* NoFd is not a descriptor.
LEMMA FdFacts == NoFd \notin Fds
  BY SocketAssumption DEF NoFd

\* The places of the socket objects are objects, those of main different ones.
LEMMA PlaceFacts ==
  /\ {Server, Client, Temporary} \subseteq Objects
  /\ Server # Client /\ Server # Temporary /\ Client # Temporary
  /\ \A c \in Conns : Own(c) \in Objects /\ Own(c) \notin {Server, Client, Temporary}
  /\ \A f \in Fds : Entry07(f) \in Objects /\ Entry07(f) \notin {Server, Client, Temporary}
  /\ \A r \in Workers : /\ Listen08(r) \in Objects /\ Client08(r) \in Objects
                        /\ Listen08(r) \notin {Server, Client, Temporary}
                        /\ Client08(r) \notin {Server, Client, Temporary}
                        /\ Listen08(r) # Client08(r) 
  /\ \A r \in Workers, f \in Fds : /\ Entry08(r, f) \in Objects
                                   /\ Entry08(r, f) \notin {Server, Client, Temporary}
<1>1. Objects = Places /\ "main" \notin Conns /\ "client_map" \notin Conns
      /\ "client_map" \notin Workers
  BY PlacesAssumption
<1>2. {Server, Client, Temporary} \subseteq Objects
  BY <1>1 DEF Places
<1>3. Server # Client /\ Server # Temporary /\ Client # Temporary
  BY DEF Server, Client, Temporary
<1>4. ASSUME NEW c \in Conns PROVE Own(c) \in Objects /\ Own(c) \notin {Server, Client, Temporary}
  BY <1>1 DEF Places, Own, Server, Client, Temporary
<1>5. ASSUME NEW f \in Fds
      PROVE  Entry07(f) \in Objects /\ Entry07(f) \notin {Server, Client, Temporary}
  BY <1>1 DEF Places, Entry07, Server, Client, Temporary
<1>6. ASSUME NEW r \in Workers
      PROVE  /\ Listen08(r) \in Objects /\ Client08(r) \in Objects
             /\ Listen08(r) \notin {Server, Client, Temporary}
             /\ Client08(r) \notin {Server, Client, Temporary} /\ Listen08(r) # Client08(r) 
  <2>1. Locals(r) \subseteq Objects
    BY <1>1 DEF Places
  <2>. QED
    BY <2>1 DEF Locals, Listen08, Client08, Server, Client, Temporary
<1>7. ASSUME NEW r \in Workers, NEW f \in Fds
      PROVE  Entry08(r, f) \in Objects /\ Entry08(r, f) \notin {Server, Client, Temporary}
  <2>1. Locals(r) \subseteq Objects
    BY <1>1 DEF Places
  <2>2. Entry08(r, f) \notin {Server, Client, Temporary}
    BY DEF Entry08, Server, Client, Temporary
  <2>. QED
    BY <2>1, <2>2 DEF Locals
<1>. QED
  BY <1>2, <1>3, <1>4, <1>5, <1>6, <1>7

\* Objects that bear different names are different.
LEMMA PlacesDiffer ==
  /\ \A c, d \in Conns : Own(c) = Own(d) => c = d
  /\ \A f, g \in Fds : Entry07(f) = Entry07(g) => f = g
  /\ \A q, r \in Workers, f, g \in Fds : Entry08(q, f) = Entry08(r, g) => q = r /\ f = g
  /\ \A q, r \in Workers : Listen08(q) = Listen08(r) => q = r
  /\ \A q, r \in Workers : Listen08(q) # Client08(r)
  /\ \A c \in Conns, f \in Fds : Own(c) # Entry07(f)
  /\ \A c \in Conns, r \in Workers : Own(c) # Listen08(r) /\ Own(c) # Client08(r)
  /\ \A c \in Conns, r \in Workers, f \in Fds : Own(c) # Entry08(r, f)
  /\ \A f \in Fds, r \in Workers : Entry07(f) # Listen08(r) /\ Entry07(f) # Client08(r)
  /\ \A f, g \in Fds, r \in Workers : Entry07(f) # Entry08(r, g)
  /\ \A f \in Fds, q, r \in Workers : Entry08(q, f) # Listen08(r) /\ Entry08(q, f) # Client08(r)
<1>1. "client_map" \notin Conns /\ "client_map" \notin Workers
  BY PlacesAssumption
<1>2. \A c, d \in Conns : Own(c) = Own(d) => c = d
  BY DEF Own
<1>3. \A f, g \in Fds : Entry07(f) = Entry07(g) => f = g
  BY DEF Entry07
<1>4. \A q, r \in Workers, f, g \in Fds : Entry08(q, f) = Entry08(r, g) => q = r /\ f = g
  BY DEF Entry08
<1>5. \A q, r \in Workers : (Listen08(q) = Listen08(r) => q = r) /\ Listen08(q) # Client08(r)
  BY DEF Listen08, Client08
<1>6. \A c \in Conns, f \in Fds : Own(c) # Entry07(f)
  BY <1>1 DEF Own, Entry07
<1>7. \A c \in Conns, r \in Workers : Own(c) # Listen08(r) /\ Own(c) # Client08(r)
  BY DEF Own, Listen08, Client08
<1>8. \A c \in Conns, r \in Workers, f \in Fds : Own(c) # Entry08(r, f)
  BY DEF Own, Entry08
<1>9. \A f \in Fds, r \in Workers : Entry07(f) # Listen08(r) /\ Entry07(f) # Client08(r)
  BY <1>1 DEF Entry07, Listen08, Client08
<1>10. \A f, g \in Fds, r \in Workers : Entry07(f) # Entry08(r, g)
  BY DEF Entry07, Entry08
<1>11. \A f \in Fds, q, r \in Workers : Entry08(q, f) # Listen08(r) /\ Entry08(q, f) # Client08(r)
  BY DEF Entry08, Listen08, Client08
<1>. QED
  BY <1>2, <1>3, <1>4, <1>5, <1>6, <1>7, <1>8, <1>9, <1>10, <1>11

-----------------------------------------------------------------------------

\* Destroying the objects of os closes what they hold.
LEMMA DestroyedAllOwned ==
  ASSUME NEW s, NEW d, NEW os \in SUBSET Objects, Owned(s, d)
  PROVE  Owned([o \in Objects |-> IF o \in os THEN NoFd ELSE s[o]],
               [f \in Fds |-> IF \E o \in os : s[o] = f THEN NoFile ELSE d[f]])
  BY SocketAssumption DEF Owned, NoFd

\* Whatever a step opens or closes, ownership stays as it was.
LEMMA OwnedKept == ASSUME Owned(sock, fdtab), Effect PROVE Owned(sock', fdtab')
<1>1. ASSUME NEW o \in Objects, NEW f \in Fds, NEW x \in Files, Opens(o, f, x)
      PROVE  Owned(sock', fdtab')
  <2>1. /\ sock[o] = NoFd /\ fdtab[f] = NoFile
        /\ sock' = [sock EXCEPT ![o] = f] /\ fdtab' = [fdtab EXCEPT ![f] = x]
    BY <1>1 DEF Opens, Free
  <2>. QED
    BY <2>1, OpenedOwned
<1>2. ASSUME NEW os \in SUBSET Objects, Closes(os) PROVE Owned(sock', fdtab')
  BY <1>2, DestroyedAllOwned DEF Closes
<1>. QED
  BY <1>1, <1>2 DEF Effect

\* What a step does to one object.
Keeps(p) == \/ sock'[p] = NoFd
            \/ sock'[p] = sock[p] /\ fdtab'[sock[p]] = fdtab[sock[p]]

\* What an effect can have done to one object.
LEMMA EffectAt ==
  ASSUME Owned(sock, fdtab), Effect, NEW p \in Objects
  PROVE  \/ Keeps(p)
         \/ /\ sock'[p] \in Fds /\ fdtab'[sock'[p]] \in Files
            /\ MayOpen(p, sock'[p], fdtab'[sock'[p]])
<1>1. CASE UNCHANGED <<sock, fdtab>>
  BY <1>1 DEF Keeps
<1>2. ASSUME NEW o \in Objects, NEW f \in Fds, NEW x \in Files, Opens(o, f, x), MayOpen(o, f, x)
      PROVE  \/ Keeps(p)
             \/ /\ sock'[p] \in Fds /\ fdtab'[sock'[p]] \in Files
                /\ MayOpen(p, sock'[p], fdtab'[sock'[p]])
  <2>1. CASE p = o
    <3>1. sock'[p] = f /\ fdtab'[f] = x
      BY <1>2, <2>1 DEF Opens, Owned
    <3>. QED
      BY <1>2, <2>1, <3>1
  <2>2. CASE p # o
    <3>1. sock'[p] = sock[p] /\ \A g \in Fds : g # f => fdtab'[g] = fdtab[g]
      BY <1>2, <2>2 DEF Opens, Owned
    <3>2. sock[p] # f
      BY <1>2, SocketAssumption DEF Opens, Owned, Free, NoFd
    <3>. QED
      BY <3>1, <3>2, FdFacts DEF Keeps, Owned
  <2>. QED
    BY <2>1, <2>2
<1>3. ASSUME NEW os \in SUBSET Objects, Closes(os) PROVE Keeps(p)
  <2>1. sock'[p] = IF p \in os THEN NoFd ELSE sock[p]
    BY <1>3 DEF Closes
  <2>2. CASE p \in os \/ sock[p] = NoFd
    BY <2>1, <2>2 DEF Keeps
  <2>3. CASE p \notin os /\ sock[p] # NoFd
    <3>1. sock[p] \in Fds /\ ~\E o \in os : sock[o] = sock[p]
      BY <2>3 DEF Owned
    <3>2. fdtab'[sock[p]] = fdtab[sock[p]]
      BY <1>3, <3>1 DEF Closes
    <3>. QED
      BY <2>1, <2>3, <3>2 DEF Keeps
  <2>. QED
    BY <2>2, <2>3
<1>. QED
  BY <1>1, <1>2, <1>3 DEF Effect

\* A connection stays in one queue at most.
LEMMA QueuesKept ==
  ASSUME QueuesInv, Queued PROVE QueuesInv' /\ accepted \subseteq accepted'
<1>1. CASE UNCHANGED <<backlog, accepted>>
  BY <1>1 DEF QueuesInv
<1>2. ASSUME NEW l \in Listeners, NEW c \in Conns, Takes(l, c)
      PROVE  QueuesInv' /\ accepted \subseteq accepted'
  BY <1>2 DEF QueuesInv, Takes
<1>3. ASSUME NEW l \in Listeners, NEW c \in Conns, ~Arrived(c),
             backlog' = [backlog EXCEPT ![l] = @ \cup {c}], UNCHANGED accepted
      PROVE  QueuesInv' /\ accepted \subseteq accepted'
  BY <1>3 DEF QueuesInv, Arrived
<1>. QED
  BY <1>1, <1>2, <1>3 DEF Queued

\* A place that is none of those where a socket is opened keeps what it has.
LEMMA PlacesKept ==
  ASSUME OInv, Labelled, Queued, Effect
  PROVE  OInv'
<1>1. /\ Owned(sock', fdtab') /\ QueuesInv' /\ accepted \subseteq accepted'
      /\ stage' = stage /\ stage \in AllStages /\ pc' \in [Threads -> Labels]
  BY OwnedKept, QueuesKept DEF OInv, Labelled
<1>2. ASSUME NEW p \in Objects
      PROVE  \/ Keeps(p)
             \/ /\ sock'[p] \in Fds /\ fdtab'[sock'[p]] \in Files
                /\ MayOpen(p, sock'[p], fdtab'[sock'[p]])
  BY EffectAt DEF OInv
<1>3. MainPlaces'
  <2>1. sock'[Server] # NoFd => pc'[Main] # "setup"
    BY <1>2, ThreadFacts, PlaceFacts DEF OInv, PlacesInv, MainPlaces, Keeps, MayOpen, Labelled
  <2>2. sock'[Client] # NoFd => stage \in OneClient /\ pc'[Main] \in WithClient
    BY <1>2, ThreadFacts, PlaceFacts DEF OInv, PlacesInv, MainPlaces, Keeps, MayOpen, Labelled
  <2>3. sock'[Temporary] = NoFd
    BY <1>2, ThreadFacts, PlaceFacts DEF OInv, PlacesInv, MainPlaces, Keeps, MayOpen, Labelled
  <2>. QED
    BY <1>1, <2>1, <2>2, <2>3 DEF MainPlaces
<1>4. ThreadPlaces'
  <2>. SUFFICES ASSUME NEW c \in Conns, sock'[Own(c)] # NoFd
                PROVE  c \in accepted' /\ fdtab'[sock'[Own(c)]] = c
    BY DEF ThreadPlaces, Own
  <2>1. Own(c) \in Objects
    BY PlaceFacts
  <2>2. CASE Keeps(Own(c))
    BY <1>1, <2>1, <2>2 DEF OInv, PlacesInv, ThreadPlaces, Keeps
  <2>3. CASE MayOpen(Own(c), sock'[Own(c)], fdtab'[sock'[Own(c)]]) /\ sock'[Own(c)] \in Fds
    BY <2>1, <2>3, PlaceFacts, PlacesDiffer DEF MayOpen
  <2>. QED
    BY <1>2, <2>1, <2>2, <2>3
<1>5. EntryPlaces'
  <2>1. ASSUME NEW f \in Fds PROVE sock'[Entry07(f)] \in {NoFd, f}
    BY <1>2, PlaceFacts, PlacesDiffer DEF OInv, PlacesInv, EntryPlaces, Keeps, MayOpen
  <2>2. ASSUME NEW r \in Workers, NEW f \in Fds PROVE sock'[Entry08(r, f)] \in {NoFd, f}
    BY <1>2, PlaceFacts, PlacesDiffer DEF OInv, PlacesInv, EntryPlaces, Keeps, MayOpen
  <2>. QED
    BY <2>1, <2>2 DEF EntryPlaces, Entry07, Entry08
<1>6. WorkerPlaces'
  <2>. SUFFICES ASSUME NEW r \in Workers
                PROVE  sock'[Client08(r)] = NoFd /\ (sock'[Listen08(r)] # NoFd => pc'[r] # "setup")
    BY DEF WorkerPlaces, Client08, Listen08
  <2>1. sock'[Client08(r)] = NoFd
    BY <1>2, PlaceFacts, PlacesDiffer DEF OInv, PlacesInv, WorkerPlaces, Keeps, MayOpen
  <2>2. sock'[Listen08(r)] # NoFd => pc'[r] # "setup"
    BY <1>2, PlaceFacts, PlacesDiffer, ThreadFacts DEF OInv, PlacesInv, WorkerPlaces, Keeps, MayOpen, Labelled
  <2>. QED
    BY <2>1, <2>2
<1>. QED
  BY <1>1, <1>3, <1>4, <1>5, <1>6 DEF OInv, PlacesInv

-----------------------------------------------------------------------------
(* What a step of the server does to the data. *)

Reads ==
  \E t \in Threads, o \in Objects : Received(t, o) /\ UNCHANGED <<peer, sent, echoed, got>>

Writes ==
  \E t \in Threads, o \in Objects : \E n \in 0 .. Len(buf[t]) :
    /\ FileOf(o) \in Conns /\ n <= Room(o) /\ Transmits(t, o, n)
    /\ \/ buf' = [buf EXCEPT ![t] = <<>>]
       \/ buf[t] # <<>> /\ buf' = [buf EXCEPT ![t] = Tail(@)]
    /\ UNCHANGED <<sent, taken, got>>

Drops == \E t \in Threads : buf' = [buf EXCEPT ![t] = <<>>] /\ UNCHANGED streams

Greets ==
  \E c \in Conns : /\ echoed[c] = <<>> /\ echoed' = [echoed EXCEPT ![c] = Append(@, <<c, 0>>)]
                   /\ UNCHANGED <<buf, peer, sent, taken, got>>

Data ==
  /\ alive' \in BOOLEAN
  /\ UNCHANGED <<buf, streams>> \/ Reads \/ Writes \/ Drops \/ Greets

Served == Labelled /\ Queued /\ Effect /\ Data /\ EventTypes'

\* What Recv returns.
LEMMA Units ==
  ASSUME NEW c \in Conns, NEW k \in Nat, NEW n \in Nat
  PROVE  /\ [i \in 1 .. n |-> <<c, k + i>>] \in Seq(Conns \X Nat)
         /\ n > 0 => [i \in 1 .. n |-> <<c, k + i>>] # <<>>
<1>1. \A i \in 1 .. n : <<c, k + i>> \in Conns \X Nat
  OBVIOUS
<1>. QED
  BY <1>1

\* Recv takes no more than has been sent.
LEMMA ReadsKept ==
  ASSUME StreamTypes, BoundsInv, alive' \in BOOLEAN, Reads PROVE StreamTypes' /\ BoundsInv'
<1>. PICK t \in Threads, o \in Objects : Received(t, o) /\ UNCHANGED <<peer, sent, echoed, got>>
  BY DEF Reads
<1>. PICK c : c = FileOf(o)
  OBVIOUS
<1>. PICK n : n = IF Unread(c) < RecvMax THEN Unread(c) ELSE RecvMax
  OBVIOUS
<1>1. /\ c \in Conns /\ Unread(c) > 0 /\ taken' = [taken EXCEPT ![c] = @ + n]
      /\ buf' = [buf EXCEPT ![t] = [i \in 1 .. n |-> <<c, taken[c] + i>>]]
  BY DEF Received
<1>2. /\ taken[c] \in Nat /\ sent[c] \in Nat /\ n \in Nat /\ taken[c] + n <= sent[c]
  BY <1>1, KernelAssumption DEF StreamTypes, BoundsInv, Unread
<1>3. taken' \in [Conns -> Nat] /\ \A d \in Conns : taken'[d] <= sent[d]
  BY <1>1, <1>2 DEF StreamTypes, BoundsInv
<1>4. [i \in 1 .. n |-> <<c, taken[c] + i>>] \in Seq(Conns \X Nat)
  BY <1>1, <1>2, Units
<1>5. buf' \in [Threads -> Seq(Conns \X Nat)]
  BY <1>1, <1>4 DEF StreamTypes
<1>. QED
  BY <1>3, <1>5 DEF StreamTypes, BoundsInv

\* A prefix of a buffer is one.
LEMMA Prefix ==
  ASSUME NEW e \in Seq(Conns \X Nat), NEW s \in Seq(Conns \X Nat), NEW n \in 0 .. Len(s)
  PROVE  e \o SubSeq(s, 1, n) \in Seq(Conns \X Nat) /\ Len(e \o SubSeq(s, 1, n)) = Len(e) + n
<1>1. SubSeq(s, 1, n) \in Seq(Conns \X Nat) /\ Len(SubSeq(s, 1, n)) = n
  BY SubSeqProperties
<1>. QED
  BY <1>1

\* So is what is left of it.
LEMMA Rest == ASSUME NEW S, NEW s \in Seq(S), s # <<>> PROVE Tail(s) \in Seq(S)
  OBVIOUS

\* What is sent fits into the window.
LEMMA Roomy ==
  ASSUME NEW l \in Nat, NEW g \in Nat, NEW n \in Nat, n <= TxMax - (l - g), g <= l
  PROVE  g <= l + n /\ l + n <= g + TxMax
  BY KernelAssumption

\* Send writes no more than fits.
LEMMA WritesKept ==
  ASSUME StreamTypes, BoundsInv, alive' \in BOOLEAN, Writes PROVE StreamTypes' /\ BoundsInv'
<1>. PICK t \in Threads, o \in Objects : \E m \in 0 .. Len(buf[t]) :
    /\ FileOf(o) \in Conns /\ m <= Room(o) /\ Transmits(t, o, m)
    /\ \/ buf' = [buf EXCEPT ![t] = <<>>]
       \/ buf[t] # <<>> /\ buf' = [buf EXCEPT ![t] = Tail(@)]
    /\ UNCHANGED <<sent, taken, got>>
  BY DEF Writes
<1>. PICK n \in 0 .. Len(buf[t]) :
    /\ FileOf(o) \in Conns /\ n <= Room(o) /\ Transmits(t, o, n)
    /\ \/ buf' = [buf EXCEPT ![t] = <<>>]
       \/ buf[t] # <<>> /\ buf' = [buf EXCEPT ![t] = Tail(@)]
    /\ UNCHANGED <<sent, taken, got>>
  OBVIOUS
<1>. PICK c : c = FileOf(o)
  OBVIOUS
<1>1. c \in Conns /\ n <= TxMax - (Len(echoed[c]) - got[c])
  BY DEF Room, InTransit
<1>2. buf[t] \in Seq(Conns \X Nat) /\ echoed[c] \in Seq(Conns \X Nat) /\ n \in Nat
  <2>1. buf[t] \in Seq(Conns \X Nat) /\ echoed[c] \in Seq(Conns \X Nat)
    BY <1>1 DEF StreamTypes
  <2>. QED
    BY <2>1
<1>3. buf' \in [Threads -> Seq(Conns \X Nat)]
  <2>1. CASE buf' = [buf EXCEPT ![t] = <<>>]
    BY <2>1 DEF StreamTypes
  <2>2. CASE buf[t] # <<>> /\ buf' = [buf EXCEPT ![t] = Tail(@)]
    <3>1. Tail(buf[t]) \in Seq(Conns \X Nat)
      BY <1>2, <2>2, Rest
    <3>. QED
      BY <2>2, <3>1 DEF StreamTypes
  <2>. QED
    BY <2>1, <2>2
<1>4. CASE peer[c] = "open"
  <2>1. echoed' = [echoed EXCEPT ![c] = @ \o SubSeq(buf[t], 1, n)] /\ UNCHANGED peer
    BY <1>4 DEF Transmits
  <2>2. /\ echoed[c] \o SubSeq(buf[t], 1, n) \in Seq(Conns \X Nat)
        /\ Len(echoed[c] \o SubSeq(buf[t], 1, n)) = Len(echoed[c]) + n
    <3>1. n \in 0 .. Len(buf[t])
      OBVIOUS
    <3>. QED
      BY ONLY <1>2, <3>1, Prefix
  <2>3. echoed' \in [Conns -> Seq(Conns \X Nat)] /\ Len(echoed'[c]) = Len(echoed[c]) + n
        /\ \A d \in Conns : d # c => echoed'[d] = echoed[d]
    BY <1>1, <2>1, <2>2 DEF StreamTypes
  <2>4. StreamTypes'
    BY <1>3, <2>1, <2>3 DEF StreamTypes
  <2>5. got[c] \in Nat /\ Len(echoed[c]) \in Nat /\ got[c] <= Len(echoed[c])
    BY <1>1, <1>2 DEF StreamTypes, BoundsInv
  <2>6. got[c] <= Len(echoed[c]) + n /\ Len(echoed[c]) + n <= got[c] + TxMax
    BY <1>1, <1>2, <2>5, Roomy
  <2>7. BoundsInv'
    BY <2>1, <2>3, <2>6 DEF BoundsInv
  <2>. QED
    BY <2>4, <2>7
<1>5. CASE peer[c] # "open"
  <2>1. peer' \in [Conns -> {"open", "closed", "reset"}] /\ UNCHANGED echoed
    BY <1>1, <1>5 DEF Transmits, StreamTypes
  <2>. QED
    BY <1>3, <2>1 DEF StreamTypes, BoundsInv
<1>. QED
  BY <1>4, <1>5

\* Nor does the greeting of stage 01.
LEMMA GreetsKept ==
  ASSUME StreamTypes, BoundsInv, alive' \in BOOLEAN, Greets PROVE StreamTypes' /\ BoundsInv'
<1>. PICK c \in Conns : /\ echoed[c] = <<>> /\ echoed' = [echoed EXCEPT ![c] = Append(@, <<c, 0>>)]
                       /\ UNCHANGED <<buf, peer, sent, taken, got>>
  BY DEF Greets
<1>1. Append(echoed[c], <<c, 0>>) = <<<<c, 0>>>> /\ <<<<c, 0>>>> \in Seq(Conns \X Nat)
  OBVIOUS
<1>2. /\ echoed' \in [Conns -> Seq(Conns \X Nat)] /\ echoed'[c] = <<<<c, 0>>>>
      /\ \A d \in Conns : d # c => echoed'[d] = echoed[d]
  BY <1>1 DEF StreamTypes
<1>3. got[c] \in Nat /\ got[c] <= 0
  <2>1. Len(echoed[c]) = 0
    OBVIOUS
  <2>. QED
    BY <2>1 DEF StreamTypes, BoundsInv
<1>4. Len(echoed'[c]) = 1
  BY <1>2
<1>5. got[c] <= 1 /\ 1 <= got[c] + TxMax
  BY <1>3, KernelAssumption
<1>. QED
  BY <1>2, <1>4, <1>5 DEF StreamTypes, BoundsInv

\* No step leaves the bounds of the streams; none reopens a connection.
LEMMA DataKept ==
  ASSUME DInv, Data, EventTypes'
  PROVE  DInv' /\ \A c \in Conns : peer'[c] = "open" => peer[c] = "open"
<1>1. StreamTypes' /\ BoundsInv'
  <2>1. CASE UNCHANGED <<buf, streams>>
    BY <2>1 DEF DInv, Data, StreamTypes, BoundsInv, streams
  <2>2. CASE Drops
    BY <2>2 DEF DInv, Data, Drops, StreamTypes, BoundsInv, streams
  <2>. QED
    BY <2>1, <2>2, ReadsKept, WritesKept, GreetsKept DEF DInv, Data
<1>2. \A c \in Conns : peer'[c] = "open" => peer[c] = "open"
  BY DEF DInv, StreamTypes, Data, Reads, Writes, Drops, Greets, Transmits, streams
<1>. QED
  BY <1>1, <1>2 DEF DInv

-----------------------------------------------------------------------------
(* The client programs. *)

ClientPlaces == {"start", "input", "send", "recv", "close", "ping", "pong", "lock",
               "merge", "done", "refused", "killed"}

ProgramTypes == cpc \in [Conns -> ClientPlaces] /\ typed \in [Conns -> 0 .. LineMax]

MeasureTypes ==
  /\ total_t \in [Conns -> Nat] /\ max_t \in [Conns -> Nat] /\ cnt \in [Conns -> 0 .. Rounds]
  /\ g_tot_t \in Nat /\ g_max_t \in Nat /\ g_cnt \in Nat
  /\ mtx \in Conns \cup {Nobody}
  /\ seen_g \in [Conns -> Nat \X Nat \X Nat]
  /\ measured \in [Conns -> Seq(Latencies)]

\* A thread waits for an answer only in a round that counts.
RoundInv == \A c \in Conns : cpc[c] = "pong" => cnt[c] < Rounds

ClientInv == ProgramTypes /\ MeasureTypes /\ RoundInv

\* A step of a program that moves it to p, or ends all of them.
LEMMA ProceedTypes ==
  ASSUME ProgramTypes, NEW c \in Conns, NEW p \in ClientPlaces, Proceed(c, p), UNCHANGED typed
  PROVE  ProgramTypes' /\ cpc'[c] = p /\ \A d \in Conns : d # c => cpc'[d] = cpc[d]
  BY DEF ProgramTypes, Proceed

\* A line program is never at "pong".
LEMMA LinePrograms ==
  ASSUME ClientInv, NEW c \in Conns, Proceeds(c) \/ Input(c)
  PROVE  ProgramTypes' /\ \A d \in Conns : cpc'[d] = "pong" => cpc[d] = "pong"
<1>1. CASE Input(c)
  <2>1. Proceed(c, "send") \/ Proceed(c, "done")
    BY <1>1 DEF Input
  <2>2. typed' \in [Conns -> 0 .. LineMax]
    BY <1>1 DEF Input, ClientInv, ProgramTypes
  <2>. QED
    BY <2>1, <2>2 DEF ClientInv, ProgramTypes, Proceed, ClientPlaces
<1>2. CASE Proceeds(c)
  <2>1. UNCHANGED typed
    BY <1>2
    DEF Proceeds, ConnectSkeleton, SendGreeting, ReadReply, CloseSocket, ConnectEchoLoop, WriteLine,
        ReadEcho, TestClientConnects, TestClientSends, TestClientRecvs, LineConnect, LineSend, LineRecv
  <2>2. \E p \in ClientPlaces \ {"pong"} : Proceed(c, p)
    <3>1. ASSUME NEW n, Write(c, n) PROVE \E p \in ClientPlaces \ {"pong"} : Proceed(c, p)
      BY <3>1 DEF Write, ClientPlaces
    <3>2. ASSUME NEW p \in {"send", "input"}, Connect(c, p)
          PROVE  \E q \in ClientPlaces \ {"pong"} : Proceed(c, q)
      BY <3>2 DEF Connect, ClientPlaces
    <3>3. ASSUME NEW p \in {"close", "input"}, Read(c, p)
          PROVE  \E q \in ClientPlaces \ {"pong"} : Proceed(c, q)
      BY <3>3 DEF Read, ClientPlaces
    <3>4. CloseSocket(c) => Proceed(c, "done")
      BY DEF CloseSocket
    <3>. QED
      BY <1>2, <3>1, <3>2, <3>3, <3>4
      DEF Proceeds, ConnectSkeleton, SendGreeting, ReadReply, ConnectEchoLoop, WriteLine,
          ReadEcho, TestClientConnects, TestClientSends, TestClientRecvs, LineConnect, LineSend,
          LineRecv, ClientPlaces
  <2>. QED
    BY <2>1, <2>2 DEF ClientInv, ProgramTypes, Proceed
<1>. QED
  BY <1>1, <1>2

\* A round trip begins.
LEMMA PingTypes ==
  ASSUME ClientInv, NEW c \in Conns, StartClient(c) \/ Ping(c) PROVE ClientInv'
<1>1. UNCHANGED <<typed, lvars>>
  BY DEF StartClient, Ping
<1>2. \/ \E p \in {"ping", "refused", "lock"} : Proceed(c, p)
      \/ TimeLeft(c) /\ Proceed(c, "pong")
      \/ ProcessKilled
  BY DEF StartClient, Connect, Ping
<1>3. MeasureTypes'
  BY <1>1 DEF ClientInv, MeasureTypes, lvars
<1>4. ProgramTypes'
  BY <1>1, <1>2 DEF ClientInv, ProgramTypes, ProcessKilled, Proceed, ClientPlaces
<1>5. RoundInv'
  BY <1>1, <1>2 DEF ClientInv, ProgramTypes, RoundInv, ProcessKilled, Proceed, TimeLeft, lvars
<1>. QED
  BY <1>3, <1>4, <1>5 DEF ClientInv

\* It ends, and is measured.
LEMMA PongTypes == ASSUME ClientInv, NEW c \in Conns, Pong(c) PROVE ClientInv'
<1>1. /\ UNCHANGED <<typed, g_tot_t, g_max_t, g_cnt, mtx, seen_g>> /\ cpc[c] = "pong"
      /\ Proceed(c, "ping") \/ Proceed(c, "lock")
  BY DEF Pong, Measures, Program
<1>2. ProgramTypes' /\ \A d \in Conns : cpc'[d] = "pong" => d # c /\ cpc[d] = "pong"
  BY <1>1 DEF ClientInv, ProgramTypes, Proceed, ClientPlaces
<1>3. CASE UNCHANGED <<total_t, max_t, cnt, measured>>
  BY <1>1, <1>2, <1>3 DEF ClientInv, MeasureTypes, RoundInv
<1>4. CASE \E latency \in Latencies :
             LET t == Accumulated(total_t[c], latency)
             IN  /\ total_t' = [total_t EXCEPT ![c] = t]
                 /\ max_t' = [max_t EXCEPT ![c] = IF @ < t THEN t ELSE @]
                 /\ cnt' = [cnt EXCEPT ![c] = @ + 1]
                 /\ measured' = [measured EXCEPT ![c] = Append(@, latency)]
  <2>1. PICK latency \in Latencies :
                 /\ total_t' = [total_t EXCEPT ![c] = Accumulated(total_t[c], latency)]
                 /\ max_t' = [max_t EXCEPT ![c] = IF @ < Accumulated(total_t[c], latency)
                                                 THEN Accumulated(total_t[c], latency) ELSE @]
                 /\ cnt' = [cnt EXCEPT ![c] = @ + 1]
                 /\ measured' = [measured EXCEPT ![c] = Append(@, latency)]
    BY <1>4
  <2>2. latency \in Nat /\ Accumulated(total_t[c], latency) \in Nat
    <3>1. latency \in Nat
      BY LatencyAssumption
    <3>2. total_t[c] \in Nat
      BY DEF ClientInv, MeasureTypes
    <3>. QED
      BY <3>1, <3>2 DEF Accumulated
  <2>3. PICK v \in Nat : v = Accumulated(total_t[c], latency)
    BY <2>2
  <2>6. total_t' = [total_t EXCEPT ![c] = v] /\ max_t' = [max_t EXCEPT ![c] = IF @ < v THEN v ELSE @]
    BY <2>1, <2>3
  <2>7. total_t' \in [Conns -> Nat]
    BY <2>6 DEF ClientInv, MeasureTypes
  <2>8. max_t' \in [Conns -> Nat]
    BY <2>6 DEF ClientInv, MeasureTypes
  <2>4. cnt' \in [Conns -> 0 .. Rounds] /\ \A d \in Conns : d # c => cnt'[d] = cnt[d]
    BY <1>1, <2>1, LatencyAssumption, SMTT(30) DEF ClientInv, MeasureTypes, RoundInv
  <2>5. measured' \in [Conns -> Seq(Latencies)]
    BY <2>1 DEF ClientInv, MeasureTypes
  <2>. QED
    BY <1>1, <1>2, <2>4, <2>5, <2>7, <2>8 DEF ClientInv, MeasureTypes, RoundInv
<1>. QED
  BY <1>3, <1>4 DEF Pong

\* A thread takes the mutex.
LEMMA LockTypes == ASSUME ClientInv, NEW c \in Conns, Lock(c) PROVE ClientInv'
<1>1. UNCHANGED <<typed, total_t, max_t, cnt, g_tot_t, g_max_t, g_cnt, measured>>
      /\ Proceed(c, "merge") /\ mtx' = c /\ seen_g' = [seen_g EXCEPT ![c] = Totals]
  BY DEF Lock, TakesLock
<1>2. ProgramTypes' /\ RoundInv'
  BY <1>1 DEF ClientInv, ProgramTypes, RoundInv, Proceed, ClientPlaces
<1>3. MeasureTypes'
  <2>1. Totals \in Nat \X Nat \X Nat
    BY DEF Totals, ClientInv, MeasureTypes
  <2>. QED
    BY <1>1, <2>1 DEF ClientInv, MeasureTypes
<1>. QED
  BY <1>2, <1>3 DEF ClientInv

\* It adds its results to the globals.
LEMMA MergeTypes == ASSUME ClientInv, NEW c \in Conns, Merge(c) PROVE ClientInv'
<1>1. /\ UNCHANGED <<typed, total_t, max_t, cnt, measured>> /\ Proceed(c, "done") /\ mtx' = Nobody
      /\ seen_g' = [seen_g EXCEPT ![c] = <<0, 0, 0>>]
      /\ g_tot_t' = seen_g[c][1] + total_t[c]
      /\ g_max_t' = IF max_t[c] > seen_g[c][2] THEN max_t[c] ELSE seen_g[c][2]
      /\ g_cnt' = seen_g[c][3] + cnt[c]
  BY DEF Merge
<1>2. ProgramTypes' /\ RoundInv'
  BY <1>1 DEF ClientInv, ProgramTypes, RoundInv, Proceed, ClientPlaces
<1>3. MeasureTypes'
  <2>1. /\ seen_g[c][1] \in Nat /\ seen_g[c][2] \in Nat /\ seen_g[c][3] \in Nat
        /\ total_t[c] \in Nat /\ max_t[c] \in Nat /\ cnt[c] \in Nat
    <3>1. seen_g[c] \in Nat \X Nat \X Nat
      BY DEF ClientInv, MeasureTypes
    <3>2. total_t[c] \in Nat /\ max_t[c] \in Nat /\ cnt[c] \in Nat
      BY DEF ClientInv, MeasureTypes
    <3>. QED
      BY <3>1, <3>2
  <2>2. g_tot_t' \in Nat /\ g_max_t' \in Nat /\ g_cnt' \in Nat
    BY <1>1, <2>1
  <2>3. seen_g' \in [Conns -> Nat \X Nat \X Nat]
    <3>1. <<0, 0, 0>> \in Nat \X Nat \X Nat
      OBVIOUS
    <3>. QED
      BY <1>1, <3>1 DEF ClientInv, MeasureTypes
  <2>. QED
    BY <1>1, <2>2, <2>3 DEF ClientInv, MeasureTypes
<1>. QED
  BY <1>2, <1>3 DEF ClientInv

\* Every step of a program keeps its types.
LEMMA ClientStep == ASSUME ClientInv, [Next]_vars PROVE ClientInv'
<1>1. CASE UNCHANGED <<cvars, lvars>>
  BY <1>1 DEF ClientInv, ProgramTypes, MeasureTypes, RoundInv, cvars, lvars
<1>2. ASSUME NEW c \in Conns, RunClient(c) PROVE ClientInv'
  BY <1>2, PingTypes, PongTypes, LockTypes, MergeTypes DEF RunClient
<1>3. ASSUME NEW c \in Conns, Proceeds(c) \/ Input(c), UNCHANGED lvars PROVE ClientInv'
  <2>1. ProgramTypes' /\ \A d \in Conns : cpc'[d] = "pong" => cpc[d] = "pong"
    BY <1>3, LinePrograms
  <2>. QED
    BY <1>3, <2>1 DEF ClientInv, MeasureTypes, RoundInv, lvars
<1>4. CASE Interrupt
  BY <1>4 DEF Interrupt, ProcessKilled, ClientInv, ProgramTypes, MeasureTypes, RoundInv, lvars, ClientPlaces
<1>5. ASSUME NEW c \in Conns, AnyClient(c), UNCHANGED <<cvars, lvars>> PROVE ClientInv'
  BY <1>1, <1>5
<1>. QED
  BY <1>1, <1>2, <1>3, <1>4, <1>5 DEF Next, Clients, Others, vars

\* The types of the client programs hold throughout.
LEMMA ClientInvariant == Spec => []ClientInv
<1>1. Init => ClientInv
  BY LineAssumption, LatencyAssumption
  DEF Init, LatencyInit, ClientInv, ProgramTypes, MeasureTypes, RoundInv, ClientPlaces
<1>2. ClientInv /\ [Next]_vars => ClientInv'
  BY ClientStep
<1>. QED
  BY <1>1, <1>2, PTL DEF Spec

-----------------------------------------------------------------------------
(* The server, when a client moves.  A client leaves the process alone, and *)
(* never opens again what it has closed.                                    *)

Outside ==
  /\ UNCHANGED <<process, echoed, accepted, stage, evars>> /\ Queued
  /\ StreamTypes' /\ BoundsInv' /\ \A c \in Conns : peer'[c] = "open" => peer[c] = "open"

\* The five things a client does to its connection: it connects,
LEMMA ConnectOutside ==
  ASSUME Inv, NEW c \in Conns, ClientConnects(c), UNCHANGED <<stage, evars>> PROVE Outside
<1>1. PICK l \in Listening : backlog' = [backlog EXCEPT ![l] = @ \cup {c}]
  BY DEF ClientConnects
<1>2. Queued
  BY <1>1 DEF Queued, Listening, ClientConnects
<1>. QED
  BY <1>2 DEF Outside, ClientConnects, Inv, DInv, StreamTypes, BoundsInv, streams, process

\* sends,
LEMMA SendOutside ==
  ASSUME Inv, NEW c \in Conns, NEW n \in Nat, ClientSends(c, n), UNCHANGED <<stage, evars>>
  PROVE  Outside
<1>1. /\ sent' = [sent EXCEPT ![c] = @ + n] /\ sent[c] + n <= SendMax[c]
      /\ UNCHANGED <<process, backlog, accepted, peer, taken, echoed, got>>
  BY DEF ClientSends
<1>2. /\ sent' \in [Conns -> Nat]
      /\ \A d \in Conns : taken[d] <= sent'[d] /\ sent'[d] <= SendMax[d]
  <2>1. /\ sent \in [Conns -> Nat] /\ taken \in [Conns -> Nat]
        /\ \A d \in Conns : taken[d] <= sent[d] /\ sent[d] <= SendMax[d]
    BY KernelAssumption DEF Inv, DInv, StreamTypes, BoundsInv
  <2>. QED
    BY <1>1, <2>1
<1>3. StreamTypes' /\ BoundsInv'
  BY <1>1, <1>2 DEF Inv, DInv, StreamTypes, BoundsInv, process
<1>. QED
  BY <1>1, <1>3 DEF Outside, Queued

\* reads,
LEMMA ReadOutside ==
  ASSUME Inv, NEW c \in Conns, NEW n \in Nat, ClientReads(c, n), UNCHANGED <<stage, evars>>
  PROVE  Outside
<1>1. /\ got' = [got EXCEPT ![c] = @ + n] /\ n \in 1 .. Len(echoed[c]) - got[c]
      /\ UNCHANGED <<process, backlog, accepted, peer, taken, echoed, sent>>
  BY DEF ClientReads, InTransit
<1>2. got' \in [Conns -> Nat] /\ got'[c] <= Len(echoed[c]) /\ got[c] <= got'[c]
      /\ \A d \in Conns : d # c => got'[d] = got[d]
  <2>1. Len(echoed[c]) \in Nat /\ got[c] \in Nat /\ got \in [Conns -> Nat]
    BY DEF Inv, DInv, StreamTypes
  <2>. QED
    BY <1>1, <2>1
<1>3. StreamTypes'
  BY <1>1, <1>2 DEF Inv, DInv, StreamTypes, process
<1>4. BoundsInv'
  BY <1>1, <1>2, KernelAssumption DEF Inv, DInv, StreamTypes, BoundsInv
<1>. QED
  BY <1>1, <1>3, <1>4 DEF Outside, Queued

\* and closes or resets.
LEMMA EndOutside ==
  ASSUME Inv, UNCHANGED <<process, backlog, accepted, sent, echoed, got, stage, evars>>,
         peer' \in [Conns -> {"open", "closed", "reset"}],
         \A c \in Conns : peer'[c] = "open" => peer[c] = "open",
         UNCHANGED taken \/ \E c \in Conns : \E n \in {taken[c], sent[c]} : taken' = [taken EXCEPT ![c] = n]
  PROVE  Outside
<1>1. /\ taken' \in [Conns -> Nat]
      /\ \A d \in Conns : taken'[d] \in Nat /\ taken'[d] <= sent[d]
  BY DEF Inv, DInv, StreamTypes, BoundsInv
<1>. QED
  BY <1>1 DEF Outside, Queued, Inv, DInv, StreamTypes, BoundsInv, process

\* The calls of a client.
Moves(c) ==
  \/ UNCHANGED kvars
  \/ ClientConnects(c) \/ ClientCloses(c) \/ ClientResets(c)
  \/ \E n \in Nat : ClientSends(c, n) \/ ClientReads(c, n)

\* None of them touches the server process.
LEMMA MovesOutside ==
  ASSUME Inv, NEW c \in Conns, Moves(c), UNCHANGED <<stage, evars>> PROVE Outside
<1>1. CASE UNCHANGED kvars
  BY <1>1, EndOutside DEF kvars, streams, Inv, DInv, StreamTypes
<1>2. CASE ClientCloses(c)
  BY <1>2, EndOutside DEF ClientCloses, Inv, DInv, StreamTypes
<1>3. CASE ClientResets(c)
  <2>1. /\ peer' = [peer EXCEPT ![c] = "reset"]
        /\ \E n \in {taken[c], sent[c]} : taken' = [taken EXCEPT ![c] = n]
        /\ UNCHANGED <<process, backlog, accepted, sent, echoed, got>>
    BY <1>3 DEF ClientResets
  <2>2. /\ peer' \in [Conns -> {"open", "closed", "reset"}]
        /\ \A d \in Conns : peer'[d] = "open" => peer[d] = "open"
    BY <2>1 DEF Inv, DInv, StreamTypes
  <2>. QED
    BY <2>1, <2>2, EndOutside
<1>. QED
  BY <1>1, <1>2, <1>3, ConnectOutside, SendOutside, ReadOutside DEF Moves

\* A client process that is killed resets its connections.
LEMMA KilledOutside == ASSUME Inv, ProcessKilled, UNCHANGED <<stage, evars>> PROVE Outside
<1>1. /\ peer' \in [Conns -> {"open", "closed", "reset"}]
      /\ \A c \in Conns : peer'[c] = "open" => peer[c] = "open"
  BY DEF ProcessKilled, Inv, DInv, StreamTypes
<1>. QED
  BY <1>1, EndOutside DEF ProcessKilled

\* The programs do nothing else: the line client,
LEMMA WriteMoves ==
  ASSUME NEW c \in Conns, NEW n \in Nat, Write(c, n) PROVE Moves(c)
  BY DEF Write, Moves

\* which reads its answer,
LEMMA ReadMoves == ASSUME NEW c \in Conns, NEW p, Read(c, p) PROVE Moves(c)
<1>1. CASE \E n \in 1 .. TxMax : ClientReads(c, n) /\ Proceed(c, p)
  BY <1>1, KernelAssumption DEF Moves
<1>2. CASE ClientCloses(c)
  BY <1>2 DEF Moves
<1>. QED
  BY <1>1, <1>2 DEF Read

\* a whole line client,
LEMMA LineMoves ==
  ASSUME ClientInv, NEW c \in Conns, Proceeds(c) \/ Input(c) PROVE Moves(c)
<1>1. typed[c] \in Nat /\ 1 \in Nat
  BY LineAssumption DEF ClientInv, ProgramTypes
<1>2. ASSUME NEW p, Connect(c, p) PROVE Moves(c)
  BY <1>2 DEF Connect, Moves
<1>3. Input(c) => Moves(c)
  BY DEF Input, Moves
<1>4. CloseSocket(c) => Moves(c)
  BY DEF CloseSocket, Moves
<1>. QED
  BY <1>1, <1>2, <1>3, <1>4, WriteMoves, ReadMoves
  DEF Proceeds, ConnectSkeleton, SendGreeting, ReadReply, ConnectEchoLoop, WriteLine, ReadEcho,
      TestClientConnects, TestClientSends, TestClientRecvs, LineConnect, LineSend, LineRecv

\* a thread of the latency client,
LEMMA RunMoves ==
  ASSUME NEW c \in Conns, RunClient(c) PROVE Moves(c) \/ ProcessKilled
<1>1. CASE StartClient(c)
  BY <1>1 DEF StartClient, Connect, Moves
<1>2. CASE Ping(c)
  <2>1. 1 \in Nat
    OBVIOUS
  <2>. QED
    BY <1>2, <2>1 DEF Ping, Moves
<1>3. CASE Pong(c)
  <2>1. CASE \E n \in 1 .. TxMax : ClientReads(c, n)
    BY <2>1, KernelAssumption DEF Moves
  <2>2. CASE UNCHANGED kvars
    BY <2>2 DEF Moves
  <2>. QED
    BY <1>3, <2>1, <2>2 DEF Pong
<1>4. CASE Lock(c)
  BY <1>4 DEF Lock, Moves
<1>5. CASE Merge(c)
  BY <1>5 DEF Merge, Moves
<1>. QED
  BY <1>1, <1>2, <1>3, <1>4, <1>5 DEF RunClient

\* and a client that is somebody else.
LEMMA AnyMoves == ASSUME NEW c \in Conns, AnyClient(c) PROVE Moves(c)
<1>1. SendMax[c] \in Nat
  BY KernelAssumption
<1>. QED
  BY <1>1 DEF AnyClient, Moves

\* Nothing a client does endangers what is known of the process.
LEMMA OutsideKept == ASSUME Inv, Outside PROVE Inv'
<1>1. UNCHANGED <<sock, fdtab, alive, pc, buf, echoed, accepted, stage, batch, armed, cur>>
  BY DEF Outside, process, evars
<1>2. OInv'
  <2>1. QueuesInv'
    BY QueuesKept DEF Outside, Inv, OInv
  <2>. QED
    BY <1>1, <2>1
    DEF Inv, OInv, PlacesInv, MainPlaces, ThreadPlaces, EntryPlaces, WorkerPlaces,
        Own, Entry07, Entry08, Listen08, Client08
<1>3. DInv'
  BY <1>1 DEF Outside, Inv, DInv, EventTypes
<1>4. CurInv' /\ ListenInv' /\ SendInv'
  BY <1>1 DEF Inv, CInv, CurInv, ListenInv, SendInv, Listen08
<1>5. LogInv'
  BY <1>1 DEF Outside, Inv, CInv, LogInv, Own
<1>6. GreetInv'
  BY <1>1 DEF Inv, CInv, GreetInv, FileOf, IsValid
<1>. QED
  BY <1>2, <1>3, <1>4, <1>5, <1>6 DEF Inv, CInv

-----------------------------------------------------------------------------
(* The statements of the servers, by their effect on the tables. *)

\* When the process ends, every descriptor is closed.
LEMMA ExitEffect == ASSUME Owned(sock, fdtab), Exit PROVE Effect
<1>1. sock' = [o \in Objects |-> NoFd] /\ fdtab' = [f \in Fds |-> NoFile] /\ ~alive'
  BY DEF Exit
<1>2. [o \in Objects |-> IF o \in Objects THEN NoFd ELSE sock[o]] = [o \in Objects |-> NoFd]
  OBVIOUS
<1>3. [f \in Fds |-> IF \E o \in Objects : sock[o] = f THEN NoFile ELSE fdtab[f]]
        = [f \in Fds |-> NoFile]
  BY DEF Owned
<1>4. Closes(Objects) /\ MayClose(Objects)
  BY <1>1, <1>2, <1>3 DEF Closes, MayClose
<1>. QED
  BY <1>4 DEF Effect

\* A scope that ends closes its sockets, if they may be closed.
LEMMA DestroyedAllEffect ==
  ASSUME NEW os \in SUBSET Objects, Become(DestroyedAll(Tables, os)), MayClose(os)
  PROVE  Effect
<1>1. Closes(os)
  BY DEF Become, DestroyedAll, Tables, Closes
<1>. QED
  BY <1>1 DEF Effect

\* Closing the socket of one object.
LEMMA ClosesOne ==
  ASSUME Owned(sock, fdtab), NEW o \in Objects,
         sock' = [sock EXCEPT ![o] = NoFd],
         fdtab' = IF sock[o] = NoFd THEN fdtab ELSE [fdtab EXCEPT ![sock[o]] = NoFile],
         FileOf(o) \in Conns => peer[FileOf(o)] # "open", Spares({o})
  PROVE  Effect
<1>1. sock' = [p \in Objects |-> IF p \in {o} THEN NoFd ELSE sock[p]]
  BY DEF Owned
<1>2. fdtab' = [f \in Fds |-> IF \E p \in {o} : sock[p] = f THEN NoFile ELSE fdtab[f]]
  <2>1. fdtab = [f \in Fds |-> fdtab[f]]
    BY DEF Owned
  <2>2. CASE sock[o] = NoFd
    <3>1. \A f \in Fds : ~\E p \in {o} : sock[p] = f
      BY <2>2, FdFacts
    <3>. QED
      BY <2>1, <2>2, <3>1
  <2>3. CASE sock[o] # NoFd
    <3>1. \A f \in Fds : (\E p \in {o} : sock[p] = f) <=> f = sock[o]
      OBVIOUS
    <3>2. fdtab' = [f \in Fds |-> IF f = sock[o] THEN NoFile ELSE fdtab[f]]
      BY <2>1, <2>3
    <3>. QED
      BY <3>1, <3>2
  <2>. QED
    BY <2>2, <2>3
<1>3. Closes({o}) /\ MayClose({o})
  BY <1>1, <1>2 DEF Closes, MayClose
<1>. QED
  BY <1>3 DEF Effect

\* The destructor does that.
LEMMA DestroyedEffect ==
  ASSUME Owned(sock, fdtab), NEW o \in Objects, Become(Destroyed(Tables, o)),
         FileOf(o) \in Conns => peer[FileOf(o)] # "open", Spares({o})
  PROVE  Effect
<1>1. sock' = [sock EXCEPT ![o] = NoFd]
  BY DEF Become, Destroyed, Tables
<1>2. fdtab' = IF sock[o] = NoFd THEN fdtab ELSE [fdtab EXCEPT ![sock[o]] = NoFile]
  BY DEF Become, Destroyed, Closing, Tables
<1>. QED
  BY <1>1, <1>2, ClosesOne

\* client = TcpSocket()
LEMMA AssignedEffect ==
  ASSUME Owned(sock, fdtab), NEW o \in Objects, NEW e \in Objects, o # e, sock[e] = NoFd,
         Become(Assigned(Tables, o, e)), FileOf(o) \in Conns => peer[FileOf(o)] # "open",
         Spares({o})
  PROVE  Effect
<1>1. /\ sock' = [sock EXCEPT ![o] = sock[e], ![e] = NoFd]
      /\ fdtab' = IF sock[o] = NoFd THEN fdtab ELSE [fdtab EXCEPT ![sock[o]] = NoFile]
  BY DEF Become, Assigned, Moved, Closing, Tables
<1>2. sock \in [Objects -> Fds \cup {NoFd}]
  BY DEF Owned
<1>3. [sock EXCEPT ![o] = sock[e], ![e] = NoFd] = [sock EXCEPT ![o] = NoFd]
  BY <1>2
<1>4. sock' = [sock EXCEPT ![o] = NoFd]
  BY <1>1, <1>3
<1>. QED
  BY <1>1, <1>4, ClosesOne

\* Threads that send hold their clients in different objects.
LEMMA HoldersDiffer ==
  ASSUME Inv, NEW t \in Threads, NEW u \in Threads, t # u, Sending(t), Sender(u),
         stage = "08_MultiReactor" => cur[u] \in Fds
  PROVE  Holder(t) # Holder(u)
<1>1. CASE stage \in {"04_MultiThread", "05_Latency"}
  BY <1>1, PlacesDiffer DEF Sending, Sender, Holder
<1>2. CASE stage = "08_MultiReactor"
  <2>1. t \in Workers /\ u \in Workers /\ pc[t] = "send"
    BY <1>2 DEF Sending, Sender
  <2>2. cur[t] \in Fds /\ cur[u] \in Fds
    BY <1>2, <2>1, ThreadFacts DEF Inv, CInv, CurInv
  <2>. QED
    BY <2>1, <2>2, PlacesDiffer, ThreadFacts DEF Holder
<1>. QED
  BY <1>1, <1>2 DEF Sending, Sender

\* So one that does not send may close what it holds.
LEMMA HolderSpared ==
  ASSUME Inv, NEW u \in Threads, ~Sending(u), Sender(u), stage = "08_MultiReactor" => cur[u] \in Fds
  PROVE  Spares({Holder(u)})
  BY HoldersDiffer DEF Spares

\* A socket that may be opened there is an effect.
LEMMA OpensEffect ==
  ASSUME NEW o \in Objects, NEW f \in Fds, NEW x \in Files, Opens(o, f, x), MayOpen(o, f, x),
         Arrives(x)
  PROVE  Effect
  BY DEF Effect

\* socket(), bind() and listen() open one socket.
LEMMA OpenedOpens ==
  ASSUME NEW o, NEW f, NEW x, sock[o] = NoFd, Lowest(f), Become(Opened(Tables, o, f, x))
  PROVE  Opens(o, f, x) /\ f \in Fds
  BY DEF Become, Opened, Tables, Opens, Lowest, Free

\* A socket that is accepted into a variable and moved on.
LEMMA MovedOpens ==
  ASSUME Owned(sock, fdtab), NEW a \in Objects, NEW o \in Objects, a # o, NEW f, NEW x,
         sock[a] = NoFd, sock[o] = NoFd, Lowest(f), Become(Moved(Opened(Tables, a, f, x), o, a))
  PROVE  Opens(o, f, x) /\ f \in Fds
<1>. DEFINE s == [sock EXCEPT ![a] = f]
<1>1. sock' = [s EXCEPT ![o] = s[a], ![a] = NoFd] /\ fdtab' = [fdtab EXCEPT ![f] = x]
  BY DEF Become, Moved, Opened, Tables
<1>2. sock' = [sock EXCEPT ![o] = f]
  BY <1>1 DEF Owned
<1>. QED
  BY <1>1, <1>2 DEF Opens, Lowest, Free

\* client = server.Accept(), where client held nothing.
LEMMA AssignedOpens ==
  ASSUME Owned(sock, fdtab), NEW a \in Objects, NEW o \in Objects, a # o, NEW f, NEW x,
         sock[a] = NoFd, sock[o] = NoFd, Lowest(f), Become(Assigned(Opened(Tables, a, f, x), o, a))
  PROVE  Opens(o, f, x) /\ f \in Fds
<1>1. Opened(Tables, a, f, x).sock[o] = NoFd
  BY DEF Opened, Tables, Owned
<1>2. Closing(Opened(Tables, a, f, x), o)
        = [sock |-> Opened(Tables, a, f, x).sock, fdtab |-> Opened(Tables, a, f, x).fdtab]
  BY <1>1 DEF Closing
<1>3. Become(Moved(Opened(Tables, a, f, x), o, a))
  BY <1>2 DEF Assigned, Opened, Moved, Become
<1>. QED
  BY <1>3, MovedOpens

\* So does setting up a server.
LEMMA ListensEffect ==
  ASSUME NEW o \in Objects, NEW l \in Files \ Conns, sock[o] = NoFd, Listens(o, l),
         \A f \in Fds : MayOpen(o, f, l)
  PROVE  Effect /\ \E f \in Fds : Opens(o, f, l)
<1>. PICK f \in Fds : Lowest(f) /\ Become(Opened(Tables, o, f, l))
  BY DEF Listens
<1>1. Opens(o, f, l)
  BY OpenedOpens
<1>2. Arrives(l)
  BY DEF Arrives
<1>. QED
  BY <1>1, <1>2, OpensEffect

-----------------------------------------------------------------------------
(* ... and on where the threads are. *)

\* A thread goes to a label.
LEMMA GotoLabelled ==
  ASSUME OInv, UNCHANGED stage, NEW t \in Threads, NEW l \in Labels, Goto(t, l), l # "setup",
         t = Main /\ stage \in OneClient /\ pc[Main] \in WithClient => l \in WithClient
  PROVE  /\ Labelled /\ pc'[t] = l /\ \A u \in Threads : u # t => pc'[u] = pc[u]
<1>1. pc' \in [Threads -> Labels] /\ pc'[t] = l /\ \A u \in Threads : u # t => pc'[u] = pc[u]
  BY DEF OInv, Goto
<1>. QED
  BY <1>1, ThreadFacts DEF Labelled

\* Or stays where it is.
LEMMA StaysLabelled == ASSUME OInv, UNCHANGED <<pc, stage>> PROVE Labelled
  BY DEF OInv, Labelled

\* accept() moves a connection out of the backlog.
LEMMA TakesQueued ==
  ASSUME NEW l \in Listeners, NEW c \in Conns, Takes(l, c) PROVE Queued /\ c \in accepted'
  BY DEF Queued, Takes

\* It has not been accepted before.
LEMMA TakesArrives ==
  ASSUME Inv, NEW l \in Listeners, NEW c \in Conns, Takes(l, c) PROVE Arrives(c)
  BY DEF Arrives, Takes, Inv, OInv, QueuesInv

\* Most steps leave the queues alone.
LEMMA StaysQueued == ASSUME UNCHANGED <<backlog, accepted>> PROVE Queued
  BY DEF Queued

\* A step of the server after which the control invariant holds too.
LEMMA ServedKept == ASSUME Inv, Served, CInv' PROVE Inv'
  BY PlacesKept, DataKept DEF Served, Inv

-----------------------------------------------------------------------------
(* The steps that several servers have. *)

\* Where the threads are and what they hold changes for t alone.
Only(t) == \A u \in Threads : u # t => pc'[u] = pc[u] /\ buf'[u] = buf[u]

Still == UNCHANGED <<stage, evars>>

\* A step outside the reactors keeps their types.
LEMMA StillTypes == ASSUME Inv, Still PROVE EventTypes'
  BY DEF Inv, DInv, EventTypes, Still, evars

\* Setting up a listening socket, or failing to.
LEMMA SetUpServed ==
  ASSUME Inv, Still, alive, pc[Main] = "setup", UNCHANGED <<alive, buf, backlog, accepted, streams>>,
         NEW l \in Files \ Conns, Listens(Server, l), Goto(Main, "accept")
  PROVE  Served /\ Only(Main) /\ pc'[Main] = "accept" /\ sock'[Server] \in Fds
<1>1. Main \in Threads /\ Server \in Objects
  BY ThreadFacts, PlaceFacts
<1>2. Labelled /\ pc'[Main] = "accept" /\ \A u \in Threads : u # Main => pc'[u] = pc[u]
  BY <1>1, GotoLabelled DEF Inv, Still, Labels, WithClient
<1>3. sock[Server] = NoFd /\ \A f \in Fds : MayOpen(Server, f, l)
  BY <1>2 DEF Inv, OInv, PlacesInv, MainPlaces, MayOpen
<1>4. Effect /\ \E f \in Fds : Opens(Server, f, l)
  BY <1>1, <1>3, ListensEffect
<1>5. sock'[Server] \in Fds
  BY <1>1, <1>4 DEF Opens, Inv, OInv, Owned
<1>6. Queued /\ Data
  BY DEF Queued, Data
<1>. QED
  BY <1>2, <1>4, <1>5, <1>6, StillTypes DEF Served, Only

\* main returns, or the process is killed.
LEMMA ExitServed ==
  ASSUME Inv, Exit, UNCHANGED <<stage, pc, buf, streams>>, Queued, EventTypes'
  PROVE  Served /\ \A t \in Threads : Only(t)
<1>1. Effect /\ alive' = FALSE
  BY ExitEffect DEF Exit, Inv, OInv
<1>2. Labelled
  BY StaysLabelled DEF Inv
<1>3. Data
  BY <1>1 DEF Data
<1>. QED
  BY <1>1, <1>2, <1>3 DEF Served, Only

\* Setting up goes to the loop, or main returns.
LEMMA SetUpOrReturns ==
  ASSUME Inv, Still, alive, pc[Main] = "setup", ListensOrReturns
  PROVE  /\ Served /\ Only(Main) /\ pc'[Main] \in {"setup", "accept"}
         /\ alive' => pc'[Main] = "accept" /\ sock'[Server] \in Fds
<1>1. CASE Listens(Server, Port) /\ Goto(Main, "accept") /\ UNCHANGED alive
  <2>1. Port \in Files \ Conns
    BY ThreadFacts
  <2>. QED
    BY <1>1, <2>1, SetUpServed DEF ListensOrReturns
<1>2. CASE Exit /\ UNCHANGED pc
  <2>1. Served /\ \A t \in Threads : Only(t)
    BY <1>2, ExitServed, StaysQueued, StillTypes DEF ListensOrReturns, Still
  <2>. QED
    BY <1>2, <2>1, ThreadFacts DEF Exit
<1>. QED
  BY <1>1, <1>2 DEF ListensOrReturns

\* accept() into an object of the thread.
LEMMA AcceptsServed ==
  ASSUME Inv, Still, alive, stage \in OneClient, pc[Main] = "accept",
         NEW p \in Labels \cap WithClient, AcceptsOne(p)
  PROVE  Served /\ Only(Main) /\ pc'[Main] = p /\ FileOf(Client)' \in Conns
<1>1. Main \in Threads /\ Port \in Listeners /\ Client \in Objects
  BY ThreadFacts, PlaceFacts
<1>2. Labelled /\ pc'[Main] = p /\ \A u \in Threads : u # Main => pc'[u] = pc[u]
  BY <1>1, GotoLabelled DEF Inv, Still, AcceptsOne, WithClient
<1>3. PICK c \in Conns, f \in Fds :
        Takes(Port, c) /\ Lowest(f) /\ Become(Opened(Tables, Client, f, c))
  BY DEF AcceptsOne, Accepts
<1>4. sock[Client] = NoFd
  BY DEF Inv, OInv, PlacesInv, MainPlaces, WithClient
<1>5. Opens(Client, f, c) /\ MayOpen(Client, f, c) /\ c \in Files
  BY <1>2, <1>3, <1>4, OpenedOpens, ThreadFacts DEF MayOpen
<1>6. Effect
  BY <1>1, <1>3, <1>5, TakesArrives, OpensEffect
<1>7. sock'[Client] = f /\ fdtab'[f] = c
  BY <1>1, <1>5 DEF Opens, Inv, OInv, Owned
<1>8. FileOf(Client)' = c
  BY <1>3, <1>7, FdFacts DEF FileOf, IsValid, Client
<1>9. Queued /\ Data
  BY <1>1, <1>3, TakesQueued DEF AcceptsOne, Data, Inv, DInv, StreamTypes
<1>. QED
  BY <1>2, <1>6, <1>8, <1>9, StillTypes DEF Served, Only, AcceptsOne

\* What a buffer has after Recv, and what it says of the client.
LEMMA ReceivedFacts ==
  ASSUME Inv, NEW t \in Threads, NEW o \in Objects, Received(t, o),
         UNCHANGED <<alive, peer, sent, echoed, got>>
  PROVE  Data /\ buf'[t] # <<>> /\ \A u \in Threads : u # t => buf'[u] = buf[u]
<1>. PICK c : c = FileOf(o)
  OBVIOUS
<1>. PICK n : n = IF Unread(c) < RecvMax THEN Unread(c) ELSE RecvMax
  OBVIOUS
<1>1. /\ c \in Conns /\ Unread(c) > 0
      /\ buf' = [buf EXCEPT ![t] = [i \in 1 .. n |-> <<c, taken[c] + i>>]]
  BY DEF Received
<1>2. taken[c] \in Nat /\ n \in Nat /\ n > 0
  BY <1>1, KernelAssumption DEF Inv, DInv, StreamTypes, BoundsInv, Unread
<1>3. [i \in 1 .. n |-> <<c, taken[c] + i>>] # <<>>
  BY <1>1, <1>2, Units
<1>4. Data
  BY DEF Data, Reads, Inv, DInv, StreamTypes
<1>. QED
  BY <1>1, <1>3, <1>4 DEF Inv, DInv, StreamTypes

\* Recv, blocking or not.
LEMMA ReadsServed ==
  ASSUME Inv, Still, alive, stage \in OneClient, pc[Main] = "recv",
         NEW p \in {"send", "close"}, ReadsOne(p, "close")
  PROVE  /\ Served /\ Only(Main) /\ pc'[Main] \in {"send", "close"}
         /\ pc'[Main] = "send" => buf'[Main] # <<>>
<1>1. Main \in Threads /\ Client \in Objects
  BY ThreadFacts, PlaceFacts
<1>2. Effect /\ Queued /\ UNCHANGED <<alive, peer, sent, echoed, got>>
  BY DEF ReadsOne, Effect, Queued
<1>3. PICK l \in {"send", "close"} : Goto(Main, l)
  BY DEF ReadsOne
<1>4. Labelled /\ pc'[Main] = l /\ \A u \in Threads : u # Main => pc'[u] = pc[u]
  BY <1>1, <1>3, GotoLabelled DEF Inv, Still, Labels, WithClient
<1>5. CASE Received(Main, Client)
  BY <1>1, <1>2, <1>4, <1>5, StillTypes, ReceivedFacts DEF Served, Only
<1>6. CASE Goto(Main, "close") /\ UNCHANGED <<buf, taken>>
  <2>1. Data
    BY <1>2, <1>6 DEF Data, streams, Inv, DInv, StreamTypes
  <2>2. pc'[Main] = "close"
    BY <1>1, <1>6 DEF Goto, Inv, OInv
  <2>. QED
    BY <1>2, <1>4, <1>6, <2>1, <2>2, StillTypes DEF Served, Only
<1>. QED
  BY <1>5, <1>6 DEF ReadsOne

\* What is left to send is a part of the buffer.
LEMMA TailFacts ==
  ASSUME NEW s \in Seq(Conns \X Nat), s # <<>>
  PROVE  /\ Len(s) = 1 => Tail(s) = <<>>
         /\ Len(s) # 1 => Tail(s) # <<>>
         /\ 1 \in 0 .. Len(s)
<1>1. Len(s) \in Nat /\ Len(s) # 0
  BY EmptySeq
<1>2. Tail(s) \in Seq(Conns \X Nat) /\ Len(Tail(s)) = Len(s) - 1
  BY HeadTailProperties
<1>3. Tail(s) = <<>> <=> Len(Tail(s)) = 0
  BY <1>2, EmptySeq
<1>4. Len(s) = 1 => Tail(s) = <<>>
  BY <1>1, <1>2, <1>3
<1>5. Len(s) # 1 => Tail(s) # <<>>
  BY <1>1, <1>2, <1>3
<1>6. 1 \in 0 .. Len(s)
  BY <1>1
<1>. QED
  BY <1>4, <1>5, <1>6

\* A blocking Send, which may end the process with SIGPIPE.
LEMMA SendServed ==
  ASSUME Inv, Still, alive, stage \in Blocking, NEW t \in Threads, NEW o \in Objects,
         pc[t] = "send", SendBlocking(t, o, "recv"), UNCHANGED <<backlog, accepted, sent, taken, got>>
  PROVE  /\ Served /\ Only(t) /\ pc'[t] \in {"send", "recv"}
         /\ pc'[t] = "send" => buf'[t] # <<>>
         /\ pc'[t] = "recv" => buf'[t] = <<>>
<1>1. /\ buf \in [Threads -> Seq(Conns \X Nat)] /\ buf[t] \in Seq(Conns \X Nat) /\ buf[t] # <<>>
      /\ pc \in [Threads -> Labels]
  BY DEF Inv, OInv, DInv, StreamTypes, CInv, SendInv
<1>2. Queued /\ EventTypes'
  BY StillTypes DEF Queued
<1>3. Goto(t, "recv") => Labelled /\ pc'[t] = "recv" /\ \A u \in Threads : u # t => pc'[u] = pc[u]
  BY GotoLabelled DEF Inv, Still, Labels, WithClient
<1>4. UNCHANGED pc => Labelled
  BY StaysLabelled DEF Inv, Still
<1>5. CASE /\ ~SendBroken(o) /\ Room(o) > 0 /\ Transmits(t, o, 1)
           /\ buf' = [buf EXCEPT ![t] = Tail(@)]
           /\ IF Len(buf[t]) = 1 THEN Goto(t, "recv") ELSE UNCHANGED pc
           /\ UNCHANGED <<sock, fdtab, alive>>
  <2>1. FileOf(o) \in Conns
    BY <1>5 DEF SendBroken
  <2>2. 1 \in 0 .. Len(buf[t])
    BY <1>1, TailFacts
  <2>3. Room(o) \in Int
    <3>1. Len(echoed[FileOf(o)]) \in Nat /\ got[FileOf(o)] \in Nat
      BY <2>1 DEF Inv, DInv, StreamTypes
    <3>. QED
      BY <3>1, KernelAssumption DEF Room, InTransit
  <2>4. 1 <= Room(o)
    BY <1>5, <2>3
  <2>5. Writes
    BY <1>1, <1>5, <2>1, <2>2, <2>4 DEF Writes
  <2>6. Data /\ Effect
    BY <1>5, <2>5 DEF Data, Effect, Inv, DInv, StreamTypes
  <2>7. buf'[t] = Tail(buf[t]) /\ \A u \in Threads : u # t => buf'[u] = buf[u]
    BY <1>1, <1>5
  <2>8. CASE Len(buf[t]) = 1
    BY <1>1, <1>2, <1>3, <1>5, <2>6, <2>7, <2>8, TailFacts DEF Served, Only
  <2>9. CASE Len(buf[t]) # 1
    BY <1>1, <1>2, <1>4, <1>5, <2>6, <2>7, <2>9, TailFacts DEF Served, Only
  <2>. QED
    BY <2>8, <2>9
<1>6. CASE /\ buf' = [buf EXCEPT ![t] = <<>>] /\ Goto(t, "recv")
           /\ UNCHANGED <<sock, fdtab, alive, peer, echoed>>
  <2>1. Data /\ Effect
    BY <1>6 DEF Data, Drops, Effect, Inv, DInv, StreamTypes, streams
  <2>. QED
    BY <1>1, <1>2, <1>3, <1>6, <2>1 DEF Served, Only
<1>7. CASE Killed /\ UNCHANGED <<pc, buf, peer, echoed>>
  <2>1. Served /\ Only(t)
    BY <1>2, <1>7, ExitServed DEF Killed, Still, streams
  <2>. QED
    BY <1>1, <1>7, <2>1
<1>. QED
  BY <1>5, <1>6, <1>7 DEF SendBlocking

\* The least of what is there and what fits.
LEMMA Smaller ==
  ASSUME NEW m \in Nat, NEW k \in Nat
  PROVE  /\ (IF m < k THEN m ELSE k) \in 0 .. m /\ (IF m < k THEN m ELSE k) <= k
  OBVIOUS

\* The room in the window of a client.
LEMMA RoomNat ==
  ASSUME StreamTypes, BoundsInv, NEW o, FileOf(o) \in Conns PROVE Room(o) \in Nat
<1>. PICK c : c = FileOf(o)
  OBVIOUS
<1>1. /\ Len(echoed[c]) \in Nat /\ got[c] \in Nat /\ got[c] <= Len(echoed[c])
      /\ Len(echoed[c]) <= got[c] + TxMax
  BY DEF StreamTypes, BoundsInv
<1>. QED
  BY <1>1, KernelAssumption DEF Room, InTransit

\* A Send that does not block.
LEMMA SendNonBlockingServed ==
  ASSUME Inv, UNCHANGED stage, EventTypes', alive, NEW t \in Threads, NEW o \in Objects, NEW p \in Labels,
         p # "setup", t = Main /\ stage \in OneClient => p \in WithClient,
         SendNonBlocking(t, o, p), UNCHANGED <<backlog, accepted, sent, taken, got>>
  PROVE  Served /\ Only(t) /\ pc'[t] \in {pc[t], p}
<1>1. Queued
  BY DEF Queued
<1>2. CASE /\ IF SendBroken(o)
              THEN UNCHANGED <<peer, echoed>>
              ELSE Transmits(t, o, IF Len(buf[t]) < Room(o) THEN Len(buf[t]) ELSE Room(o))
           /\ buf' = [buf EXCEPT ![t] = <<>>] /\ Goto(t, p) /\ UNCHANGED <<sock, fdtab, alive>>
  <2>1. Labelled /\ pc'[t] = p /\ \A u \in Threads : u # t => pc'[u] = pc[u]
    BY <1>2, GotoLabelled DEF Inv
  <2>2. \A u \in Threads : u # t => buf'[u] = buf[u]
    BY <1>2 DEF Inv, DInv, StreamTypes
  <2>3. Drops \/ Writes
    <3>1. CASE SendBroken(o)
      BY <1>2, <3>1 DEF Drops, streams
    <3>2. CASE ~SendBroken(o)
      <4>. DEFINE n == IF Len(buf[t]) < Room(o) THEN Len(buf[t]) ELSE Room(o)
      <4>1. FileOf(o) \in Conns
        BY <3>2 DEF SendBroken
      <4>2. Room(o) \in Nat /\ Len(buf[t]) \in Nat
        BY <4>1, RoomNat DEF Inv, DInv, StreamTypes
      <4>3. n \in 0 .. Len(buf[t]) /\ n <= Room(o)
        BY <4>2, Smaller
      <4>4. Transmits(t, o, n)
        BY <1>2, <3>2
      <4>. HIDE DEF n
      <4>. QED
        BY <1>2, <4>1, <4>3, <4>4 DEF Writes
    <3>. QED
      BY <3>1, <3>2
  <2>4. Data /\ Effect
    BY <1>2, <2>3 DEF Data, Effect, Inv, DInv, StreamTypes
  <2>. QED
    BY <1>1, <2>1, <2>2, <2>4 DEF Served, Only
<1>3. CASE Killed /\ UNCHANGED <<pc, buf, peer, echoed>>
  BY <1>1, <1>3, ExitServed DEF Killed, streams
<1>. QED
  BY <1>2, <1>3 DEF SendNonBlocking

-----------------------------------------------------------------------------
(* Stages 01 to 03. *)

\* After a Send there is something left, or the thread goes on.
LEMMA SendKept ==
  ASSUME Inv, UNCHANGED stage, NEW t \in Threads, Only(t), pc'[t] = "send" => buf'[t] # <<>>
  PROVE  SendInv'
  BY DEF Inv, CInv, SendInv, Only

\* Most of what CInv says is about other stages.
LEMMA OneClientControl ==
  ASSUME UNCHANGED stage, stage \in OneClient, SendInv', GreetInv' PROVE CInv'
  BY DEF OneClient, CInv, CurInv, ListenInv, LogInv

\* Main alone moves.
LEMMA MainGoes ==
  ASSUME Inv, Still, NEW l \in Labels \ {"setup", "send"}, Goto(Main, l),
         stage \in OneClient /\ pc[Main] \in WithClient => l \in WithClient,
         UNCHANGED <<sock, fdtab, alive, buf, backlog, accepted, streams>>
  PROVE  Served /\ Only(Main) /\ pc'[Main] = l
<1>1. Labelled /\ pc'[Main] = l /\ \A u \in Threads : u # Main => pc'[u] = pc[u]
  BY GotoLabelled, ThreadFacts DEF Inv, Still
<1>2. Queued /\ Effect /\ Data
  BY DEF Queued, Effect, Data, Inv, DInv, StreamTypes
<1>. QED
  BY <1>1, <1>2, StillTypes DEF Served, Only

\* The steps of stage 01,
LEMMA Steps01 ==
  ASSUME stage = "01_skeleton", MainThread
  PROVE  SetUpSkeleton \/ AcceptForGreeting \/ Greet \/ ReadGreeting \/ CloseSkeleton
  BY DEF MainThread, At, SetUpEchoLoop, SetUpTestServer,
         SetUpThreadServer, SetUpLatency, SetUpNonBlock, AcceptOne, ReadLoop, WriteBack, CloseEchoLoop,
         TestServerAccepts, TestServerRecv, TestServerSend, TestServerReturns,
         ThreadServerAccepts, LatencyServerAccepts, EnterLoop, PollAccept, PollRecv, PollSend

\* of which the greeting is sent to a client that has had nothing,
LEMMA GreetStep ==
  ASSUME Inv, Still, stage = "01_skeleton", Greet
  PROVE  Served /\ Only(Main) /\ (alive' => pc'[Main] = "recv") /\ pc'[Main] # "send"
<1>1. alive /\ pc[Main] = "greet" /\ UNCHANGED <<buf, backlog, accepted, peer, sent, taken, got>>
  BY DEF Greet, At
<1>2. FileOf(Client) \in Conns /\ echoed[FileOf(Client)] = <<>>
  BY <1>1 DEF Inv, CInv, GreetInv
<1>3. Goto(Main, "recv") => /\ Labelled /\ pc'[Main] = "recv"
                           /\ \A u \in Threads : u # Main => pc'[u] = pc[u]
  BY GotoLabelled, ThreadFacts DEF Inv, Still, Labels, WithClient
<1>4. CASE /\ echoed' = [echoed EXCEPT ![FileOf(Client)] = Append(@, <<FileOf(Client), 0>>)]
           /\ Goto(Main, "recv") /\ UNCHANGED <<sock, fdtab, alive>>
  <2>1. Data
    BY <1>1, <1>2, <1>4 DEF Data, Greets, Inv, DInv, StreamTypes
  <2>. QED
    BY <1>1, <1>3, <1>4, <2>1, StillTypes DEF Served, Only, Queued, Effect
<1>5. CASE Goto(Main, "recv") /\ UNCHANGED <<sock, fdtab, alive, echoed>>
  <2>1. Data
    BY <1>1, <1>5 DEF Data, streams, Inv, DInv, StreamTypes
  <2>. QED
    BY <1>1, <1>3, <1>5, <2>1, StillTypes DEF Served, Only, Queued, Effect
<1>6. CASE Killed /\ UNCHANGED <<pc, echoed>>
  <2>1. Served /\ Only(Main)
    BY <1>1, <1>6, ExitServed, StaysQueued, StillTypes, ThreadFacts DEF Killed, Still, streams
  <2>. QED
    BY <1>1, <1>6, <2>1 DEF Killed, Exit
<1>. QED
  BY <1>4, <1>5, <1>6 DEF Greet

\* have the shape.
LEMMA Stage01 ==
  ASSUME Inv, Still, stage = "01_skeleton", MainThread \/ AcceptError
  PROVE  Served /\ CInv'
<1>0. stage \in OneClient /\ Main \in Threads
  BY ThreadFacts DEF OneClient
<1>1. CASE SetUpSkeleton
  <2>1. PICK l \in {Port, Fresh} : Listens(Server, l)
    BY <1>1 DEF SetUpSkeleton, ListensAnyway
  <2>2. l \in Files \ Conns
    BY ThreadFacts
  <2>3. Served /\ Only(Main) /\ pc'[Main] = "accept" /\ UNCHANGED <<alive, echoed>>
    BY <1>1, <2>1, <2>2, SetUpServed DEF SetUpSkeleton, ListensAnyway, At, streams
  <2>4. SendInv'
    BY <1>0, <2>3, SendKept DEF Still
  <2>5. GreetInv'
    BY <1>1, <2>3 DEF SetUpSkeleton, At, Still, Inv, CInv, GreetInv
  <2>. QED
    BY <1>0, <2>3, <2>4, <2>5, OneClientControl DEF Still
<1>2. CASE AcceptForGreeting
  <2>1. "greet" \in Labels \cap WithClient
    BY DEF Labels, WithClient
  <2>2. /\ Served /\ Only(Main) /\ pc'[Main] = "greet" /\ FileOf(Client)' \in Conns
        /\ UNCHANGED <<alive, echoed>>
    BY <1>0, <1>2, <2>1, AcceptsServed DEF AcceptForGreeting, AcceptsOne, At, streams
  <2>3. SendInv'
    BY <1>0, <2>2, SendKept DEF Still
  <2>4. GreetInv'
    BY <1>2, <2>2 DEF AcceptForGreeting, At, Still, Inv, CInv, GreetInv
  <2>. QED
    BY <1>0, <2>2, <2>3, <2>4, OneClientControl DEF Still
<1>3. CASE Greet
  <2>1. Served /\ Only(Main) /\ (alive' => pc'[Main] = "recv") /\ pc'[Main] # "send"
    BY <1>3, GreetStep
  <2>2. SendInv'
    BY <1>0, <2>1, SendKept DEF Still
  <2>3. GreetInv'
    BY <2>1 DEF GreetInv
  <2>. QED
    BY <1>0, <2>1, <2>2, <2>3, OneClientControl DEF Still
<1>4. CASE ReadGreeting
  <2>1. /\ Served /\ Only(Main) /\ pc'[Main] = "close"
    <3>1. Served /\ Only(Main)
      BY <1>0, <1>4, ReadsServed DEF ReadGreeting, At
    <3>2. Goto(Main, "close")
      BY <1>4 DEF ReadGreeting, ReadsOne
    <3>. QED
      BY <1>0, <3>1, <3>2 DEF Goto, Inv, OInv
  <2>2. SendInv' /\ GreetInv'
    BY <1>0, <2>1, SendKept DEF Still, GreetInv
  <2>. QED
    BY <1>0, <2>1, <2>2, OneClientControl DEF Still
<1>5. CASE CloseSkeleton
  <2>1. Served /\ Only(Main) /\ pc'[Main] = "close" /\ ~alive'
    BY <1>0, <1>5, ExitServed, StaysQueued, StillTypes DEF CloseSkeleton, At, ClosesAll, Still, Exit
  <2>2. SendInv' /\ GreetInv'
    BY <1>0, <2>1, SendKept DEF Still, GreetInv
  <2>. QED
    BY <1>0, <2>1, <2>2, OneClientControl DEF Still
<1>6. CASE AcceptError
  <2>1. Goto(Main, "close") /\ pc[Main] = "accept"
        /\ UNCHANGED <<sock, fdtab, alive, buf, backlog, accepted, streams>>
    BY <1>6 DEF AcceptError, At
  <2>2. Served /\ Only(Main) /\ pc'[Main] = "close"
    BY <2>1, MainGoes DEF Labels, WithClient
  <2>3. SendInv' /\ GreetInv'
    BY <1>0, <2>2, SendKept DEF Still, GreetInv
  <2>. QED
    BY <1>0, <2>2, <2>3, OneClientControl DEF Still
<1>. QED
  BY <1>1, <1>2, <1>3, <1>4, <1>5, <1>6, Steps01

\* The servers of 02 and 03 run the same loop.
LoopStep ==
  \/ pc[Main] = "setup" /\ ListensAnyway
  \/ pc[Main] = "accept" /\ AcceptsOne("recv")
  \/ pc[Main] = "recv" /\ ReadsOne("send", "close")
  \/ pc[Main] = "send" /\ WritesOne
  \/ pc[Main] = "close" /\ ClosesAll

\* The steps of stage 02,
LEMMA Steps02 ==
  ASSUME stage = "02_EchoLoop", MainThread PROVE alive /\ LoopStep
  BY DEF MainThread, At, SetUpSkeleton, SetUpEchoLoop, SetUpTestServer,
         SetUpThreadServer, SetUpLatency, SetUpNonBlock, AcceptForGreeting, Greet, ReadGreeting,
         CloseSkeleton, AcceptOne, ReadLoop, WriteBack, CloseEchoLoop,
         TestServerAccepts, TestServerRecv, TestServerSend, TestServerReturns,
         ThreadServerAccepts, LatencyServerAccepts, EnterLoop, PollAccept, PollRecv, PollSend, LoopStep

\* and of stage 03,
LEMMA Steps03 ==
  ASSUME stage = "03_SocketClass", MainThread PROVE alive /\ LoopStep
  BY DEF MainThread, At, SetUpSkeleton, SetUpEchoLoop, SetUpTestServer,
         SetUpThreadServer, SetUpLatency, SetUpNonBlock, AcceptForGreeting, Greet, ReadGreeting,
         CloseSkeleton, AcceptOne, ReadLoop, WriteBack, CloseEchoLoop,
         TestServerAccepts, TestServerRecv, TestServerSend, TestServerReturns,
         ThreadServerAccepts, LatencyServerAccepts, EnterLoop, PollAccept, PollRecv, PollSend, LoopStep

\* have the shape: one client at a time.
LEMMA LoopServed ==
  ASSUME Inv, Still, stage \in {"02_EchoLoop", "03_SocketClass"}, (alive /\ LoopStep) \/ AcceptError
  PROVE  Served /\ CInv'
<1>0. stage \in OneClient /\ Main \in Threads /\ Client \in Objects /\ stage \in Blocking
  BY ThreadFacts, PlaceFacts DEF OneClient, Blocking
<1>1. ASSUME Served, Only(Main), pc'[Main] = "send" => buf'[Main] # <<>> PROVE Served /\ CInv'
  <2>1. SendInv'
    BY <1>0, <1>1, SendKept DEF Still
  <2>2. GreetInv'
    BY DEF Still, GreetInv
  <2>. QED
    BY <1>0, <1>1, <2>1, <2>2, OneClientControl DEF Still
<1>2. CASE alive /\ pc[Main] = "setup" /\ ListensAnyway
  <2>1. PICK l \in {Port, Fresh} : Listens(Server, l)
    BY <1>2 DEF ListensAnyway
  <2>2. l \in Files \ Conns
    BY ThreadFacts
  <2>3. Served /\ Only(Main) /\ pc'[Main] = "accept"
    BY <1>2, <2>1, <2>2, SetUpServed DEF ListensAnyway
  <2>. QED
    BY <1>1, <2>3
<1>3. CASE alive /\ pc[Main] = "accept" /\ AcceptsOne("recv")
  <2>1. "recv" \in Labels \cap WithClient
    BY DEF Labels, WithClient
  <2>2. Served /\ Only(Main) /\ pc'[Main] = "recv"
    BY <1>0, <1>3, <2>1, AcceptsServed
  <2>. QED
    BY <1>1, <2>2
<1>4. CASE alive /\ pc[Main] = "recv" /\ ReadsOne("send", "close")
  <2>1. Served /\ Only(Main) /\ (pc'[Main] = "send" => buf'[Main] # <<>>)
    BY <1>0, <1>4, ReadsServed
  <2>. QED
    BY <1>1, <2>1
<1>5. CASE alive /\ pc[Main] = "send" /\ WritesOne
  <2>1. Served /\ Only(Main) /\ (pc'[Main] = "send" => buf'[Main] # <<>>)
    BY <1>0, <1>5, SendServed DEF WritesOne
  <2>. QED
    BY <1>1, <2>1
<1>6. CASE alive /\ pc[Main] = "close" /\ ClosesAll
  <2>1. Served /\ Only(Main) /\ pc'[Main] = "close"
    BY <1>0, <1>6, ExitServed, StaysQueued, StillTypes DEF ClosesAll, Still
  <2>. QED
    BY <1>1, <2>1
<1>7. CASE AcceptError
  <2>1. PICK l \in {"close", "spin"} : Goto(Main, l)
    BY <1>7 DEF AcceptError, At
  <2>2. pc[Main] = "accept" /\ UNCHANGED <<sock, fdtab, alive, buf, backlog, accepted, streams>>
    BY <1>7 DEF AcceptError, At
  <2>3. Served /\ Only(Main) /\ pc'[Main] = l
    BY <2>1, <2>2, MainGoes DEF Labels, WithClient
  <2>. QED
    BY <1>1, <2>3
<1>. QED
  BY <1>2, <1>3, <1>4, <1>5, <1>6, <1>7 DEF LoopStep

-----------------------------------------------------------------------------
(* Stages 04 and 05. *)

\* A client is accepted and handed to a new thread.
LEMMA HandsServed ==
  ASSUME Inv, Still, stage \notin OneClient, alive, pc[Main] = "accept", NEW c \in Conns, Hands(c)
  PROVE  /\ Served /\ Only(c) /\ c \in backlog[Port] /\ pc'[c] \in {pc[c], "recv"}
         /\ UNCHANGED <<buf, peer>> /\ accepted \subseteq accepted'
         /\ (sock'[Own(c)] \in {sock[Own(c)], NoFd} \/ pc'[c] = "recv")
         /\ \A d \in Conns \ {c} : sock'[Own(d)] \in {sock[Own(d)], NoFd}
<1>1. /\ Main \in Threads /\ Port \in Listeners /\ Client \in Objects /\ c \in Threads
      /\ Own(c) \in Objects /\ Client # Own(c) /\ c # Main /\ c \in Files
  BY ThreadFacts, PlaceFacts
<1>2. Takes(Port, c) /\ UNCHANGED <<buf, streams>>
  BY DEF Hands
<1>3. Queued /\ c \in accepted' /\ accepted \subseteq accepted' /\ c \in backlog[Port]
  BY <1>1, <1>2, TakesQueued DEF Takes
<1>4. CASE /\ \E f \in Fds : Lowest(f) /\ Become(Moved(Opened(Tables, Client, f, c), Own(c), Client))
           /\ Goto(c, "recv") /\ UNCHANGED alive
  <2>1. Labelled /\ pc'[c] = "recv" /\ \A u \in Threads : u # c => pc'[u] = pc[u]
    BY <1>1, <1>4, GotoLabelled DEF Inv, Still, Labels
  <2>2. sock[Client] = NoFd /\ sock[Own(c)] = NoFd
    <3>1. c \notin accepted
      BY <1>1, <1>3 DEF Inv, OInv, QueuesInv
    <3>. QED
      BY <1>1, <3>1 DEF Inv, OInv, PlacesInv, MainPlaces, ThreadPlaces
  <2>3. PICK f \in Fds : Lowest(f) /\ Become(Moved(Opened(Tables, Client, f, c), Own(c), Client))
    BY <1>4
  <2>4. Opens(Own(c), f, c)
    BY <1>1, <2>2, <2>3, MovedOpens DEF Inv, OInv
  <2>5. Effect
    BY <1>1, <1>2, <1>3, <2>1, <2>4, TakesArrives, OpensEffect DEF MayOpen
  <2>6. Data
    BY <1>2, <1>4 DEF Data, Inv, DInv, StreamTypes
  <2>7. \A d \in Conns \ {c} : sock'[Own(d)] = sock[Own(d)]
    BY <1>1, <2>4, PlaceFacts, PlacesDiffer DEF Opens, Inv, OInv, Owned
  <2>. QED
    BY <1>2, <1>3, <2>1, <2>5, <2>6, <2>7, StillTypes DEF Served, Only, streams
<1>5. CASE Exit /\ UNCHANGED pc
  <2>1. Served /\ Only(c)
    BY <1>1, <1>2, <1>3, <1>5, ExitServed, StillTypes DEF Still
  <2>2. \A d \in Conns : sock'[Own(d)] = NoFd
    BY <1>5, PlaceFacts DEF Exit
  <2>. QED
    BY <1>2, <1>3, <1>5, <2>1, <2>2 DEF streams
<1>. QED
  BY <1>4, <1>5 DEF Hands

\* The thread of a client that is served.
LEMMA OwnClient ==
  ASSUME Inv, NEW c \in Conns PROVE FileOf(Own(c)) \in {c, NoFile}
  BY DEF Inv, OInv, PlacesInv, ThreadPlaces, FileOf, IsValid

\* At the end of its client a thread's closure is destroyed.
LEMMA ThreadEnds ==
  ASSUME Inv, stage \in {"04_MultiThread", "05_Latency"}, NEW c \in Conns, ~Sending(c),
         Become(Destroyed(Tables, Own(c))), sock[Own(c)] # NoFd => peer[c] # "open"
  PROVE  Effect
<1>1. FileOf(Own(c)) \in Conns => peer[FileOf(Own(c))] # "open"
  BY OwnClient, ThreadFacts DEF FileOf, IsValid
<1>2. Sender(c) /\ Holder(c) = Own(c) /\ c \in Threads
  BY ThreadFacts DEF Sender, Holder
<1>3. Spares({Own(c)})
  BY <1>2, HolderSpared
<1>. QED
  BY <1>1, <1>3, DestroyedEffect, PlaceFacts DEF Inv, OInv

\* A thread reads from its client.
LEMMA ThreadReadsServed ==
  ASSUME Inv, Still, stage \in {"04_MultiThread", "05_Latency"}, alive, NEW c \in Conns,
         pc[c] = "recv", NEW p \in {"log", "send"}, NEW e \in {"log", "exited"}, ThreadReads(c, p, e)
  PROVE  /\ Served /\ Only(c) /\ UNCHANGED <<peer, accepted>>
         /\ \/ pc'[c] = p /\ buf'[c] # <<>> /\ c \in accepted
            \/ pc'[c] = e /\ buf'[c] = buf[c] /\ (sock[Own(c)] # NoFd => peer[c] # "open")
<1>1. c \in Threads /\ Own(c) \in Objects /\ c # Main
  BY ThreadFacts, PlaceFacts
<1>2. Queued /\ UNCHANGED <<alive, accepted, peer, sent, echoed, got>>
  BY DEF ThreadReads, Queued
<1>3. CASE Received(c, Own(c)) /\ Goto(c, p) /\ UNCHANGED <<sock, fdtab>>
  <2>1. Labelled /\ pc'[c] = p /\ \A u \in Threads : u # c => pc'[u] = pc[u]
    BY <1>1, <1>3, GotoLabelled DEF Inv, Still, Labels
  <2>2. Data /\ buf'[c] # <<>> /\ \A u \in Threads : u # c => buf'[u] = buf[u]
    BY <1>1, <1>2, <1>3, ReceivedFacts
  <2>3. Effect
    BY <1>3 DEF Effect
  <2>4. sock[Own(c)] # NoFd
    BY <1>3, ThreadFacts DEF Received, FileOf, IsValid
  <2>5. c \in accepted
    BY <2>4 DEF Inv, OInv, PlacesInv, ThreadPlaces
  <2>. QED
    BY <1>2, <2>1, <2>2, <2>3, <2>5, StillTypes DEF Served, Only
<1>4. CASE /\ AtEnd(Own(c)) /\ UNCHANGED <<buf, taken>> /\ Goto(c, e)
           /\ IF e = "exited" THEN Become(Destroyed(Tables, Own(c))) ELSE UNCHANGED <<sock, fdtab>>
  <2>1. Labelled /\ pc'[c] = e /\ \A u \in Threads : u # c => pc'[u] = pc[u]
    BY <1>1, <1>4, GotoLabelled DEF Inv, Still, Labels
  <2>2. sock[Own(c)] # NoFd => peer[c] # "open"
    BY <1>4 DEF AtEnd, FileOf, IsValid, Inv, OInv, PlacesInv, ThreadPlaces
  <2>3. Effect
    BY <1>4, <2>2, ThreadEnds DEF Effect, Sending
  <2>4. Data
    BY <1>2, <1>4 DEF Data, streams, Inv, DInv, StreamTypes
  <2>. QED
    BY <1>2, <1>4, <2>1, <2>2, <2>3, <2>4, StillTypes DEF Served, Only
<1>. QED
  BY <1>3, <1>4 DEF ThreadReads

\* What is logged between Recv and Send is still true at Send.
LEMMA LogKept ==
  ASSUME Inv, Served, NEW t \in Threads, Only(t),
         \A c \in Conns : c = t =>
           /\ pc'[c] = "recv" \/ c \notin accepted' => buf'[c] = <<>>
           /\ pc'[c] = "log" /\ buf'[c] = <<>> /\ sock[Own(c)] # NoFd => peer[c] # "open"
  PROVE  LogInv'
<1>1. stage' = stage /\ accepted \subseteq accepted'
      /\ \A c \in Conns : peer'[c] = "open" => peer[c] = "open"
  BY QueuesKept, DataKept DEF Inv, OInv, Served, Labelled
<1>2. ASSUME NEW c \in Conns, pc'[c] # "recv", sock'[Own(c)] # NoFd PROVE sock[Own(c)] # NoFd
  <2>1. Own(c) \in Objects
        /\ (sock'[Own(c)] \in Fds => ~MayOpen(Own(c), sock'[Own(c)], fdtab'[sock'[Own(c)]]))
    BY <1>2, PlaceFacts, PlacesDiffer DEF MayOpen
  <2>. QED
    BY <1>2, <2>1, EffectAt DEF Keeps, Served, Inv, OInv
<1>3. ASSUME stage = "04_MultiThread", NEW c \in Conns
      PROVE  /\ pc'[c] = "recv" \/ c \notin accepted' => buf'[c] = <<>>
             /\ pc'[c] = "log" /\ buf'[c] = <<>> /\ sock'[Own(c)] # NoFd => peer'[c] # "open"
  <2>1. CASE c = t
    BY <1>1, <1>2, <2>1
  <2>2. CASE c # t
    <3>1. pc'[c] = pc[c] /\ buf'[c] = buf[c]
      BY <2>2, ThreadFacts DEF Only
    <3>. QED
      BY <1>1, <1>2, <1>3, <3>1 DEF Inv, CInv, LogInv
  <2>. QED
    BY <2>1, <2>2
<1>. QED
  BY <1>1, <1>3 DEF LogInv, Own

\* The steps of a thread of stage 04,
LEMMA Steps04 ==
  ASSUME stage = "04_MultiThread", MainThread
  PROVE  alive /\ \/ pc[Main] = "setup" /\ ListensOrReturns
                  \/ pc[Main] = "accept" /\ \E c \in Conns : Hands(c)
  BY DEF MainThread, At, SetUpSkeleton, SetUpEchoLoop, SetUpTestServer,
         SetUpThreadServer, SetUpLatency, SetUpNonBlock, AcceptForGreeting, Greet, ReadGreeting,
         CloseSkeleton, AcceptOne, ReadLoop, WriteBack, CloseEchoLoop,
         TestServerAccepts, TestServerRecv, TestServerSend, TestServerReturns,
         ThreadServerAccepts, LatencyServerAccepts, EnterLoop, PollAccept, PollRecv, PollSend

\* and of stage 05.
LEMMA Steps05 ==
  ASSUME stage = "05_Latency", MainThread
  PROVE  alive /\ \/ pc[Main] = "setup" /\ ListensOrReturns
                  \/ pc[Main] = "accept" /\ \E c \in Conns : Hands(c)
  BY DEF MainThread, At, SetUpSkeleton, SetUpEchoLoop, SetUpTestServer,
         SetUpThreadServer, SetUpLatency, SetUpNonBlock, AcceptForGreeting, Greet, ReadGreeting,
         CloseSkeleton, AcceptOne, ReadLoop, WriteBack, CloseEchoLoop,
         TestServerAccepts, TestServerRecv, TestServerSend, TestServerReturns,
         ThreadServerAccepts, LatencyServerAccepts, EnterLoop, PollAccept, PollRecv, PollSend

\* Control in the thread-per-client servers.
LEMMA ThreadControl ==
  ASSUME UNCHANGED stage, stage \in {"04_MultiThread", "05_Latency"}, SendInv', LogInv' PROVE CInv'
  BY DEF CInv, CurInv, ListenInv, GreetInv

\* Their main thread.
LEMMA AcceptorServed ==
  ASSUME Inv, Still, stage \in {"04_MultiThread", "05_Latency"}, MainThread
  PROVE  Served /\ CInv'
<1>0. Main \in Threads /\ Main \notin Conns /\ stage \notin OneClient
  BY ThreadFacts DEF OneClient
<1>1. CASE alive /\ pc[Main] = "setup" /\ ListensOrReturns
  <2>1. Served /\ Only(Main) /\ pc'[Main] # "send"
    BY <1>1, SetUpOrReturns
  <2>2. SendInv' /\ LogInv'
    BY <1>0, <2>1, SendKept, LogKept DEF Still
  <2>. QED
    BY <2>1, <2>2, ThreadControl DEF Still
<1>2. ASSUME alive, pc[Main] = "accept", NEW c \in Conns, Hands(c) PROVE Served /\ CInv'
  <2>1. c \in Threads /\ Port \in Listeners
    BY ThreadFacts
  <2>2. /\ Served /\ Only(c) /\ c \in backlog[Port] /\ pc'[c] \in {pc[c], "recv"}
        /\ UNCHANGED <<buf, peer>>
    BY <1>0, <1>2, HandsServed
  <2>3. c \notin accepted
    BY <2>1, <2>2 DEF Inv, OInv, QueuesInv
  <2>4. SendInv'
    BY <2>1, <2>2, SendKept DEF Still, Inv, CInv, SendInv
  <2>5. stage = "04_MultiThread" => buf[c] = <<>> /\
          (pc[c] = "log" /\ sock[Own(c)] # NoFd => peer[c] # "open")
    BY <2>3 DEF Inv, CInv, LogInv
  <2>6. LogInv'
    <3>1. CASE stage = "04_MultiThread"
      BY <2>1, <2>2, <2>5, <3>1, LogKept
    <3>2. CASE stage # "04_MultiThread"
      BY <3>2 DEF LogInv, Still
    <3>. QED
      BY <3>1, <3>2
  <2>. QED
    BY <2>2, <2>4, <2>6, ThreadControl DEF Still
<1>. QED
  BY <1>1, <1>2, Steps04, Steps05

\* The threads of both stages.
LEMMA Steps0405 ==
  ASSUME NEW c \in Conns, ConnThread(c)
  PROVE  /\ alive
         /\ \/ /\ stage = "04_MultiThread"
               /\ \/ pc[c] = "recv" /\ ThreadReads(c, "log", "log")
                  \/ ThreadServerLogs(c)
                  \/ pc[c] = "send" /\ ThreadWrites(c)
            \/ /\ stage = "05_Latency"
               /\ \/ pc[c] = "recv" /\ ThreadReads(c, "send", "exited")
                  \/ pc[c] = "send" /\ ThreadWrites(c)
  BY DEF ConnThread, ThreadServerRecv, ThreadServerLogs, ThreadServerSend, LatencyServerRecv,
         LatencyServerSend, ThreadAt

\* A thread of 04 logs.
LEMMA LogsServed ==
  ASSUME Inv, Still, NEW c \in Conns, ThreadServerLogs(c)
  PROVE  /\ Served /\ Only(c) /\ UNCHANGED <<accepted, buf>>
         /\ \/ pc'[c] = "send" /\ buf[c] # <<>>
            \/ pc'[c] = "exited"
<1>1. /\ c \in Threads /\ c # Main /\ alive /\ stage = "04_MultiThread" /\ pc[c] = "log"
      /\ UNCHANGED <<alive, buf, backlog, accepted, streams>>
  BY ThreadFacts DEF ThreadServerLogs, ThreadAt
<1>2. Queued /\ Data
  BY <1>1 DEF Queued, Data, Inv, DInv, StreamTypes
<1>3. CASE buf[c] # <<>> /\ Goto(c, "send") /\ UNCHANGED <<sock, fdtab>>
  <2>1. Labelled /\ pc'[c] = "send" /\ \A u \in Threads : u # c => pc'[u] = pc[u]
    BY <1>1, <1>3, GotoLabelled DEF Inv, Still, Labels
  <2>. QED
    BY <1>1, <1>2, <1>3, <2>1, StillTypes DEF Served, Only, Effect
<1>4. CASE buf[c] = <<>> /\ Goto(c, "exited") /\ Become(Destroyed(Tables, Own(c)))
  <2>1. Labelled /\ pc'[c] = "exited" /\ \A u \in Threads : u # c => pc'[u] = pc[u]
    BY <1>1, <1>4, GotoLabelled DEF Inv, Still, Labels
  <2>2. sock[Own(c)] # NoFd => peer[c] # "open"
    BY <1>1, <1>4 DEF Inv, CInv, LogInv
  <2>3. Effect
    BY <1>1, <1>4, <2>2, ThreadEnds DEF Sending
  <2>. QED
    BY <1>1, <1>2, <2>1, <2>3, StillTypes DEF Served, Only
<1>. QED
  BY <1>3, <1>4 DEF ThreadServerLogs

\* A step of a client thread.
LEMMA ThreadServed ==
  ASSUME Inv, Still, NEW c \in Conns, ConnThread(c) PROVE Served /\ CInv'
<1>0. c \in Threads /\ Own(c) \in Objects /\ alive /\ stage \in {"04_MultiThread", "05_Latency"}
      /\ stage \in Blocking
  BY ThreadFacts, PlaceFacts, Steps0405 DEF Blocking
<1>1. ASSUME Served, Only(c), pc'[c] = "send" => buf'[c] # <<>>,
             stage = "04_MultiThread" =>
               /\ pc'[c] = "recv" \/ c \notin accepted' => buf'[c] = <<>>
               /\ pc'[c] = "log" /\ buf'[c] = <<>> /\ sock[Own(c)] # NoFd => peer[c] # "open"
      PROVE  Served /\ CInv'
  <2>1. SendInv'
    BY <1>0, <1>1, SendKept DEF Still
  <2>2. LogInv'
    <3>1. CASE stage = "04_MultiThread"
      BY <1>0, <1>1, <3>1, LogKept
    <3>2. CASE stage # "04_MultiThread"
      BY <3>2 DEF LogInv, Still
    <3>. QED
      BY <3>1, <3>2
  <2>. QED
    BY <1>0, <1>1, <2>1, <2>2, ThreadControl DEF Still
<1>2. CASE stage = "04_MultiThread" /\ pc[c] = "recv" /\ ThreadReads(c, "log", "log")
  <2>1. /\ Served /\ Only(c) /\ UNCHANGED <<peer, accepted>>
        /\ \/ pc'[c] = "log" /\ buf'[c] # <<>> /\ c \in accepted
           \/ pc'[c] = "log" /\ buf'[c] = buf[c] /\ (sock[Own(c)] # NoFd => peer[c] # "open")
    BY <1>0, <1>2, ThreadReadsServed
  <2>2. c \notin accepted => buf[c] = <<>>
    BY <1>2 DEF Inv, CInv, LogInv
  <2>. QED
    BY <1>1, <2>1, <2>2
<1>3. CASE stage = "04_MultiThread" /\ ThreadServerLogs(c)
  <2>1. /\ Served /\ Only(c) /\ UNCHANGED <<accepted, buf>>
        /\ (pc'[c] = "send" /\ buf[c] # <<>>) \/ pc'[c] = "exited"
    BY <1>3, LogsServed
  <2>2. c \notin accepted => buf[c] = <<>>
    BY <1>3 DEF Inv, CInv, LogInv
  <2>. QED
    BY <1>1, <2>1, <2>2
<1>4. CASE pc[c] = "send" /\ ThreadWrites(c)
  <2>1. /\ Served /\ Only(c) /\ pc'[c] \in {"send", "recv"} /\ UNCHANGED accepted
        /\ pc'[c] = "send" => buf'[c] # <<>>
        /\ pc'[c] = "recv" => buf'[c] = <<>>
    BY <1>0, <1>4, SendServed DEF ThreadWrites
  <2>2. stage = "04_MultiThread" => c \in accepted
    BY <1>0, <1>4 DEF Inv, CInv, SendInv, LogInv
  <2>. QED
    BY <1>1, <2>1, <2>2
<1>5. CASE stage = "05_Latency" /\ pc[c] = "recv" /\ ThreadReads(c, "send", "exited")
  <2>1. /\ Served /\ Only(c)
        /\ \/ pc'[c] = "send" /\ buf'[c] # <<>>
           \/ pc'[c] = "exited"
    BY <1>0, <1>5, ThreadReadsServed
  <2>. QED
    BY <1>1, <1>5, <2>1
<1>. QED
  BY <1>2, <1>3, <1>4, <1>5, Steps0405

-----------------------------------------------------------------------------
(* Stage 06. *)

\* The steps of stage 06.
LEMMA Steps06 ==
  ASSUME stage = "06_NonBlock", MainThread
  PROVE  SetUpNonBlock \/ EnterLoop \/ PollAccept \/ PollRecv \/ PollSend
  BY DEF MainThread, At, SetUpSkeleton, SetUpEchoLoop, SetUpTestServer,
         SetUpThreadServer, SetUpLatency, AcceptForGreeting, Greet, ReadGreeting,
         CloseSkeleton, AcceptOne, ReadLoop, WriteBack, CloseEchoLoop,
         TestServerAccepts, TestServerRecv, TestServerSend, TestServerReturns,
         ThreadServerAccepts, LatencyServerAccepts

\* Control says nothing of stage 06,
LEMMA PollControl == ASSUME UNCHANGED stage, stage = "06_NonBlock" PROVE CInv'
  BY DEF CInv, CurInv, ListenInv, GreetInv, LogInv, SendInv, Blocking

\* which polls for a client,
LEMMA PollAcceptServed ==
  ASSUME Inv, Still, stage = "06_NonBlock", PollAccept PROVE Served
<1>1. /\ Client \in Objects /\ Temporary \in Objects /\ Client # Temporary /\ Port \in Listeners
      /\ pc[Main] = "poll" /\ sock[Client] = NoFd /\ UNCHANGED <<alive, pc, buf, streams>>
  BY PlaceFacts, ThreadFacts DEF PollAccept, At, IsValid
<1>2. PICK c \in Conns, f \in Fds :
        /\ Takes(Port, c) /\ Lowest(f)
        /\ Become(Assigned(Opened(Tables, Temporary, f, c), Client, Temporary))
  BY DEF PollAccept
<1>3. sock[Temporary] = NoFd /\ c \in Files
  BY ThreadFacts DEF Inv, OInv, PlacesInv, MainPlaces
<1>4. Opens(Client, f, c)
  BY <1>1, <1>2, <1>3, AssignedOpens DEF Inv, OInv
<1>5. MayOpen(Client, f, c)
  BY <1>1 DEF MayOpen, OneClient, WithClient
<1>6. Effect
  BY <1>1, <1>2, <1>3, <1>4, <1>5, TakesArrives, OpensEffect
<1>7. Labelled /\ Queued /\ Data
  BY <1>1, <1>2, StaysLabelled, TakesQueued DEF Inv, Still, Data, DInv, StreamTypes
<1>. QED
  BY <1>6, <1>7, StillTypes DEF Served

\* for its data,
LEMMA PollRecvServed ==
  ASSUME Inv, Still, stage = "06_NonBlock", PollRecv PROVE Served
<1>1. /\ Client \in Objects /\ Temporary \in Objects /\ Client # Temporary /\ Main \in Threads
      /\ pc[Main] = "poll" /\ UNCHANGED <<alive, backlog, accepted, peer, sent, echoed, got>>
  BY PlaceFacts, ThreadFacts DEF PollRecv, At
<1>2. Queued
  BY <1>1 DEF Queued
<1>3. CASE Received(Main, Client) /\ Goto(Main, "send") /\ UNCHANGED <<sock, fdtab>>
  <2>1. Labelled
    BY <1>1, <1>3, GotoLabelled DEF Inv, Still, Labels, WithClient
  <2>2. Data /\ Effect
    BY <1>1, <1>3, ReceivedFacts DEF Effect
  <2>. QED
    BY <1>2, <2>1, <2>2, StillTypes DEF Served
<1>4. CASE /\ AtEnd(Client) /\ Become(Assigned(DefaultConstructed(Tables, Temporary), Client, Temporary))
           /\ UNCHANGED <<pc, buf, taken>>
  <2>1. Labelled
    BY <1>4, StaysLabelled DEF Inv, Still
  <2>2. sock[Temporary] = NoFd
    BY DEF Inv, OInv, PlacesInv, MainPlaces
  <2>3. Become(Assigned(Tables, Client, Temporary)) /\ (FileOf(Client) \in Conns => peer[FileOf(Client)] # "open")
    BY <1>4 DEF DefaultConstructed, AtEnd
  <2>5. Sender(Main) /\ ~Sending(Main) /\ Holder(Main) = Client
    BY <1>1, ThreadFacts DEF Sender, Sending, Holder
  <2>4. Effect
    BY <1>1, <2>2, <2>3, <2>5, HolderSpared, AssignedEffect DEF Inv, OInv
  <2>6. Data
    BY <1>1, <1>4 DEF Data, streams, Inv, DInv, StreamTypes
  <2>. QED
    BY <1>2, <2>1, <2>4, <2>6, StillTypes DEF Served
<1>. QED
  BY <1>3, <1>4 DEF PollRecv

\* and takes EAGAIN for nothing yet.
LEMMA PollServed ==
  ASSUME Inv, Still, stage = "06_NonBlock", MainThread \/ AcceptError PROVE Served /\ CInv'
<1>0. CInv' /\ stage \in OneClient /\ Client \in Objects /\ Main \in Threads
  BY PollControl, PlaceFacts, ThreadFacts DEF Still, OneClient
<1>1. CASE SetUpNonBlock
  BY <1>0, <1>1, SetUpOrReturns DEF SetUpNonBlock, At
<1>2. CASE EnterLoop
  <2>1. Goto(Main, "poll") /\ UNCHANGED <<sock, fdtab, alive, buf, backlog, accepted, streams>>
    BY <1>2 DEF EnterLoop, Become, DefaultConstructed, Tables
  <2>. QED
    BY <1>0, <2>1, MainGoes DEF Labels, WithClient
<1>3. CASE PollSend
  <2>1. alive /\ pc[Main] = "send" /\ "poll" \in Labels /\ "poll" \in WithClient
    BY <1>3 DEF PollSend, At, Labels, WithClient
  <2>2. SendNonBlocking(Main, Client, "poll") /\ UNCHANGED <<backlog, accepted, sent, taken, got>>
    BY <1>3 DEF PollSend
  <2>. QED
    BY <1>0, <2>1, <2>2, StillTypes, SendNonBlockingServed DEF Still
<1>4. CASE AcceptError
  <2>1. Exit /\ UNCHANGED <<stage, pc, buf, streams, backlog, accepted>>
    BY <1>4 DEF AcceptError, At, Still
  <2>. QED
    BY <1>0, <2>1, ExitServed, StaysQueued, StillTypes
<1>. QED
  BY <1>0, <1>1, <1>2, <1>3, <1>4, PollAcceptServed, PollRecvServed, Steps06

-----------------------------------------------------------------------------
(* Stage 07. *)

\* Control in the reactors.
LEMMA ReactorControl ==
  ASSUME UNCHANGED stage, stage \in {"07_epoll", "08_MultiReactor"}, CurInv', ListenInv' PROVE CInv'
  BY DEF CInv, GreetInv, LogInv, SendInv, Blocking

\* In 07 main is the only reactor that moves.
LEMMA CurKept ==
  ASSUME Inv, UNCHANGED stage, EventTypes', NEW r \in Reactors,
         \A q \in Threads : q # r => pc'[q] = pc[q] /\ cur'[q] = cur[q],
         pc'[r] \in {"recv", "send"} => cur'[r] \in Fds
  PROVE  CurInv'
  BY EpollAssumption DEF Inv, CInv, CurInv

\* What is registered is a descriptor.
LEMMA ArmTypes ==
  ASSUME Inv, NEW r \in Reactors, NEW f \in Fds, Arm(r, f) PROVE armed' \in [Reactors -> SUBSET Fds]
  BY DEF Arm, Inv, DInv, EventTypes

\* The epoll server of stage 07: it sets up,
LEMMA SetUp07 ==
  ASSUME Inv, UNCHANGED stage, SetUpEpollServer \/ CreateEpoll
  PROVE  Served /\ CInv'
<1>0. Main \in Threads /\ Main \in Reactors /\ stage \notin OneClient /\ stage = "07_epoll" /\ alive
  BY ThreadFacts DEF OneClient, SetUpEpollServer, CreateEpoll, At
<1>1. CASE SetUpEpollServer
  <2>1. /\ Served /\ Only(Main) /\ pc'[Main] \in {"setup", "accept"} /\ UNCHANGED evars
        /\ alive' => pc'[Main] = "accept" /\ sock'[Server] \in Fds
    BY <1>0, <1>1, SetUpOrReturns DEF SetUpEpollServer, At, Still
  <2>2. CurInv'
    BY <1>0, <2>1, CurKept DEF Served, Only, evars
  <2>3. ListenInv'
    BY <1>0, <2>1 DEF ListenInv
  <2>. QED
    BY <1>0, <2>1, <2>2, <2>3, ReactorControl
<1>2. CASE CreateEpoll /\ Arm(Main, sock[Server]) /\ Goto(Main, "dispatch") /\ UNCHANGED <<sock, fdtab, alive>>
  <2>1. sock[Server] \in Fds /\ UNCHANGED <<buf, backlog, accepted, streams, batch, cur>>
    BY <1>0, <1>2 DEF CreateEpoll, At, Inv, CInv, ListenInv
  <2>2. Labelled /\ pc'[Main] = "dispatch" /\ \A u \in Threads : u # Main => pc'[u] = pc[u]
    BY <1>0, <1>2, GotoLabelled DEF Inv, Labels
  <2>3. EventTypes'
    BY <1>0, <1>2, <2>1, ArmTypes DEF Inv, DInv, EventTypes
  <2>4. Served
    BY <1>2, <2>1, <2>2, <2>3 DEF Served, Queued, Effect, Data, Inv, DInv, StreamTypes
  <2>5. CurInv' /\ ListenInv'
    BY <1>0, <2>1, <2>2, <2>3, CurKept DEF ListenInv
  <2>. QED
    BY <1>0, <2>4, <2>5, ReactorControl
<1>3. CASE CreateEpoll /\ Return07 /\ UNCHANGED armed
  <2>1. Exit /\ UNCHANGED <<stage, pc, buf, streams, backlog, accepted, batch, armed, cur>>
    BY <1>3 DEF CreateEpoll, Return07
  <2>2. EventTypes'
    BY <2>1 DEF Inv, DInv, EventTypes
  <2>3. Served
    BY <2>1, <2>2, ExitServed, StaysQueued
  <2>4. CurInv' /\ ListenInv'
    BY <1>0, <2>1 DEF CurInv, ListenInv, Exit, Inv, CInv
  <2>. QED
    BY <1>0, <2>3, <2>4, ReactorControl
<1>. QED
  BY <1>1, <1>2, <1>3 DEF CreateEpoll

\* (what is reported is registered)
LEMMA ReportedTypes ==
  ASSUME Inv, NEW r \in Reactors, NEW s \in SUBSET Ready(r), NEW ev \in Reported(r, s)
  PROVE  ev \in SUBSET Fds
  BY DEF Reported, Ready, Inv, DInv, EventTypes

\* waits,
LEMMA Wait07Served ==
  ASSUME Inv, UNCHANGED stage, Wait07 PROVE Served /\ CInv'
<1>0. /\ Main \in Reactors /\ stage = "07_epoll" /\ pc[Main] = "dispatch"
      /\ UNCHANGED <<sock, fdtab, alive, pc, buf, backlog, accepted, streams, armed, cur>>
  BY ThreadFacts DEF Wait07, At
<1>1. PICK ev \in Reported(Main, Edges) : batch' = [batch EXCEPT ![Main] = ev]
  BY DEF Wait07
<1>2. Edges \in SUBSET Ready(Main)
  BY DEF Edges
<1>3. ev \in SUBSET Fds
  BY <1>0, <1>1, <1>2, ReportedTypes
<1>4. EventTypes'
  BY <1>0, <1>1, <1>3 DEF Inv, DInv, EventTypes
<1>5. Labelled /\ Queued /\ Effect /\ Data
  BY <1>0, StaysLabelled DEF Inv, Queued, Effect, Data, DInv, StreamTypes
<1>6. CurInv' /\ ListenInv'
  BY <1>0 DEF Inv, CInv, CurInv, ListenInv
<1>. QED
  BY <1>0, <1>4, <1>5, <1>6, ReactorControl DEF Served

\* accepts into client_map,
LEMMA Accept07Served ==
  ASSUME Inv, UNCHANGED stage, Accept07 PROVE Served /\ CInv'
<1>0. /\ Main \in Reactors /\ Main \in Threads /\ stage = "07_epoll" /\ pc[Main] = "dispatch" /\ alive
      /\ stage \notin OneClient /\ Port \in Listeners /\ Client \in Objects
      /\ UNCHANGED <<buf, streams, cur, seen>>
  BY ThreadFacts, PlaceFacts DEF Accept07, At, OneClient
<1>1. CASE \E c \in Conns, f \in Fds :
          /\ Takes(Port, c) /\ Lowest(f)
          /\ Become(Moved(Opened(Tables, Client, f, c), Entry07(f), Client))
          /\ Arm(Main, f)
          /\ batch' = [batch EXCEPT ![Main] = @ \ {sock[Server]}]
          /\ UNCHANGED <<alive, pc>>
  <2>1. PICK c \in Conns, f \in Fds :
          /\ Takes(Port, c) /\ Lowest(f)
          /\ Become(Moved(Opened(Tables, Client, f, c), Entry07(f), Client))
          /\ Arm(Main, f)
          /\ batch' = [batch EXCEPT ![Main] = @ \ {sock[Server]}]
          /\ UNCHANGED <<alive, pc>>
    BY <1>1
  <2>2. /\ Entry07(f) \in Objects /\ Client # Entry07(f) /\ c \in Files
    BY PlaceFacts, ThreadFacts
  <2>3. sock[Client] = NoFd /\ sock[Entry07(f)] = NoFd
    <3>1. sock[Client] = NoFd
      BY <1>0 DEF Inv, OInv, PlacesInv, MainPlaces
    <3>2. fdtab[f] = NoFile /\ sock[Entry07(f)] \in {NoFd, f}
      BY <2>1 DEF Lowest, Free, Inv, OInv, PlacesInv, EntryPlaces
    <3>3. sock[Entry07(f)] # f
      BY <2>2, <3>2, FdFacts DEF Inv, OInv, Owned
    <3>. QED
      BY <3>1, <3>2, <3>3
  <2>4. Opens(Entry07(f), f, c)
    BY <1>0, <2>1, <2>2, <2>3, MovedOpens DEF Inv, OInv
  <2>5. MayOpen(Entry07(f), f, c)
    BY DEF MayOpen
  <2>6. Effect
    BY <1>0, <2>1, <2>2, <2>4, <2>5, TakesArrives, OpensEffect
  <2>7. Labelled /\ Queued /\ Data
    BY <1>0, <2>1, StaysLabelled, TakesQueued DEF Inv, Data, DInv, StreamTypes
  <2>8. EventTypes'
    <3>1. armed' \in [Reactors -> SUBSET Fds]
      BY <1>0, <2>1, ArmTypes
    <3>2. batch' \in [Reactors -> SUBSET Fds]
      BY <1>0, <2>1 DEF Inv, DInv, EventTypes
    <3>. QED
      BY <1>0, <3>1, <3>2 DEF Inv, DInv, EventTypes
  <2>9. CurInv' /\ ListenInv'
    BY <1>0, <2>1 DEF Inv, CInv, CurInv, ListenInv
  <2>. QED
    BY <1>0, <2>6, <2>7, <2>8, <2>9, ReactorControl DEF Served
<1>2. CASE Return07 /\ UNCHANGED <<backlog, accepted, armed, batch>>
  <2>1. Exit /\ UNCHANGED <<stage, pc, buf, streams, backlog, accepted, batch, armed, cur>>
    BY <1>0, <1>2 DEF Return07
  <2>2. EventTypes'
    BY <2>1 DEF Inv, DInv, EventTypes
  <2>3. Served
    BY <2>1, <2>2, ExitServed, StaysQueued
  <2>4. CurInv' /\ ListenInv'
    BY <2>1 DEF CurInv, ListenInv, Exit, Inv, CInv
  <2>. QED
    BY <1>0, <2>3, <2>4, ReactorControl
<1>. QED
  BY <1>1, <1>2 DEF Accept07

\* looks a client up in it,
LEMMA Find07Served ==
  ASSUME Inv, UNCHANGED stage, Find07 PROVE Served /\ CInv'
<1>0. /\ Main \in Reactors /\ Main \in Threads /\ stage = "07_epoll" /\ pc[Main] = "dispatch"
      /\ stage \notin OneClient
      /\ UNCHANGED <<sock, fdtab, alive, buf, backlog, accepted, streams, armed, seen>>
  BY ThreadFacts DEF Find07, At, OneClient
<1>1. PICK f \in batch[Main] :
       /\ batch' = [batch EXCEPT ![Main] = @ \ {f}]
       /\ \/ Goto(Main, "recv") /\ cur' = [cur EXCEPT ![Main] = f]
          \/ UNCHANGED <<pc, cur>>
  BY DEF Find07
<1>2. f \in Fds
  BY <1>0, <1>1 DEF Inv, DInv, EventTypes
<1>3. EventTypes'
  BY <1>0, <1>1, <1>2 DEF Inv, DInv, EventTypes
<1>4. Queued /\ Effect /\ Data
  BY <1>0 DEF Inv, Queued, Effect, Data, DInv, StreamTypes
<1>6. CASE Goto(Main, "recv") /\ cur' = [cur EXCEPT ![Main] = f]
  <2>1. Labelled /\ pc'[Main] = "recv" /\ \A u \in Threads : u # Main => pc'[u] = pc[u]
    BY <1>0, <1>6, GotoLabelled DEF Inv, Labels
  <2>2. cur'[Main] = f /\ \A u \in Threads : u # Main => cur'[u] = cur[u]
    BY <1>0, <1>6 DEF Inv, DInv, EventTypes
  <2>3. CurInv'
    BY <1>0, <1>2, <1>3, <2>1, <2>2, CurKept
  <2>4. ListenInv'
    BY <1>0, <2>1 DEF ListenInv
  <2>. QED
    BY <1>0, <1>3, <1>4, <2>1, <2>3, <2>4, ReactorControl DEF Served
<1>7. CASE UNCHANGED <<pc, cur>>
  <2>1. Labelled /\ CurInv' /\ ListenInv'
    BY <1>0, <1>7, StaysLabelled DEF Inv, CInv, CurInv, ListenInv
  <2>. QED
    BY <1>0, <1>3, <1>4, <2>1, ReactorControl DEF Served
<1>. QED
  BY <1>1, <1>6, <1>7

\* receives, erases it at the end of its stream,
LEMMA Recv07Served ==
  ASSUME Inv, UNCHANGED stage, Recv07 PROVE Served /\ CInv'
<1>. PICK o : o = Entry07(cur[Main])
  OBVIOUS
<1>0. /\ Main \in Reactors /\ Main \in Threads /\ stage = "07_epoll" /\ pc[Main] = "recv" /\ alive
      /\ stage \notin OneClient
      /\ UNCHANGED <<alive, backlog, accepted, peer, sent, echoed, got, batch, seen>>
  BY ThreadFacts DEF Recv07, At, OneClient
<1>1. cur[Main] \in Fds /\ o \in Objects
  BY <1>0, PlaceFacts DEF Inv, CInv, CurInv
<1>2. Queued
  BY <1>0 DEF Queued
<1>3. CASE Received(Main, o) /\ Goto(Main, "send") /\ UNCHANGED <<sock, fdtab, armed, cur>>
  <2>1. Labelled /\ pc'[Main] = "send" /\ \A u \in Threads : u # Main => pc'[u] = pc[u]
    BY <1>0, <1>3, GotoLabelled DEF Inv, Labels
  <2>2. Data /\ Effect
    BY <1>0, <1>1, <1>3, ReceivedFacts DEF Effect
  <2>3. EventTypes'
    BY <1>0, <1>3 DEF Inv, DInv, EventTypes
  <2>4. CurInv' /\ ListenInv'
    BY <1>0, <1>1, <1>3, <2>1, <2>3, CurKept DEF ListenInv
  <2>. QED
    BY <1>0, <1>2, <2>1, <2>2, <2>3, <2>4, ReactorControl DEF Served
<1>4. ASSUME Goto(Main, "dispatch"), cur' = [cur EXCEPT ![Main] = NoFd], UNCHANGED <<buf, taken>>,
             Effect, armed' \in [Reactors -> SUBSET Fds]
      PROVE  Served /\ CInv'
  <2>1. Labelled /\ pc'[Main] = "dispatch" /\ \A u \in Threads : u # Main => pc'[u] = pc[u]
    BY <1>0, <1>4, GotoLabelled DEF Inv, Labels
  <2>2. Data
    BY <1>0, <1>4 DEF Data, streams, Inv, DInv, StreamTypes
  <2>3. EventTypes' /\ \A u \in Threads : u # Main => cur'[u] = cur[u]
    BY <1>0, <1>4 DEF Inv, DInv, EventTypes
  <2>4. CurInv' /\ ListenInv'
    BY <1>0, <2>1, <2>3, CurKept DEF ListenInv
  <2>. QED
    BY <1>0, <1>2, <1>4, <2>1, <2>2, <2>3, <2>4, ReactorControl DEF Served
<1>5. CASE /\ AtEnd(o) /\ Become(Destroyed(Tables, o))
           /\ armed' = [armed EXCEPT ![Main] = @ \ {cur[Main]}]
           /\ Goto(Main, "dispatch") /\ cur' = [cur EXCEPT ![Main] = NoFd]
           /\ UNCHANGED <<buf, taken>>
  <2>1. FileOf(o) \in Conns => peer[FileOf(o)] # "open"
    BY <1>5 DEF AtEnd
  <2>4. Sender(Main) /\ ~Sending(Main) /\ Holder(Main) = o
    BY <1>0, ThreadFacts DEF Sender, Sending, Holder
  <2>2. Effect
    BY <1>0, <1>1, <1>5, <2>1, <2>4, HolderSpared, DestroyedEffect DEF Inv, OInv
  <2>3. armed' \in [Reactors -> SUBSET Fds]
    BY <1>0, <1>5 DEF Inv, DInv, EventTypes
  <2>. QED
    BY <1>4, <1>5, <2>2, <2>3
<1>6. CASE /\ Goto(Main, "dispatch") /\ cur' = [cur EXCEPT ![Main] = NoFd]
           /\ UNCHANGED <<sock, fdtab, buf, taken, armed>>
  <2>1. Effect /\ armed' \in [Reactors -> SUBSET Fds]
    BY <1>6 DEF Effect, Inv, DInv, EventTypes
  <2>. QED
    BY <1>4, <1>6, <2>1
<1>. QED
  BY <1>3, <1>5, <1>6 DEF Recv07

\* and sends back.
LEMMA Send07Served ==
  ASSUME Inv, UNCHANGED stage, Send07 PROVE Served /\ CInv'
<1>0. /\ Main \in Reactors /\ Main \in Threads /\ stage = "07_epoll" /\ pc[Main] = "send" /\ alive
      /\ stage \notin OneClient /\ UNCHANGED <<backlog, accepted, sent, taken, got, evars>>
      /\ SendNonBlocking(Main, Entry07(cur[Main]), "recv") /\ "recv" \in Labels
  BY ThreadFacts DEF Send07, At, OneClient, AfterSend, Labels
<1>1. cur[Main] \in Fds /\ Entry07(cur[Main]) \in Objects
  BY <1>0, PlaceFacts DEF Inv, CInv, CurInv
<1>2. EventTypes'
  BY <1>0 DEF Inv, DInv, EventTypes, evars
<1>3. Served /\ Only(Main) /\ pc'[Main] \in {pc[Main], "recv"}
  BY <1>0, <1>1, <1>2, SendNonBlockingServed
<1>4. CurInv'
  BY <1>0, <1>1, <1>2, <1>3, CurKept DEF evars, Only
<1>5. ListenInv'
  BY <1>0, <1>3 DEF ListenInv
<1>. QED
  BY <1>0, <1>3, <1>4, <1>5, ReactorControl

-----------------------------------------------------------------------------
(* Stage 08. *)

\* A step of worker r.
LEMMA WorkerControl ==
  ASSUME Inv, Labelled, EventTypes', stage = "08_MultiReactor", NEW r \in Workers,
         alive' => alive,
         \A q \in Threads : q # r => pc'[q] = pc[q] /\ cur'[q] = cur[q],
         pc'[r] \in {"recv", "send"} => cur'[r] \in Fds,
         \A q \in Workers : q # r /\ alive' => sock'[Listen08(q)] = sock[Listen08(q)],
         pc'[r] = "epoll" /\ alive' => sock'[Listen08(r)] \in Fds
  PROVE  CInv'
<1>1. stage' = stage /\ r \in Reactors /\ r \in Threads /\ Workers \subseteq Threads
  BY ThreadFacts DEF Labelled
<1>2. CurInv'
  BY <1>1, CurKept
<1>3. ListenInv'
  BY <1>1 DEF ListenInv, Inv, CInv, Listen08
<1>. QED
  BY <1>1, <1>2, <1>3, ReactorControl

\* The places of a worker are objects.
LEMMA LocalPlaces ==
  ASSUME NEW r \in Workers
  PROVE  Locals(r) \in SUBSET Objects /\ \A q \in Workers : q # r => Listen08(q) \notin Locals(r)
  BY PlaceFacts, PlacesDiffer DEF Locals

\* No other worker has its client there.
LEMMA LocalsSpared ==
  ASSUME Inv, stage = "08_MultiReactor", NEW r \in Workers, pc[r] # "send" PROVE Spares(Locals(r))
<1>. SUFFICES ASSUME NEW t \in Threads, Sending(t) PROVE Holder(t) \notin Locals(r)
  BY DEF Spares
<1>1. t \in Workers /\ pc[t] = "send" /\ t # r
  BY DEF Sending, Sender
<1>2. Holder(t) = Entry08(t, cur[t]) /\ cur[t] \in Fds
  BY <1>1, ThreadFacts DEF Holder, Inv, CInv, CurInv
<1>. QED
  BY <1>1, <1>2, PlacesDiffer DEF Locals

\* Another worker's listening socket is left alone.
LEMMA OpensElsewhere ==
  ASSUME OInv, NEW o \in Objects, NEW f, NEW x, Opens(o, f, x), NEW q \in Workers, o # Listen08(q)
  PROVE  sock'[Listen08(q)] = sock[Listen08(q)]
  BY PlaceFacts DEF Opens, OInv, Owned

\* A worker returns and takes its sockets with it.
LEMMA ReturnServed ==
  ASSUME Inv, UNCHANGED stage, stage = "08_MultiReactor", NEW r \in Workers, pc[r] # "returned",
         pc[r] # "send", ReturnWorker(r), UNCHANGED <<alive, buf, backlog, accepted, streams, cur>>
  PROVE  Served /\ CInv'
<1>1. r \in Threads /\ r \in Reactors /\ r # Main /\ stage \notin OneClient
  BY ThreadFacts DEF OneClient
<1>2. Labelled /\ pc'[r] = "returned" /\ \A u \in Threads : u # r => pc'[u] = pc[u]
  BY <1>1, GotoLabelled DEF Inv, ReturnWorker, Labels
<1>3. Effect
  BY <1>2, LocalPlaces, LocalsSpared, DestroyedAllEffect DEF ReturnWorker, MayClose
<1>4. EventTypes'
  BY <1>1 DEF ReturnWorker, Inv, DInv, EventTypes
<1>5. Queued /\ Data
  BY DEF Queued, Data, Inv, DInv, StreamTypes
<1>6. \A q \in Workers : q # r => sock'[Listen08(q)] = sock[Listen08(q)]
  <2>1. sock' = [o \in Objects |-> IF o \in Locals(r) THEN NoFd ELSE sock[o]]
    BY DEF ReturnWorker, Become, DestroyedAll, Tables
  <2>. QED
    BY <2>1, LocalPlaces, PlaceFacts
<1>7. CInv'
  BY <1>2, <1>4, <1>6, WorkerControl
<1>. QED
  BY <1>2, <1>3, <1>4, <1>5, <1>7 DEF Served

\* The worker of stage 08: it sets up,
LEMMA SetUp08 ==
  ASSUME Inv, UNCHANGED stage, NEW r \in Workers, SetUpWorker(r) PROVE Served /\ CInv'
<1>0. /\ r \in Threads /\ r # Main /\ stage \notin OneClient /\ r \in Files \ Conns /\ Listen08(r) \in Objects
      /\ stage = "08_MultiReactor" /\ pc[r] = "setup" /\ alive
      /\ UNCHANGED <<alive, buf, backlog, accepted, streams, cur>>
  BY ThreadFacts, PlaceFacts DEF OneClient, SetUpWorker, WorkerAt
<1>1. CASE Listens(Listen08(r), r) /\ Goto(r, "epoll") /\ UNCHANGED <<armed, batch>>
  <2>1. Labelled /\ pc'[r] = "epoll" /\ \A u \in Threads : u # r => pc'[u] = pc[u]
    BY <1>0, <1>1, GotoLabelled DEF Inv, Labels
  <2>2. sock[Listen08(r)] = NoFd /\ \A f \in Fds : MayOpen(Listen08(r), f, r)
    BY <1>0, <2>1 DEF Inv, OInv, PlacesInv, WorkerPlaces, MayOpen
  <2>3. Effect /\ \E f \in Fds : Opens(Listen08(r), f, r)
    BY <1>0, <1>1, <2>2, ListensEffect
  <2>4. PICK f \in Fds : Opens(Listen08(r), f, r)
    BY <2>3
  <2>5. sock'[Listen08(r)] = f
    BY <1>0, <2>4 DEF Opens, Inv, OInv, Owned
  <2>6. \A q \in Workers : q # r => sock'[Listen08(q)] = sock[Listen08(q)]
    BY <1>0, <2>4, OpensElsewhere, PlacesDiffer DEF Inv
  <2>7. EventTypes' /\ Queued /\ Data
    BY <1>0, <1>1 DEF Queued, Data, Inv, DInv, StreamTypes, EventTypes
  <2>8. CInv'
    BY <1>0, <2>1, <2>5, <2>6, <2>7, WorkerControl
  <2>. QED
    BY <2>1, <2>3, <2>7, <2>8 DEF Served
<1>2. CASE ReturnWorker(r)
  BY <1>0, <1>2, ReturnServed
<1>. QED
  BY <1>1, <1>2 DEF SetUpWorker

\* creates its epoll instance,
LEMMA Create08 ==
  ASSUME Inv, UNCHANGED stage, NEW r \in Workers, CreateWorkerEpoll(r) PROVE Served /\ CInv'
<1>0. /\ r \in Threads /\ r # Main /\ stage \notin OneClient /\ r \in Reactors
      /\ stage = "08_MultiReactor" /\ pc[r] = "epoll" /\ alive
      /\ UNCHANGED <<alive, buf, backlog, accepted, streams, cur>>
  BY ThreadFacts DEF OneClient, CreateWorkerEpoll, WorkerAt
<1>1. CASE Arm(r, sock[Listen08(r)]) /\ Goto(r, "dispatch") /\ UNCHANGED <<sock, fdtab, batch>>
  <2>1. Labelled /\ pc'[r] = "dispatch" /\ \A u \in Threads : u # r => pc'[u] = pc[u]
    BY <1>0, <1>1, GotoLabelled DEF Inv, Labels
  <2>2. sock[Listen08(r)] \in Fds
    BY <1>0 DEF Inv, CInv, ListenInv
  <2>3. armed' \in [Reactors -> SUBSET Fds]
    BY <1>0, <1>1, <2>2, ArmTypes
  <2>4. EventTypes'
    BY <1>0, <1>1, <2>3 DEF Inv, DInv, EventTypes
  <2>5. Queued /\ Data /\ Effect
    BY <1>0, <1>1 DEF Queued, Data, Effect, Inv, DInv, StreamTypes
  <2>6. CInv'
    BY <1>0, <1>1, <2>1, <2>4, WorkerControl DEF Listen08
  <2>. QED
    BY <2>1, <2>4, <2>5, <2>6 DEF Served
<1>2. CASE ReturnWorker(r)
  BY <1>0, <1>2, ReturnServed
<1>. QED
  BY <1>1, <1>2 DEF CreateWorkerEpoll

\* waits,
LEMMA Wait08Served ==
  ASSUME Inv, UNCHANGED stage, NEW r \in Workers, Wait08(r) PROVE Served /\ CInv'
<1>0. /\ r \in Reactors /\ stage = "08_MultiReactor" /\ pc[r] = "dispatch"
      /\ UNCHANGED <<sock, fdtab, alive, pc, buf, backlog, accepted, streams, cur>>
  BY ThreadFacts DEF Wait08, WorkerAt
<1>1. PICK ev \in Reported(r, Ready(r)) : /\ batch' = [batch EXCEPT ![r] = ev]
                                        /\ armed' = [armed EXCEPT ![r] = @ \ OneShot(ev)]
  BY DEF Wait08
<1>2. ev \in SUBSET Fds
  BY <1>0, ReportedTypes
<1>3. EventTypes'
  BY <1>0, <1>1, <1>2 DEF Inv, DInv, EventTypes
<1>4. Labelled /\ Queued /\ Effect /\ Data
  BY <1>0, StaysLabelled DEF Inv, Queued, Effect, Data, DInv, StreamTypes
<1>5. CurInv' /\ ListenInv'
  BY <1>0 DEF Inv, CInv, CurInv, ListenInv, Listen08
<1>. QED
  BY <1>0, <1>3, <1>4, <1>5, ReactorControl DEF Served

\* accepts,
LEMMA Accept08Served ==
  ASSUME Inv, UNCHANGED stage, NEW r \in Workers, Accept08(r) PROVE Served /\ CInv'
<1>0. /\ r \in Reactors /\ r \in Threads /\ r # Main /\ stage = "08_MultiReactor"
      /\ pc[r] = "dispatch" /\ alive /\ r \in Listeners /\ Client08(r) \in Objects
      /\ UNCHANGED <<alive, buf, streams, cur>>
  BY ThreadFacts, PlaceFacts DEF Accept08, WorkerAt
<1>1. ASSUME NEW c \in Conns, NEW f \in Fds, Takes(r, c), Lowest(f),
             Become(Moved(Opened(Tables, Client08(r), f, c), Entry08(r, f), Client08(r))),
             Arm(r, f), batch' = [batch EXCEPT ![r] = @ \ {sock[Listen08(r)]}], UNCHANGED pc
      PROVE  Served /\ CInv'
  <2>1. /\ Entry08(r, f) \in Objects /\ Client08(r) # Entry08(r, f) /\ c \in Files
    BY PlaceFacts, PlacesDiffer, ThreadFacts
  <2>2. sock[Client08(r)] = NoFd /\ sock[Entry08(r, f)] = NoFd
    <3>1. sock[Client08(r)] = NoFd
      BY DEF Inv, OInv, PlacesInv, WorkerPlaces
    <3>2. fdtab[f] = NoFile /\ sock[Entry08(r, f)] \in {NoFd, f}
      BY <1>1 DEF Lowest, Free, Inv, OInv, PlacesInv, EntryPlaces
    <3>3. sock[Entry08(r, f)] # f
      BY <2>1, <3>2, FdFacts DEF Inv, OInv, Owned
    <3>. QED
      BY <3>1, <3>2, <3>3
  <2>3. Opens(Entry08(r, f), f, c)
    BY <1>0, <1>1, <2>1, <2>2, MovedOpens DEF Inv, OInv
  <2>4. MayOpen(Entry08(r, f), f, c)
    BY DEF MayOpen
  <2>5. Effect
    BY <1>0, <1>1, <2>1, <2>3, <2>4, TakesArrives, OpensEffect
  <2>6. Labelled /\ Queued /\ Data
    BY <1>0, <1>1, StaysLabelled, TakesQueued DEF Inv, Data, DInv, StreamTypes
  <2>7. EventTypes'
    <3>1. armed' \in [Reactors -> SUBSET Fds]
      BY <1>0, <1>1, ArmTypes
    <3>2. batch' \in [Reactors -> SUBSET Fds]
      BY <1>0, <1>1 DEF Inv, DInv, EventTypes
    <3>. QED
      BY <1>0, <3>1, <3>2 DEF Inv, DInv, EventTypes
  <2>8. \A q \in Workers : sock'[Listen08(q)] = sock[Listen08(q)]
    BY <2>1, <2>3, OpensElsewhere, PlacesDiffer DEF Inv
  <2>9. CurInv' /\ ListenInv'
    BY <1>0, <1>1, <2>8 DEF Inv, CInv, CurInv, ListenInv, Listen08
  <2>. QED
    BY <1>0, <2>5, <2>6, <2>7, <2>9, ReactorControl DEF Served
<1>2. CASE ReturnWorker(r) /\ UNCHANGED <<backlog, accepted>>
  BY <1>0, <1>2, ReturnServed
<1>. QED
  BY <1>1, <1>2 DEF Accept08

\* looks a client up,
LEMMA Find08Served ==
  ASSUME Inv, UNCHANGED stage, NEW r \in Workers, Find08(r) PROVE Served /\ CInv'
<1>0. /\ r \in Reactors /\ r \in Threads /\ r # Main /\ stage = "08_MultiReactor"
      /\ pc[r] = "dispatch" /\ alive /\ stage \notin OneClient
      /\ UNCHANGED <<alive, buf, backlog, accepted, streams>>
  BY ThreadFacts DEF Find08, WorkerAt, OneClient
<1>1. ASSUME NEW f \in batch[r], batch' = [batch EXCEPT ![r] = @ \ {f}],
             cur' = [cur EXCEPT ![r] = f], Goto(r, "recv"), UNCHANGED <<sock, fdtab, armed>>
      PROVE  Served /\ CInv'
  <2>1. f \in Fds
    BY <1>0 DEF Inv, DInv, EventTypes
  <2>2. EventTypes' /\ cur'[r] = f /\ \A u \in Threads : u # r => cur'[u] = cur[u]
    BY <1>0, <1>1, <2>1 DEF Inv, DInv, EventTypes
  <2>3. Labelled /\ pc'[r] = "recv" /\ \A u \in Threads : u # r => pc'[u] = pc[u]
    BY <1>0, <1>1, GotoLabelled DEF Inv, Labels
  <2>4. Queued /\ Effect /\ Data
    BY <1>0, <1>1 DEF Inv, Queued, Effect, Data, DInv, StreamTypes
  <2>5. CInv'
    BY <1>0, <1>1, <2>1, <2>2, <2>3, WorkerControl DEF Listen08
  <2>. QED
    BY <2>2, <2>3, <2>4, <2>5 DEF Served
<1>2. CASE ReturnWorker(r) /\ UNCHANGED cur
  BY <1>0, <1>2, ReturnServed
<1>. QED
  BY <1>1, <1>2 DEF Find08

\* receives, erases,
LEMMA Recv08Served ==
  ASSUME Inv, UNCHANGED stage, NEW r \in Workers, Recv08(r) PROVE Served /\ CInv'
<1>. PICK o : o = Entry08(r, cur[r])
  OBVIOUS
<1>0. /\ r \in Reactors /\ r \in Threads /\ r # Main /\ stage = "08_MultiReactor"
      /\ pc[r] = "recv" /\ alive /\ stage \notin OneClient
      /\ UNCHANGED <<alive, backlog, accepted, peer, sent, echoed, got, batch>>
  BY ThreadFacts DEF Recv08, WorkerAt, OneClient
<1>1. cur[r] \in Fds /\ o \in Objects
  BY <1>0, PlaceFacts DEF Inv, CInv, CurInv
<1>2. Queued
  BY <1>0 DEF Queued
<1>3. CASE Received(r, o) /\ Goto(r, "send") /\ UNCHANGED <<sock, fdtab, armed, cur>>
  <2>1. Labelled /\ pc'[r] = "send" /\ \A u \in Threads : u # r => pc'[u] = pc[u]
    BY <1>0, <1>3, GotoLabelled DEF Inv, Labels
  <2>2. Data /\ Effect
    BY <1>0, <1>1, <1>3, ReceivedFacts DEF Effect
  <2>3. EventTypes'
    BY <1>0, <1>3 DEF Inv, DInv, EventTypes
  <2>4. CInv'
    BY <1>0, <1>1, <1>3, <2>1, <2>3, WorkerControl DEF Listen08
  <2>. QED
    BY <1>2, <2>1, <2>2, <2>3, <2>4 DEF Served
<1>4. ASSUME Goto(r, "dispatch"), cur' = [cur EXCEPT ![r] = NoFd], UNCHANGED <<buf, taken>>,
             Effect, armed' \in [Reactors -> SUBSET Fds],
             \A q \in Workers : q # r => sock'[Listen08(q)] = sock[Listen08(q)]
      PROVE  Served /\ CInv'
  <2>1. Labelled /\ pc'[r] = "dispatch" /\ \A u \in Threads : u # r => pc'[u] = pc[u]
    BY <1>0, <1>4, GotoLabelled DEF Inv, Labels
  <2>2. Data
    BY <1>0, <1>4 DEF Data, streams, Inv, DInv, StreamTypes
  <2>3. EventTypes' /\ \A u \in Threads : u # r => cur'[u] = cur[u]
    BY <1>0, <1>4 DEF Inv, DInv, EventTypes
  <2>4. CInv'
    BY <1>0, <1>4, <2>1, <2>3, WorkerControl
  <2>. QED
    BY <1>2, <1>4, <2>1, <2>2, <2>3, <2>4 DEF Served
<1>5. CASE /\ AtEnd(o) /\ Become(Destroyed(Tables, o))
           /\ armed' = [armed EXCEPT ![r] = @ \ {cur[r]}]
           /\ Goto(r, "dispatch") /\ cur' = [cur EXCEPT ![r] = NoFd]
           /\ UNCHANGED <<buf, taken>>
  <2>1. FileOf(o) \in Conns => peer[FileOf(o)] # "open"
    BY <1>5 DEF AtEnd
  <2>5. Sender(r) /\ ~Sending(r) /\ Holder(r) = o
    BY <1>0, ThreadFacts DEF Sender, Sending, Holder
  <2>2. Effect
    BY <1>0, <1>1, <1>5, <2>1, <2>5, HolderSpared, DestroyedEffect DEF Inv, OInv
  <2>3. armed' \in [Reactors -> SUBSET Fds]
    BY <1>0, <1>5 DEF Inv, DInv, EventTypes
  <2>4. ASSUME NEW q \in Workers PROVE sock'[Listen08(q)] = sock[Listen08(q)]
    <3>1. sock' = [sock EXCEPT ![o] = NoFd]
      BY <1>5 DEF Become, Destroyed, Tables
    <3>2. Listen08(q) # o /\ Listen08(q) \in Objects
      BY <1>1, PlacesDiffer, PlaceFacts
    <3>. QED
      BY <3>1, <3>2 DEF Inv, OInv, Owned
  <2>. QED
    BY <1>4, <1>5, <2>2, <2>3, <2>4
<1>6. CASE /\ Arm(r, cur[r]) /\ Goto(r, "dispatch") /\ cur' = [cur EXCEPT ![r] = NoFd]
           /\ UNCHANGED <<sock, fdtab, buf, taken>>
  <2>1. Effect /\ armed' \in [Reactors -> SUBSET Fds]
    BY <1>0, <1>1, <1>6, ArmTypes DEF Effect
  <2>. QED
    BY <1>4, <1>6, <2>1
<1>. QED
  BY <1>3, <1>5, <1>6 DEF Recv08

\* and sends back.
LEMMA Send08Served ==
  ASSUME Inv, UNCHANGED stage, NEW r \in Workers, Send08(r) PROVE Served /\ CInv'
<1>0. /\ r \in Reactors /\ r \in Threads /\ r # Main /\ stage = "08_MultiReactor"
      /\ pc[r] = "send" /\ alive /\ UNCHANGED <<backlog, accepted, sent, taken, got, evars>>
      /\ SendNonBlocking(r, Entry08(r, cur[r]), "recv") /\ "recv" \in Labels
  BY ThreadFacts DEF Send08, WorkerAt, Labels
<1>1. cur[r] \in Fds /\ Entry08(r, cur[r]) \in Objects
  BY <1>0, PlaceFacts DEF Inv, CInv, CurInv
<1>2. EventTypes'
  BY <1>0 DEF Inv, DInv, EventTypes, evars
<1>3. Served /\ Only(r) /\ pc'[r] \in {pc[r], "recv"}
  BY <1>0, <1>1, <1>2, SendNonBlockingServed
<1>4. UNCHANGED sock \/ ~alive'
  BY <1>0 DEF SendNonBlocking, Killed, Exit
<1>5. CInv'
  BY <1>0, <1>1, <1>2, <1>3, <1>4, WorkerControl DEF evars, Only, Served
<1>. QED
  BY <1>3, <1>5

\* main joins the workers.
LEMMA Join08Served == ASSUME Inv, UNCHANGED stage, Join08 PROVE Served /\ CInv'
<1>1. /\ Exit /\ UNCHANGED <<stage, pc, buf, streams, backlog, accepted, batch, armed, cur>>
      /\ stage = "08_MultiReactor"
  BY DEF Join08, At, evars
<1>2. EventTypes'
  BY <1>1 DEF Inv, DInv, EventTypes
<1>3. Served
  BY <1>1, <1>2, ExitServed, StaysQueued
<1>4. CurInv' /\ ListenInv'
  BY <1>1 DEF CurInv, ListenInv, Exit, Inv, CInv
<1>. QED
  BY <1>1, <1>3, <1>4, ReactorControl

-----------------------------------------------------------------------------
(* Every step. *)

\* The reactors have no steps of the other servers.
LEMMA NoMainThread ==
  /\ MainThread => stage \notin {"07_epoll", "08_MultiReactor"}
  /\ AcceptError => stage \in OneClient
<1>1. MainThread => stage \notin {"07_epoll", "08_MultiReactor"}
  BY DEF MainThread, At, SetUpSkeleton, SetUpEchoLoop, SetUpTestServer,
         SetUpThreadServer, SetUpLatency, SetUpNonBlock, AcceptForGreeting, Greet, ReadGreeting,
         CloseSkeleton, AcceptOne, ReadLoop, WriteBack, CloseEchoLoop,
         TestServerAccepts, TestServerRecv, TestServerSend, TestServerReturns,
         ThreadServerAccepts, LatencyServerAccepts, EnterLoop, PollAccept, PollRecv, PollSend
<1>2. AcceptError => stage \in OneClient
  BY DEF AcceptError, At, OneClient
<1>. QED
  BY <1>1, <1>2

\* Every step of a server thread has the shape.
LEMMA ServerServed ==
  ASSUME Inv, UNCHANGED stage,
         \/ \E t \in Threads : ServerThread(t)
         \/ AcceptError /\ UNCHANGED <<evars, seen>>
  PROVE  Served /\ CInv'
<1>0. stage \in AllStages
  BY DEF Inv, OInv
<1>1. CASE (MainThread \/ AcceptError) /\ UNCHANGED <<evars, seen>>
  <2>1. Still
    BY <1>1 DEF Still
  <2>2. CASE stage = "01_skeleton"
    BY <1>1, <2>1, <2>2, Stage01
  <2>3. CASE stage \in {"02_EchoLoop", "03_SocketClass"}
    BY <1>1, <2>1, <2>3, LoopServed, Steps02, Steps03
  <2>4. CASE stage \in {"04_MultiThread", "05_Latency"}
    BY <1>1, <2>1, <2>4, AcceptorServed, NoMainThread DEF OneClient
  <2>5. CASE stage = "06_NonBlock"
    BY <1>1, <2>1, <2>5, PollServed
  <2>. QED
    BY <1>0, <1>1, <2>2, <2>3, <2>4, <2>5, NoMainThread DEF AllStages, OneClient
<1>2. CASE EpollServer
  BY <1>2, SetUp07, Wait07Served, Accept07Served, Find07Served, Recv07Served, Send07Served DEF EpollServer
<1>3. CASE Join08
  BY <1>3, Join08Served
<1>4. ASSUME NEW c \in Conns, ConnThread(c), UNCHANGED <<evars, seen>> PROVE Served /\ CInv'
  BY <1>4, ThreadServed DEF Still
<1>5. ASSUME NEW r \in Workers, Worker08(r) PROVE Served /\ CInv'
  BY <1>5, SetUp08, Create08, Wait08Served, Accept08Served, Find08Served, Recv08Served, Send08Served
  DEF Worker08
<1>. QED
  BY <1>1, <1>2, <1>3, <1>4, <1>5 DEF ServerThread

\* Every step is one of a server or one of the outside.
LEMMA ServerOrOutside ==
  ASSUME Inv, ClientInv, Next PROVE Outside \/ (Served /\ CInv')
<1>1. ASSUME NEW c \in Conns, Clients(c) \/ Others(c), UNCHANGED <<evars, seen, stage>> PROVE Outside
  <2>1. Moves(c) \/ ProcessKilled
    BY <1>1, RunMoves, LineMoves, AnyMoves DEF Clients, Others
  <2>. QED
    BY <1>1, <2>1, MovesOutside, KilledOutside
<1>2. CASE Interrupt /\ UNCHANGED <<evars, seen, stage>>
  BY <1>2, KilledOutside DEF Interrupt
<1>. QED
  BY <1>1, <1>2, ServerServed DEF Next

\* So the invariant is inductive,
LEMMA Step == ASSUME Inv, ClientInv, [Next]_vars PROVE Inv'
<1>1. CASE Next
  BY <1>1, ServerOrOutside, OutsideKept, ServedKept
<1>2. CASE UNCHANGED vars
  <2>1. Outside
    BY <1>2, EndOutside DEF vars, kvars, streams, Inv, DInv, StreamTypes
  <2>. QED
    BY <2>1, OutsideKept
<1>. QED
  BY <1>1, <1>2

\* holds initially,
LEMMA InitInv == Init => Inv
<1>. SUFFICES ASSUME Init PROVE Inv
  OBVIOUS
<1>1. /\ sock = [o \in Objects |-> NoFd] /\ fdtab = [f \in Fds |-> NoFile] /\ alive = TRUE
      /\ buf = [t \in Threads |-> <<>>] /\ backlog = [l \in Listeners |-> {}] /\ accepted = {}
      /\ peer = [c \in Conns |-> "open"] /\ sent = [c \in Conns |-> 0] /\ taken = [c \in Conns |-> 0]
      /\ got = [c \in Conns |-> 0] /\ echoed = [c \in Conns |-> <<>>]
      /\ batch = [r \in Reactors |-> {}] /\ armed = [r \in Reactors |-> {}]
      /\ cur = [t \in Threads |-> NoFd] /\ stage \in AllStages
      /\ pc = [t \in Threads |-> IF t = Main \/ (t \in Workers /\ stage = "08_MultiReactor")
                                 THEN "setup" ELSE "none"]
  BY StageAssumption DEF Init, EpollInit, KernelInit, SocketInit, AllStages
<1>2. Owned(sock, fdtab)
  BY <1>1 DEF Owned, NoFd
<1>3. \A o \in Objects : sock[o] = NoFd
  BY <1>1
<1>4. pc \in [Threads -> Labels] /\ \A t \in Threads : pc[t] \in {"none", "setup"}
  BY <1>1 DEF Labels
<1>5. PlacesInv
  BY <1>3, PlaceFacts DEF PlacesInv, MainPlaces, ThreadPlaces, EntryPlaces, WorkerPlaces
<1>6. QueuesInv
  BY <1>1 DEF QueuesInv
<1>7. StreamTypes /\ BoundsInv
  <2>1. <<>> \in Seq(Conns \X Nat) /\ Len(<<>>) = 0
    OBVIOUS
  <2>. QED
    BY <1>1, <2>1, KernelAssumption DEF StreamTypes, BoundsInv
<1>8. EventTypes
  BY <1>1 DEF EventTypes
<1>9. CInv
  BY <1>1, <1>3, <1>4, ThreadFacts, PlaceFacts, EpollAssumption
  DEF CInv, CurInv, ListenInv, SendInv, LogInv, GreetInv
<1>. QED
  BY <1>1, <1>2, <1>4, <1>5, <1>6, <1>7, <1>8, <1>9 DEF Inv, OInv, DInv

\* and holds throughout.
LEMMA StagesInvariant == Spec => [](Inv /\ ClientInv)
<1>1. Inv /\ ClientInv /\ [Next]_vars => Inv'
  BY Step
<1>. QED
  BY <1>1, InitInv, ClientInvariant, PTL DEF Spec

-----------------------------------------------------------------------------

\* In each of the servers, whatever its threads and clients do, an open
\* descriptor is held by exactly one TcpSocket object: none leaks, and none is
\* closed under another's feet, be it after a move into a map, into a closure or
\* into a function (TcpSocket.cpp:15-37, ThreadServer.cpp:18-21,
\* EpollServer.cpp:51-60, SNMRserver.cpp:53-63).
THEOREM StagesOwnOnce == Spec => []SingleOwner
<1>1. Inv => SingleOwner
  BY OwnedIsInv DEF Inv, OInv
<1>. QED
  BY <1>1, StagesInvariant, PTL

\* The variables keep their types, among them the bounds that the code has to
\* work for: got, taken and sent stay within what was written, read and typed, and
\* a latency thread counts no more rounds than it was given
\* (LatencyClient.cpp:26-60).
THEOREM StagesTypeCorrect == Spec => []TypeOK
<1>1. Inv /\ ClientInv => TypeOK
  <2>. SUFFICES ASSUME Inv, ClientInv PROVE TypeOK
    OBVIOUS
  <2>1. SocketTypeOK
    BY DEF Inv, OInv, Owned, SocketTypeOK
  <2>2. \A c \in Conns : got[c] \in 0 .. Len(echoed[c]) /\ taken[c] \in 0 .. sent[c]
    BY DEF Inv, DInv, StreamTypes, BoundsInv
  <2>3. \A c \in Conns : sent[c] \in 0 .. SendMax[c] /\ Len(echoed[c]) <= got[c] + TxMax
    BY KernelAssumption DEF Inv, DInv, StreamTypes, BoundsInv
  <2>4. EpollTypeOK
    BY <2>1, <2>2, <2>3 DEF EpollTypeOK, KernelTypeOK, Inv, OInv, QueuesInv, DInv, StreamTypes, EventTypes
  <2>5. LatencyTypeOK
    BY DEF LatencyTypeOK, ClientInv, MeasureTypes
  <2>. QED
    BY <2>4, <2>5 DEF TypeOK, Inv, OInv, Labels, ClientInv, ProgramTypes, ClientPlaces
<1>. QED
  BY <1>1, StagesInvariant, PTL

\* A running server closes the socket of a client only when that client has
\* closed or reset its connection, or when the worker that serves it returns:
\* EAGAIN, a partial Send or the events of other clients never end one
\* (NonBlockServer.cpp:44-51, EpollServer.cpp:79-89, SNMRserver.cpp:85-100).  The
\* return of a worker (SNMRserver.cpp:61, 70) does end its clients.
THEOREM StagesKeepClients == Spec => KeepsClients
<1>. DEFINE Kept(c) == ServerOpen(c) /\ ~ServerOpen(c)' /\ alive' =>
                         \/ peer[c] # "open"
                         \/ \E r \in Workers : pc[r] # "returned" /\ pc'[r] = "returned"
<1>1. ASSUME Inv, ClientInv, [Next]_vars, NEW c \in Conns PROVE Kept(c)
  <2>1. CASE UNCHANGED fdtab
    BY <2>1 DEF ServerOpen
  <2>2. CASE Effect
    <3>. SUFFICES ASSUME ServerOpen(c), ~ServerOpen(c)', alive'
                  PROVE  \/ peer[c] # "open"
                         \/ \E r \in Workers : pc[r] # "returned" /\ pc'[r] = "returned"
      OBVIOUS
    <3>1. PICK g \in Fds : fdtab[g] = c /\ fdtab'[g] # c
      BY DEF ServerOpen
    <3>2. c \in Files /\ c # NoFile
      BY ThreadFacts
    <3>3. ~\E o \in Objects, f \in Fds, x \in Files : Opens(o, f, x)
      BY <1>1, <3>1, <3>2 DEF Opens, Free, Inv, OInv, Owned
    <3>4. PICK os \in SUBSET Objects : Closes(os) /\ MayClose(os)
      BY <2>2, <3>1, <3>3 DEF Effect
    <3>5. PICK o \in os : sock[o] = g
      BY <3>1, <3>4 DEF Closes
    <3>6. FileOf(o) = c
      BY <3>1, <3>5, FdFacts DEF FileOf, IsValid
    <3>7. CASE \E r \in Workers : pc[r] # "returned" /\ pc'[r] = "returned"
      BY <3>7
    <3>8. CASE \E q \in Objects : os = {q} /\ (FileOf(q) \in Conns => peer[FileOf(q)] # "open")
      <4>1. PICK q \in Objects : os = {q} /\ (FileOf(q) \in Conns => peer[FileOf(q)] # "open")
        BY <3>8
      <4>2. q = o
        BY <4>1, <3>5
      <4>. QED
        BY <4>1, <4>2, <3>6, <1>1
    <3>. QED
      BY <3>4, <3>7, <3>8 DEF MayClose
  <2>3. CASE Next
    <3>1. Outside \/ Served
      BY <1>1, <2>3, ServerOrOutside
    <3>2. UNCHANGED fdtab \/ Effect
      BY <3>1 DEF Outside, Served, process
    <3>. QED
      BY <2>1, <2>2, <3>2
  <2>4. CASE UNCHANGED vars
    BY <2>1, <2>4 DEF vars, kvars, process
  <2>. QED
    BY <1>1, <2>3, <2>4
<1>2. Inv /\ ClientInv /\ [Next]_vars => [\A c \in Conns : Kept(c)]_vars
  BY <1>1
<1>3. Spec => [][\A c \in Conns : Kept(c)]_vars
  BY <1>2, StagesInvariant, PTL DEF Spec
<1>. QED
  BY <1>3 DEF KeepsClients

-----------------------------------------------------------------------------
(* Sums over finite sets, by the smallest set at which a claim would fail. *)

\* A set of subsets of a finite set has a member with no other member below it.
LEMMA SmallestSet ==
  ASSUME NEW S, IsFiniteSet(S), NEW B \in SUBSET (SUBSET S), B # {}
  PROVE  \E T \in B : \A U \in B : U \subseteq T => U = T
<1>1. IsWellFoundedOn(StrictSubsetOrdering(S), SUBSET S)
  BY FS_StrictSubsetOrderingWellFounded, FS_FiniteSubsetsOfFinite
<1>2. PICK T \in B : \A U \in B : ~(<<U, T>> \in StrictSubsetOrdering(S))
  BY <1>1, WFMin
<1>. QED
  BY <1>2 DEF StrictSubsetOrdering

\* The member a fold takes first, and the function by which a sum is defined.
First(s) == CHOOSE x \in s : TRUE

Sums(g, f, S) ==
  g = [s \in SUBSET S |-> IF s = {} THEN 0 ELSE f[First(s)] + g[s \ {First(s)}]]

Sum(f, S) == FoldFunctionOnSet(+, 0, f, S)

SumFn(f, S) == CHOOSE g : Sums(g, f, S)

LEMMA SumIsSums == ASSUME NEW f, NEW S PROVE Sum(f, S) = SumFn(f, S)[S]
  BY DEF Sum, FoldFunctionOnSet, MapThenFoldSet, First, Sums, SumFn

LEMMA SumsAt ==
  ASSUME NEW f, NEW S, NEW g, Sums(g, f, S), NEW s \in SUBSET S
  PROVE  g[s] = IF s = {} THEN 0 ELSE f[First(s)] + g[s \ {First(s)}]
  BY DEF Sums

\* It does not depend on the set of which s is a subset.
LEMMA SumsAgree ==
  ASSUME NEW f, NEW S, NEW T, NEW g, NEW h, Sums(g, f, S), Sums(h, f, T),
         NEW s, IsFiniteSet(s), s \subseteq S, s \subseteq T
  PROVE  g[s] = h[s]
<1>. DEFINE B == {u \in SUBSET s : g[u] # h[u]}
<1>1. SUFFICES ASSUME B # {} PROVE FALSE
  OBVIOUS
<1>2. PICK u \in B : \A v \in B : v \subseteq u => v = u
  <2>1. B \in SUBSET (SUBSET s)
    OBVIOUS
  <2>. HIDE DEF B
  <2>. QED
    BY <1>1, <2>1, SmallestSet
<1>3. /\ g[u] = IF u = {} THEN 0 ELSE f[First(u)] + g[u \ {First(u)}]
      /\ h[u] = IF u = {} THEN 0 ELSE f[First(u)] + h[u \ {First(u)}]
  BY DEF Sums
<1>4. CASE u # {}
  <2>1. First(u) \in u
    BY <1>4 DEF First
  <2>2. g[u \ {First(u)}] = h[u \ {First(u)}]
    BY <1>2, <2>1
  <2>. QED
    BY <1>3, <2>2
<1>. QED
  BY <1>3, <1>4

LEMMA SumsExist == ASSUME NEW f, NEW S, IsFiniteSet(S) PROVE \E g : Sums(g, f, S)
<1>. DEFINE B == {s \in SUBSET S : ~ \E g : Sums(g, f, s)}
<1>1. SUFFICES ASSUME B # {} PROVE FALSE
  OBVIOUS
<1>2. PICK T \in B : \A U \in B : U \subseteq T => U = T
  <2>1. B \in SUBSET (SUBSET S)
    OBVIOUS
  <2>. HIDE DEF B
  <2>. QED
    BY <1>1, <2>1, SmallestSet
<1>. DEFINE k(s) == IF s = {} THEN 0
                    ELSE f[First(s)] + SumFn(f, s \ {First(s)})[s \ {First(s)}]
            g == [s \in SUBSET T |-> k(s)]
<1>3. ASSUME NEW s \in SUBSET T, s # T PROVE Sums(SumFn(f, s), f, s)
  BY <1>2, <1>3 DEF SumFn
<1>4. ASSUME NEW s \in SUBSET T, s # {}
      PROVE  s \ {First(s)} \in SUBSET T /\ s \ {First(s)} # T /\ s \ {First(s)} # s
  <2>1. First(s) \in s
    BY <1>4 DEF First
  <2>. QED
    BY <2>1
<1>5. ASSUME NEW s \in SUBSET T, s # T PROVE SumFn(f, s)[s] = k(s)
  <2>. DEFINE h == SumFn(f, s)
              u == s \ {First(s)}
  <2>1. Sums(h, f, s)
    BY <1>3, <1>5
  <2>2. h[s] = IF s = {} THEN 0 ELSE f[First(s)] + h[u]
    BY <2>1, SumsAt
  <2>3. CASE s # {}
    <3>1. u \in SUBSET T /\ u # T /\ u \subseteq s
      BY <1>4, <2>3
    <3>2. Sums(SumFn(f, u), f, u) /\ IsFiniteSet(u)
      BY <1>3, <3>1, FS_Subset
    <3>3. h[u] = SumFn(f, u)[u]
      BY <2>1, <3>1, <3>2, SumsAgree
    <3>. QED
      BY <2>2, <2>3, <3>3
  <2>. QED
    BY <2>2, <2>3
<1>6. \A s \in SUBSET T : s # {} => k(s) = f[First(s)] + g[s \ {First(s)}]
  <2>1. ASSUME NEW s \in SUBSET T, s # {} PROVE k(s) = f[First(s)] + g[s \ {First(s)}]
    <3>1. s \ {First(s)} \in SUBSET T /\ s \ {First(s)} # T
      BY <1>4, <2>1
    <3>2. g[s \ {First(s)}] = k(s \ {First(s)})
      BY <3>1
    <3>3. g[s \ {First(s)}] = SumFn(f, s \ {First(s)})[s \ {First(s)}]
      BY <1>5, <3>1, <3>2
    <3>. QED
      BY <2>1, <3>3
  <2>. QED
    BY <2>1
<1>7. \A s \in SUBSET T : k(s) = IF s = {} THEN 0 ELSE f[First(s)] + g[s \ {First(s)}]
  BY <1>6
<1>8. Sums(g, f, T)
  <2>. HIDE DEF k
  <2>. QED
    BY <1>7 DEF Sums
<1>. QED
  BY <1>2, <1>8

LEMMA SumUnfolds ==
  ASSUME NEW f, NEW S, IsFiniteSet(S)
  PROVE  Sum(f, S) = IF S = {} THEN 0 ELSE f[First(S)] + Sum(f, S \ {First(S)})
<1>. DEFINE u == S \ {First(S)}
<1>1. Sums(SumFn(f, S), f, S)
  BY SumsExist DEF SumFn
<1>2. SumFn(f, S)[S] = IF S = {} THEN 0 ELSE f[First(S)] + SumFn(f, S)[u]
  BY <1>1, SumsAt
<1>3. IsFiniteSet(u)
  BY FS_Subset
<1>4. Sums(SumFn(f, u), f, u)
  BY <1>3, SumsExist DEF SumFn
<1>5. SumFn(f, S)[u] = SumFn(f, u)[u]
  BY <1>1, <1>3, <1>4, SumsAgree
<1>. QED
  BY <1>2, <1>5, SumIsSums

LEMMA SumInNat ==
  ASSUME NEW f, NEW S, IsFiniteSet(S), \A x \in S : f[x] \in Nat
  PROVE  Sum(f, S) \in Nat
<1>. DEFINE B == {s \in SUBSET S : Sum(f, s) \notin Nat}
<1>1. SUFFICES ASSUME B # {} PROVE FALSE
  OBVIOUS
<1>2. PICK s \in B : \A v \in B : v \subseteq s => v = s
  <2>1. B \in SUBSET (SUBSET S)
    OBVIOUS
  <2>. HIDE DEF B
  <2>. QED
    BY <1>1, <2>1, SmallestSet
<1>f. \A v \in SUBSET S : IsFiniteSet(v)
  BY FS_Subset
<1>3. Sum(f, s) = IF s = {} THEN 0 ELSE f[First(s)] + Sum(f, s \ {First(s)})
  BY <1>f, SumUnfolds
<1>4. CASE s # {}
  <2>1. First(s) \in s
    BY <1>4 DEF First
  <2>2. Sum(f, s \ {First(s)}) \in Nat
    BY <1>2, <2>1
  <2>3. f[First(s)] \in Nat
    BY <2>1
  <2>. QED
    BY <1>3, <1>4, <2>2, <2>3
<1>. QED
  BY <1>3, <1>4

\* The order in which a fold takes the members is not seen in the sum.
LEMMA SumRemove ==
  ASSUME NEW f, NEW S, IsFiniteSet(S), \A y \in S : f[y] \in Nat, NEW x \in S
  PROVE  Sum(f, S) = f[x] + Sum(f, S \ {x})
<1>. DEFINE B == {s \in SUBSET S : \E y \in s : Sum(f, s) # f[y] + Sum(f, s \ {y})}
<1>1. SUFFICES ASSUME B # {} PROVE FALSE
  OBVIOUS
<1>2. PICK s \in B : \A v \in B : v \subseteq s => v = s
  <2>1. B \in SUBSET (SUBSET S)
    OBVIOUS
  <2>. HIDE DEF B
  <2>. QED
    BY <1>1, <2>1, SmallestSet
<1>f. \A v \in SUBSET S : IsFiniteSet(v)
  BY FS_Subset
<1>3. PICK y \in s : Sum(f, s) # f[y] + Sum(f, s \ {y})
  OBVIOUS
<1>. DEFINE z == First(s)
<1>4. z \in s
  BY DEF First
<1>5. Sum(f, s) = f[z] + Sum(f, s \ {z})
  BY <1>f, SumUnfolds
<1>6. y # z
  BY <1>3, <1>5
<1>7. ASSUME NEW v \in SUBSET s, v # s, NEW w \in v PROVE Sum(f, v) = f[w] + Sum(f, v \ {w})
  <2>1. v \notin B
    BY <1>2, <1>7
  <2>. QED
    BY <1>7, <2>1
<1>8. /\ Sum(f, s \ {z}) = f[y] + Sum(f, (s \ {z}) \ {y})
      /\ Sum(f, s \ {y}) = f[z] + Sum(f, (s \ {y}) \ {z})
  <2>. HIDE DEF z
  <2>1. s \ {z} \in SUBSET s /\ s \ {z} # s /\ y \in s \ {z}
    BY <1>4, <1>6
  <2>2. s \ {y} \in SUBSET s /\ s \ {y} # s /\ z \in s \ {y}
    BY <1>4, <1>6
  <2>. QED
    BY <1>7, <2>1, <2>2
<1>9. (s \ {z}) \ {y} = (s \ {y}) \ {z}
  OBVIOUS
<1>10. f[y] \in Nat /\ f[z] \in Nat /\ Sum(f, (s \ {z}) \ {y}) \in Nat
  BY <1>3, <1>4, <1>f, SumInNat
<1>. QED
  BY <1>3, <1>5, <1>8, <1>9, <1>10

\* A sum sees its function only where it adds.
LEMMA SumSame ==
  ASSUME NEW f, NEW g, NEW S, IsFiniteSet(S), \A x \in S : f[x] = g[x]
  PROVE  Sum(f, S) = Sum(g, S)
<1>. DEFINE B == {s \in SUBSET S : Sum(f, s) # Sum(g, s)}
<1>1. SUFFICES ASSUME B # {} PROVE FALSE
  OBVIOUS
<1>2. PICK s \in B : \A v \in B : v \subseteq s => v = s
  <2>1. B \in SUBSET (SUBSET S)
    OBVIOUS
  <2>. HIDE DEF B
  <2>. QED
    BY <1>1, <2>1, SmallestSet
<1>f. \A v \in SUBSET S : IsFiniteSet(v)
  BY FS_Subset
<1>3. /\ Sum(f, s) = IF s = {} THEN 0 ELSE f[First(s)] + Sum(f, s \ {First(s)})
      /\ Sum(g, s) = IF s = {} THEN 0 ELSE g[First(s)] + Sum(g, s \ {First(s)})
  BY <1>f, SumUnfolds
<1>4. CASE s # {}
  <2>1. First(s) \in s
    BY <1>4 DEF First
  <2>2. Sum(f, s \ {First(s)}) = Sum(g, s \ {First(s)})
    BY <1>2, <2>1
  <2>. QED
    BY <1>3, <2>1, <2>2
<1>. QED
  BY <1>3, <1>4

LEMMA SumAdd ==
  ASSUME NEW f, NEW S, NEW x, IsFiniteSet(S), x \notin S, \A y \in S \cup {x} : f[y] \in Nat
  PROVE  Sum(f, S \cup {x}) = Sum(f, S) + f[x]
<1>1. IsFiniteSet(S \cup {x})
  BY FS_AddElement
<1>2. Sum(f, S \cup {x}) = f[x] + Sum(f, (S \cup {x}) \ {x})
  BY <1>1, SumRemove
<1>3. (S \cup {x}) \ {x} = S
  OBVIOUS
<1>4. Sum(f, S) \in Nat /\ f[x] \in Nat
  BY SumInNat
<1>. QED
  BY <1>2, <1>3, <1>4

-----------------------------------------------------------------------------
(* The totals of the latency client. *)

\* Where a thread of the latency client can be, while nothing has ended it.
MeasuringPlaces == {"start", "ping", "pong", "lock", "merge", "done", "refused"}

\* The globals are the results of the merged threads, and the thread between
\* reading and writing them holds the mutex and has read what they still are.
TotalsInv ==
  /\ IsFiniteSet(Merged)
  /\ g_tot_t = SumOverMerged(total_t) /\ g_cnt = SumOverMerged(cnt)
  /\ \A c \in Merged : max_t[c] <= g_max_t
  /\ g_max_t = 0 \/ \E c \in Merged : max_t[c] = g_max_t
  /\ \A c \in Conns : cpc[c] = "merge" => mtx = c /\ seen_g[c] = Totals

MergeInv ==
  stage \in Measuring =>
    /\ \A c \in Conns : cpc[c] \in MeasuringPlaces \cup {"killed"}
    /\ (\A c \in Conns : cpc[c] # "killed") => TotalsInv

\* The sums of the merged threads, in both states of a step.
LEMMA MergedSums ==
  /\ SumOverMerged(total_t) = Sum(total_t, Merged) /\ SumOverMerged(cnt) = Sum(cnt, Merged)
  /\ SumOverMerged(total_t)' = Sum(total_t', Merged') /\ SumOverMerged(cnt)' = Sum(cnt', Merged')
  BY DEF SumOverMerged, Sum, FoldFunctionOnSet, MapThenFoldSet

\* A program's step that neither merges nor enters the critical section, and
\* leaves alone what is measured by the threads that have merged.
LEMMA TotalsKept ==
  ASSUME TotalsInv, ClientInv, NEW c \in Conns, cpc[c] # "done",
         NEW p \in MeasuringPlaces \ {"merge", "done"}, Proceed(c, p),
         UNCHANGED <<g_tot_t, g_max_t, g_cnt, mtx, seen_g>>,
         \A d \in Conns : d # c => total_t'[d] = total_t[d] /\ max_t'[d] = max_t[d] /\ cnt'[d] = cnt[d]
  PROVE  TotalsInv'
<1>1. cpc' = [cpc EXCEPT ![c] = p] /\ p # "merge" /\ p # "done" /\ cpc \in [Conns -> ClientPlaces]
  BY DEF Proceed, ClientInv, ProgramTypes
<1>2. Merged' = Merged /\ c \notin Merged /\ Merged \subseteq Conns
  BY <1>1 DEF Merged
<1>3. \A d \in Merged : total_t'[d] = total_t[d] /\ max_t'[d] = max_t[d] /\ cnt'[d] = cnt[d]
  BY <1>2
<1>4. /\ SumOverMerged(total_t)' = SumOverMerged(total_t)
      /\ SumOverMerged(cnt)' = SumOverMerged(cnt)
  <2>f. IsFiniteSet(Merged)
    BY DEF TotalsInv
  <2>1. Sum(total_t', Merged) = Sum(total_t, Merged)
    BY ONLY <1>3, <2>f, SumSame
  <2>4. Sum(cnt', Merged) = Sum(cnt, Merged)
    BY ONLY <1>3, <2>f, SumSame
  <2>. QED
    BY <1>2, <2>1, <2>4, MergedSums
<1>5. \A d \in Conns : cpc'[d] = "merge" => cpc[d] = "merge"
  BY <1>1
<1>. QED
  BY <1>2, <1>3, <1>4, <1>5 DEF TotalsInv, Totals

\* The thread that takes the mutex is alone in the critical section.
LEMMA TotalsLocked == ASSUME TotalsInv, ClientInv, NEW c \in Conns, Lock(c) PROVE TotalsInv'
<1>1. /\ UNCHANGED <<total_t, max_t, cnt, g_tot_t, g_max_t, g_cnt>> /\ cpc[c] = "lock"
      /\ mtx = Nobody /\ mtx' = c /\ seen_g' = [seen_g EXCEPT ![c] = Totals]
      /\ cpc' = [cpc EXCEPT ![c] = "merge"]
  BY DEF Lock, Measures, Program, TakesLock, Proceed
<1>2. cpc \in [Conns -> ClientPlaces] /\ seen_g \in [Conns -> Nat \X Nat \X Nat]
  BY DEF ClientInv, ProgramTypes, MeasureTypes
<1>3. Merged' = Merged
  BY <1>1, <1>2 DEF Merged
<1>4. \A d \in Conns : cpc[d] # "merge"
  BY <1>1, LatencyAssumption DEF TotalsInv
<1>5. \A d \in Conns : cpc'[d] = "merge" => mtx' = d /\ seen_g'[d] = Totals
  BY <1>1, <1>2, <1>4
<1>6. Totals' = Totals
  BY <1>1 DEF Totals
<1>. QED
  BY <1>1, <1>3, <1>5, <1>6, MergedSums DEF TotalsInv

\* What it writes is what it read, and its own results.
LEMMA TotalsMerge == ASSUME TotalsInv, ClientInv, NEW c \in Conns, Merge(c) PROVE TotalsInv'
<1>1. /\ UNCHANGED <<total_t, max_t, cnt>> /\ cpc[c] = "merge"
      /\ mtx' = Nobody /\ cpc' = [cpc EXCEPT ![c] = "done"]
      /\ g_tot_t' = seen_g[c][1] + total_t[c]
      /\ g_max_t' = IF max_t[c] > seen_g[c][2] THEN max_t[c] ELSE seen_g[c][2]
      /\ g_cnt' = seen_g[c][3] + cnt[c]
  BY DEF Merge, Measures, Program, Proceed
<1>2. /\ cpc \in [Conns -> ClientPlaces] /\ g_tot_t \in Nat /\ g_max_t \in Nat /\ g_cnt \in Nat
      /\ \A d \in Conns : total_t[d] \in Nat /\ max_t[d] \in Nat /\ cnt[d] \in Nat
  <2>1. total_t \in [Conns -> Nat] /\ max_t \in [Conns -> Nat] /\ cnt \in [Conns -> 0 .. Rounds]
    BY DEF ClientInv, MeasureTypes
  <2>2. \A d \in Conns : total_t[d] \in Nat /\ max_t[d] \in Nat /\ cnt[d] \in Nat
    BY ONLY <2>1
  <2>3. cpc \in [Conns -> ClientPlaces] /\ g_tot_t \in Nat /\ g_max_t \in Nat /\ g_cnt \in Nat
    BY DEF ClientInv, ProgramTypes, MeasureTypes
  <2>. QED
    BY <2>2, <2>3
<1>3. mtx = c /\ seen_g[c] = <<g_tot_t, g_max_t, g_cnt>>
  BY <1>1 DEF TotalsInv, Totals
<1>4. /\ g_tot_t' = g_tot_t + total_t[c] /\ g_cnt' = g_cnt + cnt[c]
      /\ g_max_t' = IF max_t[c] > g_max_t THEN max_t[c] ELSE g_max_t
  BY <1>1, <1>3
<1>5. Merged' = Merged \cup {c} /\ c \notin Merged /\ Merged \subseteq Conns
  BY <1>1, <1>2 DEF Merged
<1>6. IsFiniteSet(Merged) /\ IsFiniteSet(Merged')
  BY <1>5, FS_AddElement DEF TotalsInv
<1>7. g_tot_t' = SumOverMerged(total_t)'
  <2>0. \A d \in Merged \cup {c} : total_t[d] \in Nat
    BY <1>2, <1>5
  <2>1. Sum(total_t, Merged \cup {c}) = Sum(total_t, Merged) + total_t[c]
    BY ONLY <2>0, <1>5, <1>6, SumAdd
  <2>2. g_tot_t = Sum(total_t, Merged)
    BY MergedSums DEF TotalsInv
  <2>3. SumOverMerged(total_t)' = Sum(total_t, Merged \cup {c})
    BY <1>1, <1>5, MergedSums
  <2>. QED
    BY <1>4, <2>1, <2>2, <2>3
<1>8. g_cnt' = SumOverMerged(cnt)'
  <2>0. \A d \in Merged \cup {c} : cnt[d] \in Nat
    BY <1>2, <1>5
  <2>1. Sum(cnt, Merged \cup {c}) = Sum(cnt, Merged) + cnt[c]
    BY ONLY <2>0, <1>5, <1>6, SumAdd
  <2>2. g_cnt = Sum(cnt, Merged)
    BY MergedSums DEF TotalsInv
  <2>3. SumOverMerged(cnt)' = Sum(cnt, Merged \cup {c})
    BY <1>1, <1>5, MergedSums
  <2>. QED
    BY <1>4, <2>1, <2>2, <2>3
<1>9. \A d \in Merged' : max_t'[d] <= g_max_t'
  <2>1. \A d \in Merged : max_t[d] <= g_max_t
    BY DEF TotalsInv
  <2>. QED
    BY <1>1, <1>2, <1>4, <1>5, <2>1
<1>10. g_max_t' = 0 \/ \E d \in Merged' : max_t'[d] = g_max_t'
  BY <1>1, <1>4, <1>5 DEF TotalsInv
<1>11. \A d \in Conns : cpc'[d] # "merge"
  <2>1. \A d \in Conns : cpc[d] = "merge" => d = c
    BY <1>3 DEF TotalsInv
  <2>. QED
    BY <1>1, <1>2, <2>1
<1>. QED
  BY <1>6, <1>7, <1>8, <1>9, <1>10, <1>11 DEF TotalsInv

\* Each step of a thread.
LEMMA RunTotals ==
  ASSUME MergeInv, ClientInv, stage \in Measuring, UNCHANGED stage, NEW c \in Conns, RunClient(c)
  PROVE  MergeInv'
<1>. DEFINE Ended == \E d \in Conns : cpc[d] = "killed"
<1>1. cpc \in [Conns -> ClientPlaces]
  BY DEF ClientInv, ProgramTypes
<1>2. cpc[c] \in {"start", "ping", "pong", "lock", "merge"}
  BY DEF RunClient, StartClient, Ping, Pong, Lock, Merge, Measures, Program
<1>3. ASSUME NEW p \in MeasuringPlaces, Proceed(c, p),
             (\A d \in Conns : cpc[d] # "killed") => TotalsInv'
      PROVE  MergeInv'
  <2>1. cpc' = [cpc EXCEPT ![c] = p]
    BY <1>3 DEF Proceed
  <2>2. \A d \in Conns : cpc'[d] \in MeasuringPlaces \cup {"killed"}
    BY <1>1, <2>1 DEF MergeInv
  <2>3. ASSUME \A d \in Conns : cpc'[d] # "killed" PROVE \A d \in Conns : cpc[d] # "killed"
    BY <1>1, <1>2, <2>1, <2>3
  <2>. QED
    BY <1>3, <2>2, <2>3 DEF MergeInv
<1>4. (\A d \in Conns : cpc[d] # "killed") => TotalsInv
  BY DEF MergeInv
<1>5. CASE StartClient(c) \/ Ping(c)
  <2>1. UNCHANGED lvars
    BY <1>5 DEF StartClient, Ping
  <2>2. ASSUME NEW p \in {"ping", "refused", "lock", "pong"}, Proceed(c, p) PROVE MergeInv'
    <3>1. p \in MeasuringPlaces \ {"merge", "done"}
      BY <2>2 DEF MeasuringPlaces
    <3>2. TotalsInv => TotalsInv'
      BY <1>2, <2>1, <2>2, <3>1, TotalsKept DEF lvars
    <3>. QED
      BY <1>3, <1>4, <2>2, <3>1, <3>2
  <2>3. CASE ProcessKilled
    BY <1>2, <2>3 DEF ProcessKilled, MergeInv, ClientPlaces
  <2>. QED
    BY <1>5, <2>2, <2>3 DEF StartClient, Ping, Connect, Bare, Measures, Program, Measuring
<1>6. CASE Pong(c)
  <2>1. UNCHANGED <<g_tot_t, g_max_t, g_cnt, mtx, seen_g>>
    BY <1>6 DEF Pong
  <2>2. \A d \in Conns : d # c => total_t'[d] = total_t[d] /\ max_t'[d] = max_t[d] /\ cnt'[d] = cnt[d]
    <3>1. total_t \in [Conns -> Nat] /\ max_t \in [Conns -> Nat] /\ cnt \in [Conns -> 0 .. Rounds]
      BY DEF ClientInv, MeasureTypes
    <3>. QED
      BY <1>6, <3>1 DEF Pong
  <2>3. PICK p \in {"ping", "lock"} : Proceed(c, p)
    BY <1>6 DEF Pong
  <2>4. p \in MeasuringPlaces \ {"merge", "done"}
    BY <2>3 DEF MeasuringPlaces
  <2>5. TotalsInv => TotalsInv'
    BY <1>2, <2>1, <2>2, <2>3, <2>4, TotalsKept
  <2>. QED
    BY <1>3, <1>4, <2>3, <2>4, <2>5
<1>7. CASE Lock(c)
  BY <1>3, <1>4, <1>7, TotalsLocked DEF Lock, MeasuringPlaces
<1>8. CASE Merge(c)
  BY <1>3, <1>4, <1>8, TotalsMerge DEF Merge, MeasuringPlaces
<1>. QED
  BY <1>5, <1>6, <1>7, <1>8 DEF RunClient

\* Every step.
LEMMA MergeStep == ASSUME MergeInv, ClientInv, [Next]_vars PROVE MergeInv'
<1>1. CASE UNCHANGED <<stage, cvars, lvars>>
  BY <1>1, MergedSums DEF MergeInv, TotalsInv, Merged, Totals, cvars, lvars
<1>2. CASE UNCHANGED stage /\ stage \notin Measuring
  BY <1>2 DEF MergeInv
<1>3. ASSUME NEW c \in Conns, RunClient(c), stage \in Measuring, UNCHANGED stage PROVE MergeInv'
  BY <1>3, RunTotals
<1>4. ASSUME NEW c \in Conns, Proceeds(c) \/ Input(c), stage \in Measuring PROVE FALSE
  <2>1. ~Proceeds(c)
    BY <1>4 DEF Measuring, Proceeds, Program, ConnectSkeleton, SendGreeting, ReadReply, CloseSocket,
        ConnectEchoLoop, WriteLine, ReadEcho, TestClientConnects, TestClientSends, TestClientRecvs,
        LineConnect, LineSend, LineRecv, Line
  <2>2. ~Input(c)
    BY <1>4 DEF Input, MergeInv, MeasuringPlaces
  <2>. QED
    BY <1>4, <2>1, <2>2
<1>5. CASE Interrupt /\ UNCHANGED stage
  BY <1>5 DEF Interrupt, ProcessKilled, MergeInv
<1>. QED
  BY <1>1, <1>2, <1>3, <1>4, <1>5 DEF Next, Clients, Others, vars

\* The totals of the latency client are those of the threads that have merged:
\* under mtx no thread's sum, count or maximum is lost or counted twice, whatever
\* the order in which the threads finish, until SIGPIPE or its user ends the
\* process (LatencyClient.cpp:55-60).
THEOREM TotalsMerged == Spec => []MergedTotals
<1>1. Init => MergeInv
  <2>. SUFFICES ASSUME Init PROVE MergeInv
    OBVIOUS
  <2>1. /\ cpc = [c \in Conns |-> "start"]
        /\ g_tot_t = 0 /\ g_max_t = 0 /\ g_cnt = 0
    BY DEF Init, LatencyInit
  <2>2. Merged = {} /\ IsFiniteSet(Merged)
    BY <2>1, FS_EmptySet DEF Merged
  <2>3. Sum(total_t, Merged) = 0 /\ Sum(cnt, Merged) = 0
    BY <2>2, SumUnfolds
  <2>4. TotalsInv
    BY <2>1, <2>2, <2>3, MergedSums DEF TotalsInv
  <2>. QED
    BY <2>1, <2>4 DEF MergeInv, MeasuringPlaces
<1>2. MergeInv /\ ClientInv /\ [Next]_vars => MergeInv'
  BY MergeStep
<1>3. MergeInv => MergedTotals
  BY DEF MergeInv, MergedTotals, TotalsInv
<1>. QED
  BY <1>1, <1>2, <1>3, ClientInvariant, PTL DEF Spec

-----------------------------------------------------------------------------
(* Sequences of units. *)

Unit == Conns \X Nat

\* Units of client c, among the first k it has sent, in the order of sending ...
InOrder(c, s, k) ==
  \A i \in 1 .. Len(s) : /\ s[i][1] = c /\ s[i][2] \in i .. k
                         /\ i > 1 => s[i][2] > s[i - 1][2]

\* ... without a gap.
Exact(s) == \A i \in 1 .. Len(s) : s[i][2] = i

\* The members of a concatenation,
LEMMA ConcatParts ==
  ASSUME NEW S, NEW e \in Seq(S), NEW b \in Seq(S)
  PROVE  /\ e \o b \in Seq(S) /\ Len(e \o b) = Len(e) + Len(b)
         /\ \A i \in 1 .. Len(e) : (e \o b)[i] = e[i]
         /\ \A i \in Len(e) + 1 .. Len(e) + Len(b) : (e \o b)[i] = b[i - Len(e)]
  BY ConcatProperties

\* and of a prefix.
LEMMA PrefixParts ==
  ASSUME NEW S, NEW b \in Seq(S), NEW m \in 0 .. Len(b)
  PROVE  /\ SubSeq(b, 1, m) \in Seq(S) /\ Len(SubSeq(b, 1, m)) = m
         /\ \A i \in 1 .. m : SubSeq(b, 1, m)[i] = b[i]
  BY SubSeqProperties

\* A prefix of what is in order is in order.
LEMMA OrderOfPrefix ==
  ASSUME NEW c, NEW k \in Nat, NEW r \in Seq(Unit), NEW s \in Seq(Unit), Len(s) <= Len(r),
         \A i \in 1 .. Len(s) : s[i] = r[i]
  PROVE  (InOrder(c, r, k) => InOrder(c, s, k)) /\ (Exact(r) => Exact(s))
<1>1. Len(r) \in Nat /\ Len(s) \in Nat
  OBVIOUS
<1>2. \A i \in 1 .. Len(s) : i \in 1 .. Len(r) /\ s[i] = r[i] /\ (i > 1 => s[i - 1] = r[i - 1])
  BY <1>1
<1>. QED
  BY <1>2 DEF InOrder, Exact

\* So is what is sent of a buffer, after what was sent before it.
LEMMA OrderOfSent ==
  ASSUME NEW c, NEW k \in Nat, NEW e \in Seq(Unit), NEW b \in Seq(Unit), NEW m \in 0 .. Len(b)
  PROVE  /\ e \o SubSeq(b, 1, m) \in Seq(Unit) /\ Len(e \o SubSeq(b, 1, m)) = Len(e) + m
         /\ InOrder(c, e \o b, k) => InOrder(c, e \o SubSeq(b, 1, m), k)
         /\ Exact(e \o b) => Exact(e \o SubSeq(b, 1, m))
<1>. PICK p : p = SubSeq(b, 1, m)
  OBVIOUS
<1>1. p \in Seq(Unit) /\ Len(p) = m /\ \A i \in 1 .. m : p[i] = b[i]
  BY PrefixParts
<1>2. /\ e \o p \in Seq(Unit) /\ Len(e \o p) = Len(e) + m
      /\ \A i \in 1 .. Len(e) : (e \o p)[i] = e[i]
      /\ \A i \in Len(e) + 1 .. Len(e) + m : (e \o p)[i] = p[i - Len(e)]
  BY <1>1, ConcatParts
<1>3. /\ e \o b \in Seq(Unit) /\ Len(e \o b) = Len(e) + Len(b)
      /\ \A i \in 1 .. Len(e) : (e \o b)[i] = e[i]
      /\ \A i \in Len(e) + 1 .. Len(e) + Len(b) : (e \o b)[i] = b[i - Len(e)]
  BY ConcatParts
<1>4. PICK j \in Nat, l \in Nat : j = Len(e) /\ l = Len(b) /\ m \in 0 .. l
  OBVIOUS
<1>5. ASSUME NEW i \in 1 .. Len(e \o p) PROVE (e \o p)[i] = (e \o b)[i]
  <2>1. i \in 1 .. j + m
    BY <1>2, <1>4, <1>5
  <2>2. CASE i <= j
    BY <2>1, <2>2, <1>2, <1>3, <1>4
  <2>3. CASE i > j
    <3>1. i \in j + 1 .. j + m /\ i \in j + 1 .. j + l /\ i - j \in 1 .. m
      BY <2>1, <2>3, <1>4
    <3>. QED
      BY <3>1, <1>1, <1>2, <1>3, <1>4
  <2>. QED
    BY <2>1, <2>2, <2>3, <1>4
<1>6. Len(e \o p) <= Len(e \o b)
  BY <1>2, <1>3, <1>4
<1>7. (InOrder(c, e \o b, k) => InOrder(c, e \o p, k)) /\ (Exact(e \o b) => Exact(e \o p))
  BY <1>2, <1>3, <1>5, <1>6, OrderOfPrefix
<1>. QED
  BY <1>2, <1>7

\* Sending a unit moves it from the buffer to what was sent.
LEMMA SentAndRest ==
  ASSUME NEW e \in Seq(Unit), NEW b \in Seq(Unit), b # <<>>
  PROVE  (e \o SubSeq(b, 1, 1)) \o Tail(b) = e \o b
<1>1. Len(b) \in Nat /\ Len(b) > 0
  BY EmptySeq
<1>2. SubSeq(b, 1, 1) \in Seq(Unit) /\ Len(SubSeq(b, 1, 1)) = 1 /\ SubSeq(b, 1, 1)[1] = b[1]
  <2>1. 1 \in 0 .. Len(b)
    BY <1>1
  <2>. QED
    BY <2>1, PrefixParts
<1>3. Tail(b) \in Seq(Unit) /\ Len(Tail(b)) = Len(b) - 1 /\ \A i \in 1 .. Len(Tail(b)) : Tail(b)[i] = b[i + 1]
  BY HeadTailProperties
<1>4. SubSeq(b, 1, 1) \o Tail(b) = b
  <2>. PICK h, t : h = SubSeq(b, 1, 1) /\ t = Tail(b)
    OBVIOUS
  <2>1. /\ h \o t \in Seq(Unit) /\ Len(h \o t) = Len(b)
        /\ (h \o t)[1] = b[1]
        /\ \A i \in 2 .. Len(b) : (h \o t)[i] = t[i - 1]
    BY <1>1, <1>2, <1>3, ConcatParts
  <2>2. \A i \in 1 .. Len(b) : (h \o t)[i] = b[i]
    BY <1>1, <1>3, <2>1
  <2>. QED
    BY <2>1, <2>2, SeqEqual
<1>5. (e \o SubSeq(b, 1, 1)) \o Tail(b) = e \o (SubSeq(b, 1, 1) \o Tail(b))
  BY <1>2, <1>3, ConcatAssociative
<1>. QED
  BY <1>4, <1>5

\* Of k units at most k are in order.
LEMMA OrderLength ==
  ASSUME NEW c, NEW k \in Nat, NEW s \in Seq(Unit), InOrder(c, s, k) PROVE Len(s) <= k
<1>1. PICK n \in Nat : n = Len(s)
  OBVIOUS
<1>2. CASE n > 0
  <2>1. s[n][2] \in n .. k
    BY <1>1, <1>2 DEF InOrder
  <2>. QED
    BY <1>1, <2>1
<1>. QED
  BY <1>1, <1>2

\* What was in order remains so when the client sends more.
LEMMA OrderGrows ==
  ASSUME NEW c, NEW k \in Nat, NEW l \in Nat, k <= l, NEW s \in Seq(Unit), InOrder(c, s, k)
  PROVE  InOrder(c, s, l)
<1>1. \A i \in 1 .. Len(s) : s[i][2] \in i .. l
  BY DEF InOrder
<1>. QED
  BY <1>1 DEF InOrder

\* Two sequences of numbers, one after the other.
LEMMA OrderJoins ==
  ASSUME NEW c, NEW k \in Nat, NEW n \in Nat, NEW j \in Nat, NEW q, j <= k,
         \A i \in 1 .. j : /\ q[i][1] = c /\ q[i][2] \in i .. k
                           /\ i > 1 => q[i][2] > q[i - 1][2],
         \A i \in j + 1 .. j + n : q[i][1] = c /\ q[i][2] = k + (i - j),
         NEW i \in 1 .. j + n
  PROVE  /\ q[i][1] = c /\ q[i][2] \in i .. k + n
         /\ i > 1 => q[i][2] > q[i - 1][2]
<1>1. CASE i <= j
  <2>1. i \in 1 .. j
    BY <1>1
  <2>2. q[i][1] = c /\ q[i][2] \in i .. k /\ (i > 1 => q[i][2] > q[i - 1][2])
    BY <2>1
  <2>. QED
    BY <2>2
<1>2. CASE i = j + 1
  <2>1. i \in j + 1 .. j + n
    BY <1>2
  <2>2. q[i][1] = c /\ q[i][2] = k + 1
    BY <1>2, <2>1
  <2>3. i > 1 => q[i - 1][2] \in (i - 1) .. k
    BY <1>2
  <2>. QED
    BY <1>2, <2>1, <2>2, <2>3
<1>3. CASE i > j + 1
  <2>1. i \in j + 1 .. j + n /\ i - 1 \in j + 1 .. j + n
    BY <1>3
  <2>2. q[i][1] = c /\ q[i][2] = k + (i - j) /\ q[i - 1][2] = k + ((i - 1) - j)
    BY <2>1
  <2>. QED
    BY <2>1, <2>2
<1>. QED
  BY <1>1, <1>2, <1>3

\* What is received comes after what has been sent back.
LEMMA OrderOfReceived ==
  ASSUME NEW c \in Conns, NEW k \in Nat, NEW n \in Nat, NEW e \in Seq(Unit), NEW b \in Seq(Unit),
         Len(b) = n, \A i \in 1 .. n : b[i][1] = c /\ b[i][2] = k + i, InOrder(c, e, k)
  PROVE  /\ InOrder(c, e \o b, k + n)
         /\ Exact(e) /\ Len(e) = k => Exact(e \o b)
<1>. PICK q : q = e \o b
  OBVIOUS
<1>3. PICK j \in Nat : j = Len(e)
  OBVIOUS
<1>2. j <= k
  <2>1. Len(e) <= k
    BY OrderLength
  <2>. QED
    BY <1>3, <2>1
<1>4. /\ Len(q) = j + n
      /\ \A i \in 1 .. j : q[i] = e[i]
      /\ \A i \in j + 1 .. j + n : q[i] = b[i - j]
  <2>1. /\ Len(e \o b) = Len(e) + Len(b)
        /\ \A i \in 1 .. Len(e) : (e \o b)[i] = e[i]
        /\ \A i \in Len(e) + 1 .. Len(e) + Len(b) : (e \o b)[i] = b[i - Len(e)]
    BY ConcatParts
  <2>. QED
    BY <1>3, <2>1
<1>5. \A i \in 1 .. j : /\ q[i][1] = c /\ q[i][2] \in i .. k
                        /\ i > 1 => q[i][2] > q[i - 1][2]
  <2>1. \A i \in 1 .. j : i > 1 => i - 1 \in 1 .. j
    OBVIOUS
  <2>. QED
    BY <1>3, <1>4, <2>1 DEF InOrder
<1>6. ASSUME NEW i \in j + 1 .. j + n PROVE q[i][1] = c /\ q[i][2] = k + (i - j)
  <2>1. i - j \in 1 .. n /\ q[i] = b[i - j]
    BY <1>4
  <2>. QED
    BY <2>1
<1>7. \A i \in 1 .. j + n : /\ q[i][1] = c /\ q[i][2] \in i .. k + n
                            /\ i > 1 => q[i][2] > q[i - 1][2]
  BY ONLY <1>2, <1>5, <1>6, OrderJoins, k \in Nat, n \in Nat, j \in Nat
<1>8. InOrder(c, q, k + n)
  BY <1>4, <1>7 DEF InOrder
<1>9. ASSUME Exact(e), Len(e) = k PROVE Exact(q)
  <2>1. \A i \in 1 .. j : q[i][2] = i
    BY <1>3, <1>4, <1>9 DEF Exact
  <2>2. ASSUME NEW i \in j + 1 .. j + n PROVE q[i][2] = i
    <3>1. q[i][2] = k + (i - j) /\ k = j
      BY <1>3, <1>6, <1>9
    <3>2. i \in Int
      OBVIOUS
    <3>. QED
      BY ONLY <3>1, <3>2, j \in Nat
  <2>3. \A i \in 1 .. j + n : i \in 1 .. j \/ i \in j + 1 .. j + n
    OBVIOUS
  <2>4. \A i \in 1 .. j + n : q[i][2] = i
    BY <2>1, <2>2, <2>3
  <2>. QED
    BY <1>4, <2>4 DEF Exact
<1>. QED
  BY <1>8, <1>9

\* What is in order holds no greeting.
LEMMA NoGreeting ==
  ASSUME NEW c, NEW k \in Nat, NEW s \in Seq(Unit), InOrder(c, s, k), s # <<>>
  PROVE  Head(s) # <<c, 0>>
<1>1. 1 \in 1 .. Len(s)
  BY EmptySeq
<1>2. s[1][2] \in 1 .. k
  BY <1>1 DEF InOrder
<1>. QED
  BY <1>2

-----------------------------------------------------------------------------
(* What the clients get back. *)

\* Thread t has something to send back to client c.
Serves(t, c) == Sending(t) /\ FileOf(Holder(t)) = c

\* It is what c has sent after what it was sent back; and if the server blocks,
\* all of it.
Pending(t, c) ==
  /\ InOrder(c, echoed[c] \o buf[t], taken[c])
  /\ stage \in Blocking => /\ Exact(echoed[c] \o buf[t])
                           /\ Len(echoed[c]) + Len(buf[t]) = taken[c]

\* A connection has one descriptor, once it has been accepted.
ConnsInv ==
  /\ \A f, g \in Fds : fdtab[f] \in Conns /\ fdtab[f] = fdtab[g] => f = g
  /\ \A f \in Fds : fdtab[f] \in Conns => fdtab[f] \in accepted

\* The client to whom a thread is about to send is still there.
SendersInv == alive => \A t \in Threads : Sending(t) => FileOf(Holder(t)) \in Conns

\* What has been sent back to a client: in 01 the greeting, else its own data.
EchoInv ==
  \A c \in Conns :
    IF stage = "01_skeleton"
    THEN echoed[c] \in {<<>>, <<<<c, 0>>>>}
    ELSE InOrder(c, echoed[c], taken[c]) /\ (stage \in Blocking => Exact(echoed[c]))

PendingInv ==
  alive => \A c \in Conns, t \in Threads : peer[c] = "open" /\ Serves(t, c) => Pending(t, c)

\* What a blocking server has received and is not about to send it has sent.
AllSentInv ==
  alive /\ stage \in Blocking \ {"01_skeleton"} =>
    \A c \in Conns :
      peer[c] = "open" /\ (\A t \in Threads : ~Serves(t, c)) => Len(echoed[c]) = taken[c]

EInv == ConnsInv /\ SendersInv /\ EchoInv /\ PendingInv /\ AllSentInv

\* A connection that is accepted gets one descriptor.
LEMMA ConnsKept == ASSUME OInv, ConnsInv, Effect, Queued PROVE ConnsInv'
<1>1. accepted \subseteq accepted'
  BY QueuesKept DEF OInv
<1>2. CASE UNCHANGED <<sock, fdtab>>
  BY <1>1, <1>2 DEF ConnsInv
<1>3. ASSUME NEW o \in Objects, NEW f \in Fds, NEW x \in Files, Opens(o, f, x), Arrives(x)
      PROVE  ConnsInv'
  <2>1. fdtab'[f] = x /\ \A g \in Fds : g # f => fdtab'[g] = fdtab[g]
    BY <1>3 DEF Opens, OInv, Owned
  <2>2. x \in Conns => x \in accepted' /\ x \notin accepted
    BY <1>3 DEF Arrives
  <2>. QED
    BY <1>1, <2>1, <2>2 DEF ConnsInv
<1>4. ASSUME NEW os \in SUBSET Objects, Closes(os) PROVE ConnsInv'
  <2>1. \A f \in Fds : fdtab'[f] \in Conns => fdtab'[f] = fdtab[f]
    BY <1>4, ThreadFacts DEF Closes
  <2>. QED
    BY <1>1, <2>1 DEF ConnsInv
<1>. QED
  BY <1>2, <1>3, <1>4 DEF Effect

\* Where a thread holds its client is a place.
LEMMA HolderPlace ==
  ASSUME Inv, NEW t \in Threads, Sending(t) PROVE Holder(t) \in Objects
<1>1. stage \in {"07_epoll", "08_MultiReactor"} => t \in Reactors /\ pc[t] = "send"
  BY ThreadFacts DEF Sending, Sender
<1>2. stage \in {"07_epoll", "08_MultiReactor"} => cur[t] \in Fds
  BY <1>1 DEF Inv, CInv, CurInv
<1>. QED
  BY <1>2, ThreadFacts, PlaceFacts DEF Sending, Sender, Holder

\* While it has something to send, nobody takes the client away.
LEMMA HeldKept ==
  ASSUME Inv, SendersInv, Effect, alive, alive', NEW t \in Threads, Sending(t),
         Holder(t)' = Holder(t)
  PROVE  FileOf(Holder(t))' = FileOf(Holder(t))
<1>. PICK o : o = Holder(t)
  OBVIOUS
<1>1. o \in Objects /\ FileOf(o) \in Conns
  BY HolderPlace DEF SendersInv
<1>2. sock[o] \in Fds /\ fdtab[sock[o]] = FileOf(o)
  BY <1>1, ThreadFacts DEF FileOf, IsValid, Inv, OInv, Owned
<1>3. sock'[o] = sock[o] /\ fdtab'[sock[o]] = fdtab[sock[o]]
  <2>1. CASE UNCHANGED <<sock, fdtab>>
    BY <2>1
  <2>2. ASSUME NEW p \in Objects, NEW f \in Fds, NEW x \in Files, Opens(p, f, x)
        PROVE  sock'[o] = sock[o] /\ fdtab'[sock[o]] = fdtab[sock[o]]
    <3>1. p # o /\ f # sock[o]
      BY <1>1, <1>2, <2>2, FdFacts, ThreadFacts DEF Opens, Free
    <3>. QED
      BY <1>1, <1>2, <2>2, <3>1 DEF Opens, Inv, OInv, Owned
  <2>3. ASSUME NEW os \in SUBSET Objects, Closes(os), MayClose(os)
        PROVE  sock'[o] = sock[o] /\ fdtab'[sock[o]] = fdtab[sock[o]]
    <3>1. o \notin os
      BY <2>3 DEF MayClose, Spares
    <3>2. \A p \in os : sock[p] # sock[o]
      BY <1>1, <1>2, <3>1, FdFacts DEF Inv, OInv, Owned
    <3>. QED
      BY <1>1, <1>2, <2>3, <3>1, <3>2 DEF Closes
  <2>. QED
    BY <2>1, <2>2, <2>3 DEF Effect
<1>4. FileOf(o)' = FileOf(o)
  BY <1>2, <1>3, FdFacts DEF FileOf, IsValid
<1>5. FileOf(Holder(t))' = IF sock'[o] # NoFd THEN fdtab'[sock'[o]] ELSE NoFile
  BY DEF FileOf, IsValid
<1>. QED
  BY <1>2, <1>3, <1>5, FdFacts

\* Two threads do not serve the same client.
LEMMA ServedOnce ==
  ASSUME Inv, ConnsInv, NEW t \in Threads, NEW u \in Threads, t # u, Sending(t), Sender(u),
         stage = "08_MultiReactor" => cur[u] \in Fds,
         Holder(u) \in Objects, FileOf(Holder(u)) \in Conns
  PROVE  FileOf(Holder(t)) # FileOf(Holder(u))
<1>. PICK o, p : o = Holder(t) /\ p = Holder(u)
  OBVIOUS
<1>1. o # p /\ o \in Objects /\ p \in Objects
  BY HoldersDiffer, HolderPlace
<1>. SUFFICES ASSUME FileOf(o) = FileOf(p) PROVE FALSE
  OBVIOUS
<1>2. /\ sock[o] \in Fds /\ sock[p] \in Fds
      /\ fdtab[sock[o]] = FileOf(o) /\ fdtab[sock[p]] = FileOf(p)
  BY <1>1, ThreadFacts DEF FileOf, IsValid, Inv, OInv, Owned
<1>3. sock[o] # sock[p]
  BY <1>1, <1>2, FdFacts DEF Inv, OInv, Owned
<1>. QED
  BY <1>2, <1>3 DEF ConnsInv

\* What a thread is about to send, and to whom, stays as it is.
Stays(u) ==
  /\ Sending(u)' <=> Sending(u)
  /\ Sending(u) => Holder(u)' = Holder(u)
  /\ buf'[u] = buf[u]

OthersStay(t) == \A u \in Threads : u # t => Stays(u)

\* A thread receives something that it has to send back.
Reading(t) ==
  /\ Sender(t) /\ ~Sending(t) /\ Sending(t)' /\ Holder(t)' = Holder(t)
  /\ stage = "08_MultiReactor" => cur[t] \in Fds
  /\ Holder(t) \in Objects /\ Received(t, Holder(t))
  /\ UNCHANGED <<sock, fdtab, peer, sent, echoed>>
  /\ OthersStay(t)

\* It sends, and then has no more to send, or has sent one unit of it.
Writing(t) ==
  /\ Sending(t) /\ UNCHANGED <<alive, sock, fdtab, sent, taken>> /\ OthersStay(t)
  /\ \/ SendBroken(Holder(t)) /\ UNCHANGED <<peer, echoed>> /\ ~Sending(t)'
     \/ \E n \in 0 .. Len(buf[t]) :
          /\ Transmits(t, Holder(t), n)
          /\ \/ ~Sending(t)' /\ (stage \in Blocking => n = Len(buf[t]))
             \/ /\ Sending(t)' /\ Holder(t)' = Holder(t) /\ n = 1
                /\ buf[t] # <<>> /\ buf'[t] = Tail(buf[t])

\* The steps of the servers, by what they do with the data.
Turn ==
  \/ stage = "01_skeleton" /\ UNCHANGED sent /\ (UNCHANGED echoed \/ Greets)
  \/ ~alive' /\ UNCHANGED <<sent, taken, echoed>>
  \/ (\A u \in Threads : Stays(u)) /\ UNCHANGED streams
  \/ \E t \in Threads : Reading(t) \/ Writing(t)

\* Whom a thread that stays as it is serves.
LEMMA StaysServing ==
  ASSUME Inv, SendersInv, Effect, alive, alive', NEW u \in Threads, Stays(u)
  PROVE  /\ Sending(u)' => FileOf(Holder(u))' \in Conns
         /\ \A c \in Conns : Serves(u, c)' <=> Serves(u, c)
<1>1. Sending(u) => FileOf(Holder(u))' = FileOf(Holder(u)) /\ FileOf(Holder(u)) \in Conns
  BY HeldKept DEF Stays, SendersInv
<1>2. Sending(u)' <=> Sending(u)
  BY DEF Stays
<1>. QED
  BY <1>1, <1>2 DEF Serves

\* A thread that is about to send has the units that it says.
LEMMA PendingStays ==
  ASSUME PendingInv, alive, UNCHANGED stage, NEW u \in Threads, Stays(u), NEW c \in Conns,
         Serves(u, c), peer[c] = "open", echoed'[c] = echoed[c], taken'[c] = taken[c]
  PROVE  Pending(u, c)'
<1>1. Pending(u, c) /\ buf'[u] = buf[u]
  BY DEF PendingInv, Stays
<1>. QED
  BY <1>1 DEF Pending, InOrder, Exact

\* What has been sent back is still right when the server has received more.
LEMMA EchoStays ==
  ASSUME EchoInv, UNCHANGED <<stage, echoed>>, NEW c \in Conns,
         StreamTypes, StreamTypes', taken[c] <= taken'[c]
  PROVE  IF stage = "01_skeleton"
         THEN echoed'[c] \in {<<>>, <<<<c, 0>>>>}
         ELSE InOrder(c, echoed'[c], taken'[c]) /\ (stage \in Blocking => Exact(echoed'[c]))
<1>1. /\ taken[c] \in Nat /\ taken'[c] \in Nat /\ echoed[c] \in Seq(Unit) /\ echoed'[c] = echoed[c]
  BY DEF StreamTypes, Unit
<1>2. CASE stage = "01_skeleton"
  BY <1>1, <1>2 DEF EchoInv
<1>3. CASE stage # "01_skeleton"
  <2>1. InOrder(c, echoed[c], taken[c]) /\ (stage \in Blocking => Exact(echoed[c]))
    BY <1>3 DEF EchoInv
  <2>2. InOrder(c, echoed[c], taken'[c])
    BY <1>1, <2>1, OrderGrows
  <2>. QED
    BY <1>1, <1>3, <2>1, <2>2
<1>. QED
  BY <1>2, <1>3

\* A step in which nothing is received or sent,
LEMMA IdleKept ==
  ASSUME Inv, Inv', EInv, Effect, Queued, UNCHANGED stage, alive,
         \A u \in Threads : Stays(u), UNCHANGED streams
  PROVE  EInv'
<1>1. ConnsInv'
  BY ConnsKept DEF Inv, EInv
<1>2. EchoInv'
  BY DEF EInv, EchoInv, InOrder, Exact, streams
<1>3. ASSUME alive'
      PROVE  \A u \in Threads : /\ Sending(u)' => FileOf(Holder(u))' \in Conns
                                /\ \A c \in Conns : Serves(u, c)' <=> Serves(u, c)
  BY <1>3, StaysServing DEF EInv
<1>4. SendersInv'
  BY <1>3 DEF SendersInv
<1>5. PendingInv'
  <2>. SUFFICES ASSUME alive', NEW c \in Conns, NEW t \in Threads, peer'[c] = "open", Serves(t, c)'
                PROVE  Pending(t, c)'
    BY DEF PendingInv
  <2>. QED
    BY <1>3, PendingStays DEF EInv, streams
<1>6. AllSentInv'
  <2>. SUFFICES ASSUME alive', stage' \in Blocking \ {"01_skeleton"}, NEW c \in Conns,
                       peer'[c] = "open", \A t \in Threads : ~Serves(t, c)'
                PROVE  Len(echoed'[c]) = taken'[c]
    BY DEF AllSentInv
  <2>. QED
    BY <1>3 DEF EInv, AllSentInv, streams
<1>. QED
  BY <1>1, <1>2, <1>4, <1>5, <1>6 DEF EInv

\* the last step of the process,
LEMMA EndKept ==
  ASSUME Inv, Inv', EInv, Effect, Queued, UNCHANGED stage, ~alive', UNCHANGED <<sent, taken, echoed>>
  PROVE  EInv'
<1>1. ConnsInv'
  BY ConnsKept DEF Inv, EInv
<1>2. EchoInv'
  BY DEF EInv, EchoInv, InOrder, Exact
<1>3. SendersInv' /\ PendingInv' /\ AllSentInv'
  BY DEF SendersInv, PendingInv, AllSentInv
<1>. QED
  BY <1>1, <1>2, <1>3 DEF EInv

\* a step of stage 01,
LEMMA SkeletonKept ==
  ASSUME Inv, Inv', EInv, Effect, Queued, UNCHANGED stage, stage = "01_skeleton",
         UNCHANGED echoed \/ Greets
  PROVE  EInv'
<1>1. ConnsInv'
  BY ConnsKept DEF Inv, EInv
<1>2. \A t \in Threads : ~Sending(t)'
  BY DEF Sending, Sender
<1>3. SendersInv' /\ PendingInv' /\ AllSentInv'
  BY <1>2 DEF SendersInv, PendingInv, AllSentInv, Serves
<1>4. EchoInv'
  <2>1. \A c \in Conns : echoed[c] \in {<<>>, <<<<c, 0>>>>}
    BY DEF EInv, EchoInv
  <2>2. ASSUME NEW c \in Conns PROVE echoed'[c] \in {<<>>, <<<<c, 0>>>>}
    <3>1. CASE UNCHANGED echoed
      BY <2>1, <3>1
    <3>2. CASE Greets
      <4>1. PICK d \in Conns : echoed[d] = <<>> /\ echoed' = [echoed EXCEPT ![d] = Append(@, <<d, 0>>)]
        BY <3>2 DEF Greets
      <4>2. Append(echoed[d], <<d, 0>>) = <<<<d, 0>>>>
        BY <4>1
      <4>. QED
        BY <2>1, <4>1, <4>2 DEF Inv, DInv, StreamTypes
    <3>. QED
      BY <3>1, <3>2
  <2>. QED
    BY <2>2 DEF EchoInv
<1>. QED
  BY <1>1, <1>3, <1>4 DEF EInv

\* a thread receives,
LEMMA ReadingKept ==
  ASSUME Inv, Inv', EInv, UNCHANGED stage, alive, NEW t \in Threads, Reading(t),
         Effect, Queued
  PROVE  EInv' /\ UNCHANGED <<sent, echoed>>
<1>. PICK c, n : /\ c = FileOf(Holder(t))
                 /\ n = IF Unread(c) < RecvMax THEN Unread(c) ELSE RecvMax
  OBVIOUS
<1>1. /\ c \in Conns /\ Unread(c) > 0 /\ taken' = [taken EXCEPT ![c] = @ + n]
      /\ buf' = [buf EXCEPT ![t] = [i \in 1 .. n |-> <<c, taken[c] + i>>]]
  BY DEF Reading, Received
<1>0. StreamTypes /\ BoundsInv
  BY DEF Inv, DInv
<1>2. taken[c] \in Nat /\ sent[c] \in Nat /\ n \in Nat
  BY <1>0, <1>1, KernelAssumption DEF StreamTypes, BoundsInv, Unread
<1>3. /\ taken'[c] = taken[c] + n /\ \A d \in Conns : d # c => taken'[d] = taken[d]
      /\ buf'[t] = [i \in 1 .. n |-> <<c, taken[c] + i>>]
  BY <1>1 DEF Inv, DInv, StreamTypes
<1>4. /\ buf'[t] \in Seq(Unit) /\ Len(buf'[t]) = n
      /\ \A i \in 1 .. n : buf'[t][i][1] = c /\ buf'[t][i][2] = taken[c] + i
  <2>. PICK k \in Nat : k = taken[c]
    BY <1>2
  <2>1. PICK b \in Seq(Unit) : b = buf'[t]
    BY DEF Inv, DInv, StreamTypes, Unit
  <2>2. b = [i \in 1 .. n |-> <<c, k + i>>]
    BY <1>3, <2>1
  <2>3. Len(b) = n
    BY ONLY <2>2, <1>2
  <2>4. \A i \in 1 .. n : b[i][1] = c /\ b[i][2] = k + i
    BY ONLY <2>2
  <2>. QED
    BY <2>1, <2>3, <2>4
<1>5. ConnsInv' /\ stage # "01_skeleton" /\ UNCHANGED <<sock, fdtab, peer, sent, echoed>>
  BY ConnsKept DEF Inv, EInv, Reading, Sender
<1>6. FileOf(Holder(t))' = c /\ \A u \in Threads : u # t => Stays(u)
  <2>1. Holder(t)' = Holder(t) /\ UNCHANGED <<sock, fdtab>>
    BY DEF Reading
  <2>. QED
    BY <2>1 DEF FileOf, IsValid, Reading, OthersStay
<1>7. ASSUME NEW u \in Threads, u # t, Sending(u) PROVE FileOf(Holder(u)) # c
  BY <1>1, <1>7, ServedOnce DEF EInv, Reading
<1>8. ASSUME alive', NEW u \in Threads, u # t
      PROVE  /\ Sending(u)' => FileOf(Holder(u))' \in Conns
             /\ \A d \in Conns : Serves(u, d)' <=> Serves(u, d) /\ d # c
  <2>1. /\ Sending(u)' => FileOf(Holder(u))' \in Conns
        /\ \A d \in Conns : Serves(u, d)' <=> Serves(u, d)
    BY <1>6, <1>8, StaysServing DEF EInv
  <2>2. ~Serves(u, c)
    BY <1>7, <1>8 DEF Serves
  <2>. QED
    BY <2>1, <2>2
<1>9. SendersInv'
  BY <1>1, <1>6, <1>8 DEF SendersInv
<1>10. EchoInv'
  <2>1. ASSUME NEW d \in Conns PROVE taken[d] <= taken'[d]
    <3>1. taken[d] \in Nat
      BY DEF Inv, DInv, StreamTypes
    <3>2. CASE d = c
      BY <1>2, <1>3, <3>2
    <3>3. CASE d # c
      BY <1>3, <3>1, <3>3
    <3>. QED
      BY <3>2, <3>3
  <2>2. StreamTypes /\ StreamTypes' /\ UNCHANGED <<stage, echoed>> /\ EchoInv
    BY <1>5 DEF Inv, DInv, EInv
  <2>3. ASSUME NEW d \in Conns
        PROVE  IF stage = "01_skeleton"
               THEN echoed'[d] \in {<<>>, <<<<d, 0>>>>}
               ELSE InOrder(d, echoed'[d], taken'[d]) /\ (stage \in Blocking => Exact(echoed'[d]))
    BY <2>1, <2>2, EchoStays
  <2>. QED
    BY <2>2, <2>3 DEF EchoInv, Blocking, InOrder, Exact
<1>11. AllSentInv'
  <2>. SUFFICES ASSUME alive', stage \in Blocking, NEW d \in Conns,
                       peer'[d] = "open", \A u \in Threads : ~Serves(u, d)'
                PROVE  Len(echoed'[d]) = taken'[d]
    BY DEF AllSentInv, Blocking
  <2>1. Serves(t, c)'
    BY <1>6 DEF Serves, Reading
  <2>2. d # c /\ peer[d] = "open"
    BY <1>5, <2>1
  <2>3. \A u \in Threads : ~Serves(u, d)
    BY <1>8, <2>2 DEF Serves, Reading
  <2>. QED
    BY <1>3, <1>5, <2>2, <2>3 DEF EInv, AllSentInv
<1>12. ASSUME alive', peer[c] = "open" PROVE Pending(t, c)'
  <2>. PICK k, e, b : k = taken[c] /\ e = echoed[c] /\ b = buf'[t]
    OBVIOUS
  <2>1. k \in Nat /\ e \in Seq(Unit) /\ b \in Seq(Unit) /\ Len(b) = n /\ Len(e) \in Nat
    BY <1>1, <1>2, <1>4 DEF Inv, DInv, StreamTypes, Unit
  <2>2. \A i \in 1 .. n : b[i][1] = c /\ b[i][2] = k + i
    BY <1>4
  <2>3. InOrder(c, e, k) /\ (stage \in Blocking => Exact(e))
    BY <1>1, <1>5 DEF EInv, EchoInv
  <2>4. stage \in Blocking => Len(e) = k
    <3>1. \A u \in Threads : ~Serves(u, c)
      BY <1>7 DEF Serves, Reading
    <3>. QED
      BY <1>1, <1>5, <1>12, <3>1 DEF EInv, AllSentInv
  <2>5. /\ InOrder(c, e \o b, k + n)
        /\ Exact(e) /\ Len(e) = k => Exact(e \o b)
    BY ONLY <1>1, <1>2, <2>1, <2>2, <2>3, OrderOfReceived
  <2>6. taken'[c] = k + n /\ echoed'[c] = e /\ buf'[t] = b
    BY <1>3, <1>5
  <2>7. stage \in Blocking => Len(e) + Len(b) = k + n
    BY <1>2, <2>1, <2>4
  <2>. QED
    BY <2>3, <2>4, <2>5, <2>6, <2>7 DEF Pending, Exact, InOrder, Blocking
<1>13. PendingInv'
  <2>. SUFFICES ASSUME alive', NEW d \in Conns, NEW u \in Threads, peer'[d] = "open", Serves(u, d)'
                PROVE  Pending(u, d)'
    BY DEF PendingInv
  <2>1. CASE u = t
    BY <1>5, <1>6, <1>12, <2>1 DEF Serves
  <2>2. CASE u # t
    <3>1. Serves(u, d) /\ d # c /\ Stays(u)
      BY <1>6, <1>8, <2>2
    <3>2. taken'[d] = taken[d] /\ echoed'[d] = echoed[d] /\ peer[d] = "open"
      BY <1>3, <1>5, <3>1
    <3>. QED
      BY <3>1, <3>2, PendingStays DEF EInv
  <2>. QED
    BY <2>1, <2>2
<1>. QED
  BY <1>5, <1>9, <1>10, <1>11, <1>13 DEF EInv

\* What has been sent back to c after a step that sends a part of a buffer.
LEMMA SentKept ==
  ASSUME StreamTypes, NEW t \in Threads, NEW c \in Conns, Pending(t, c), UNCHANGED <<stage, taken>>,
         NEW n \in 0 .. Len(buf[t]),
         echoed' = [echoed EXCEPT ![c] = @ \o SubSeq(buf[t], 1, n)]
  PROVE  /\ InOrder(c, echoed'[c], taken'[c]) /\ (stage \in Blocking => Exact(echoed'[c]))
         /\ stage \in Blocking /\ n = Len(buf[t]) => Len(echoed'[c]) = taken'[c]
         /\ n = 1 /\ buf[t] # <<>> /\ buf'[t] = Tail(buf[t]) => Pending(t, c)'
         /\ SubSeq(buf[t], 1, n) \in Seq(Unit)
<1>. PICK e, b, k : e = echoed[c] /\ b = buf[t] /\ k = taken[c]
  OBVIOUS
<1>1. k \in Nat /\ e \in Seq(Unit) /\ b \in Seq(Unit) /\ Len(e) \in Nat /\ Len(b) \in Nat
      /\ n \in 0 .. Len(b)
  <2>1. k \in Nat /\ e \in Seq(Unit) /\ b \in Seq(Unit)
    BY DEF StreamTypes, Unit
  <2>. QED
    BY <2>1
<1>2. /\ InOrder(c, e \o b, k)
      /\ stage \in Blocking => Exact(e \o b) /\ Len(e) + Len(b) = k
  BY DEF Pending
<1>3. /\ e \o SubSeq(b, 1, n) \in Seq(Unit) /\ Len(e \o SubSeq(b, 1, n)) = Len(e) + n
      /\ InOrder(c, e \o SubSeq(b, 1, n), k)
      /\ Exact(e \o b) => Exact(e \o SubSeq(b, 1, n))
  BY ONLY <1>1, <1>2, OrderOfSent
<1>4. echoed'[c] = e \o SubSeq(b, 1, n) /\ taken'[c] = k /\ stage' = stage
  BY DEF StreamTypes
<1>5. SubSeq(b, 1, n) \in Seq(Unit)
  BY ONLY <1>1, PrefixParts
<1>6. ASSUME n = 1, b # <<>>, buf'[t] = Tail(b) PROVE Pending(t, c)'
  <2>1. echoed'[c] \o buf'[t] = e \o b
    BY ONLY <1>1, <1>4, <1>6, SentAndRest
  <2>2. Len(Tail(b)) = Len(b) - 1
    BY ONLY <1>1, <1>6, HeadTailProperties
  <2>3. Len(echoed'[c]) + Len(buf'[t]) = Len(e) + Len(b)
    <3>1. Len(echoed'[c]) = Len(e) + 1
      BY ONLY <1>3, <1>4, <1>6
    <3>. QED
      BY ONLY <1>1, <1>6, <2>2, <3>1
  <2>. QED
    BY <1>2, <1>4, <2>1, <2>3 DEF Pending, InOrder, Exact, Blocking
<1>7. stage \in Blocking /\ n = Len(b) => Len(echoed'[c]) = taken'[c]
  BY ONLY <1>1, <1>2, <1>3, <1>4
<1>. QED
  BY <1>2, <1>3, <1>4, <1>5, <1>6, <1>7

\* What the clients are sent, in one step.
Replies ==
  \/ stage = "01_skeleton"
  \/ UNCHANGED echoed
  \/ \E c \in Conns : \E s \in Seq(Unit) : echoed' = [echoed EXCEPT ![c] = @ \o s]

\* or one sends.
LEMMA WritingKept ==
  ASSUME Inv, Inv', EInv, UNCHANGED stage, alive, alive', NEW t \in Threads, Writing(t),
         Effect, Queued, \A c \in Conns : peer'[c] = "open" => peer[c] = "open"
  PROVE  EInv' /\ UNCHANGED sent /\ Replies
<1>. PICK c : c = FileOf(Holder(t))
  OBVIOUS
<1>1. /\ c \in Conns /\ stage # "01_skeleton" /\ Serves(t, c) /\ Sending(t)
      /\ UNCHANGED <<sock, fdtab, sent, taken, stage>>
  BY DEF Writing, EInv, SendersInv, Sending, Sender, Serves
<1>2. ConnsInv' /\ StreamTypes
  BY ConnsKept DEF Inv, EInv, DInv
<1>3. \A u \in Threads : u # t => Stays(u)
  BY DEF Writing, OthersStay
<1>4. ASSUME NEW u \in Threads, u # t, Sending(u) PROVE FileOf(Holder(u)) # c
  <2>1. stage = "08_MultiReactor" => cur[t] \in Fds
    BY <1>1, ThreadFacts DEF Inv, CInv, CurInv, Sending, Sender
  <2>2. Holder(t) \in Objects /\ Sender(t)
    BY <1>1, HolderPlace DEF Sending
  <2>. QED
    BY <1>1, <1>4, <2>1, <2>2, ServedOnce DEF EInv
<1>5. ASSUME NEW u \in Threads, u # t
      PROVE  /\ Sending(u)' => FileOf(Holder(u))' \in Conns
             /\ \A d \in Conns : Serves(u, d)' <=> Serves(u, d) /\ d # c
  <2>1. /\ Sending(u)' => FileOf(Holder(u))' \in Conns
        /\ \A d \in Conns : Serves(u, d)' <=> Serves(u, d)
    BY <1>3, <1>5, StaysServing DEF EInv
  <2>2. ~Serves(u, c)
    BY <1>4, <1>5 DEF Serves
  <2>. QED
    BY <2>1, <2>2
<1>6. Sending(t)' => Holder(t)' = Holder(t) /\ FileOf(Holder(t))' = c
  <2>1. Sending(t)' => Holder(t)' = Holder(t)
    BY DEF Writing
  <2>. QED
    BY <1>1, <2>1 DEF FileOf, IsValid
<1>7. SendersInv'
  BY <1>1, <1>5, <1>6 DEF SendersInv
<1>8. ASSUME \A d \in Conns : d # c => echoed'[d] = echoed[d],
             InOrder(c, echoed'[c], taken'[c]) /\ (stage \in Blocking => Exact(echoed'[c])),
             peer'[c] = "open" /\ Sending(t)' => Pending(t, c)',
             peer'[c] = "open" /\ ~Sending(t)' /\ stage \in Blocking => Len(echoed'[c]) = taken'[c]
      PROVE  EInv'
  <2>1. \A d \in Conns : d # c => taken'[d] = taken[d] /\ echoed'[d] = echoed[d]
    BY <1>1, <1>8
  <2>2. EchoInv'
    <3>1. ASSUME NEW d \in Conns
          PROVE  InOrder(d, echoed'[d], taken'[d]) /\ (stage \in Blocking => Exact(echoed'[d]))
      BY <1>1, <1>8, <2>1 DEF EInv, EchoInv
    <3>. QED
      BY <1>1, <3>1 DEF EchoInv, InOrder, Exact, Blocking
  <2>3. PendingInv'
    <3>. SUFFICES ASSUME NEW d \in Conns, NEW u \in Threads, peer'[d] = "open", Serves(u, d)'
                  PROVE  Pending(u, d)'
      BY DEF PendingInv
    <3>1. CASE u = t
      BY <1>6, <1>8, <3>1 DEF Serves
    <3>2. CASE u # t
      <4>1. Serves(u, d) /\ d # c /\ Stays(u) /\ peer[d] = "open"
        BY <1>3, <1>5, <3>2
      <4>. QED
        BY <2>1, <4>1, PendingStays DEF EInv
    <3>. QED
      BY <3>1, <3>2
  <2>4. AllSentInv'
    <3>. SUFFICES ASSUME stage \in Blocking, NEW d \in Conns,
                         peer'[d] = "open", \A u \in Threads : ~Serves(u, d)'
                  PROVE  Len(echoed'[d]) = taken'[d]
      BY DEF AllSentInv, Blocking
    <3>1. CASE d = c
      BY <1>6, <1>8, <3>1 DEF Serves
    <3>2. CASE d # c
      <4>1. \A u \in Threads : ~Serves(u, d)
        BY <1>1, <1>5, <3>2 DEF Serves
      <4>. QED
        BY <1>1, <2>1, <3>2, <4>1 DEF EInv, AllSentInv
    <3>. QED
      BY <3>1, <3>2
  <2>. QED
    BY <1>2, <1>7, <2>2, <2>3, <2>4 DEF EInv
<1>9. CASE UNCHANGED echoed /\ peer'[c] # "open"
  <2>1. InOrder(c, echoed'[c], taken'[c]) /\ (stage \in Blocking => Exact(echoed'[c]))
    BY <1>1, <1>9 DEF EInv, EchoInv
  <2>. QED
    BY <1>1, <1>8, <1>9, <2>1 DEF Replies
<1>10. CASE peer[c] = "open"
  <2>1. PICK n \in 0 .. Len(buf[t]) :
          /\ Transmits(t, Holder(t), n)
          /\ \/ ~Sending(t)' /\ (stage \in Blocking => n = Len(buf[t]))
             \/ Sending(t)' /\ n = 1 /\ buf[t] # <<>> /\ buf'[t] = Tail(buf[t])
    BY <1>1, <1>10 DEF Writing, SendBroken
  <2>2. echoed' = [echoed EXCEPT ![c] = @ \o SubSeq(buf[t], 1, n)] /\ UNCHANGED peer
    BY <1>10, <2>1 DEF Transmits
  <2>3. Pending(t, c)
    BY <1>1, <1>10 DEF EInv, PendingInv
  <2>4. /\ InOrder(c, echoed'[c], taken'[c]) /\ (stage \in Blocking => Exact(echoed'[c]))
        /\ stage \in Blocking /\ n = Len(buf[t]) => Len(echoed'[c]) = taken'[c]
        /\ n = 1 /\ buf[t] # <<>> /\ buf'[t] = Tail(buf[t]) => Pending(t, c)'
        /\ SubSeq(buf[t], 1, n) \in Seq(Unit)
    BY <1>1, <1>2, <2>2, <2>3, SentKept
  <2>5. \A d \in Conns : d # c => echoed'[d] = echoed[d]
    BY <1>2, <2>2 DEF StreamTypes
  <2>6. Replies
    BY <1>1, <2>2, <2>4 DEF Replies
  <2>. QED
    BY <1>1, <1>8, <2>1, <2>4, <2>5, <2>6
<1>11. CASE peer[c] # "open"
  <2>1. UNCHANGED echoed
    BY <1>11 DEF Writing, Transmits
  <2>. QED
    BY <1>1, <1>9, <1>11, <2>1
<1>. QED
  BY <1>10, <1>11

\* So a turn of a server keeps it, and sends to one client at most.
LEMMA TurnKept ==
  ASSUME Inv, Inv', EInv, UNCHANGED stage, alive, Turn, Effect, Queued,
         \A c \in Conns : peer'[c] = "open" => peer[c] = "open"
  PROVE  EInv' /\ UNCHANGED sent /\ Replies
<1>1. CASE stage = "01_skeleton" /\ UNCHANGED sent /\ (UNCHANGED echoed \/ Greets)
  BY <1>1, SkeletonKept DEF Replies
<1>2. CASE ~alive' /\ UNCHANGED <<sent, taken, echoed>>
  BY <1>2, EndKept DEF Replies
<1>3. CASE (\A u \in Threads : Stays(u)) /\ UNCHANGED streams
  BY <1>3, IdleKept DEF Replies, streams
<1>4. ASSUME NEW t \in Threads, Reading(t) PROVE EInv' /\ UNCHANGED sent /\ Replies
  BY <1>4, ReadingKept DEF Replies
<1>5. ASSUME NEW t \in Threads, Writing(t) PROVE EInv' /\ UNCHANGED sent /\ Replies
  <2>1. alive'
    BY <1>5 DEF Writing
  <2>. QED
    BY <1>5, <2>1, WritingKept
<1>. QED
  BY <1>1, <1>2, <1>3, <1>4, <1>5 DEF Turn

-----------------------------------------------------------------------------
(* Each handler takes such a turn. *)

\* A thread that has nothing to send.
Quiet(t) == pc[t] # "send" /\ (pc[t] = "log" => buf[t] = <<>>)

\* The other threads are where they were.
Alone(t) ==
  /\ UNCHANGED stage
  /\ \A u \in Threads : u # t => pc'[u] = pc[u] /\ buf'[u] = buf[u] /\ cur'[u] = cur[u]

\* A thread that does not move stays as it is.
LEMMA AloneStays == ASSUME NEW t \in Threads, Alone(t) PROVE OthersStay(t)
<1>. SUFFICES ASSUME NEW u \in Threads, u # t PROVE Stays(u)
  BY DEF OthersStay
<1>1. stage' = stage /\ pc'[u] = pc[u] /\ buf'[u] = buf[u] /\ cur'[u] = cur[u]
  BY DEF Alone
<1>2. Sending(u)' <=> Sending(u)
  BY <1>1 DEF Sending, Sender
<1>3. Holder(u)' = Holder(u)
  BY <1>1 DEF Holder, Own, Entry08, Entry07, Client
<1>. QED
  BY <1>1, <1>2, <1>3 DEF Stays

\* One that has nothing to send, and gets nothing, does not either.
LEMMA IdleTurn ==
  ASSUME NEW t \in Threads, Alone(t), ~Sending(t), ~Sending(t)', buf'[t] = buf[t], UNCHANGED streams
  PROVE  Turn
<1>1. Stays(t)
  BY DEF Stays
<1>2. OthersStay(t)
  BY AloneStays
<1>. QED
  BY <1>1, <1>2 DEF OthersStay, Turn

\* One that goes elsewhere,
LEMMA GoesTurn ==
  ASSUME Inv, NEW t \in Threads, ~Sending(t), NEW l, Goto(t, l), l # "send",
         l = "log" => buf[t] = <<>>, \A u \in Threads : u # t => cur'[u] = cur[u],
         UNCHANGED <<stage, buf, streams>>
  PROVE  Turn
<1>1. pc'[t] = l /\ \A u \in Threads : u # t => pc'[u] = pc[u]
  BY DEF Goto, Inv, OInv
<1>2. Alone(t) /\ ~Sending(t)'
  BY <1>1 DEF Alone, Sending
<1>. QED
  BY <1>2, IdleTurn

\* that remains where it is,
LEMMA RestsTurn ==
  ASSUME NEW t \in Threads, Quiet(t), \A u \in Threads : u # t => cur'[u] = cur[u],
         UNCHANGED <<stage, pc, buf, streams>>
  PROVE  Turn
<1>1. Alone(t) /\ ~Sending(t) /\ ~Sending(t)'
  BY DEF Alone, Sending, Quiet
<1>. QED
  BY <1>1, IdleTurn

\* or that ends the process.
LEMMA EndTurn == ASSUME Exit, UNCHANGED <<sent, taken, echoed>> PROVE Turn
  BY DEF Exit, Turn

\* Recv with data.
LEMMA ReadTurn ==
  ASSUME Inv, NEW t \in Threads, Sender(t), Quiet(t), NEW o \in Objects, o = Holder(t), Received(t, o),
         stage = "08_MultiReactor" => cur[t] \in Fds,
         NEW l, Goto(t, l), l = "send" \/ (stage = "04_MultiThread" /\ l = "log"),
         UNCHANGED <<stage, alive, sock, fdtab, peer, sent, echoed, got, cur>>
  PROVE  Turn
<1>1. pc'[t] = l /\ \A u \in Threads : u # t => pc'[u] = pc[u]
  BY DEF Goto, Inv, OInv
<1>2. buf'[t] # <<>> /\ \A u \in Threads : u # t => buf'[u] = buf[u]
  BY ReceivedFacts
<1>3. Alone(t) /\ ~Sending(t)
  BY <1>1, <1>2 DEF Alone, Quiet, Sending
<1>4. Sending(t)'
  BY <1>1, <1>2 DEF Sending, Sender
<1>5. Holder(t)' = Holder(t)
  BY DEF Holder, Own, Entry08, Entry07, Client
<1>. QED
  BY <1>3, <1>4, <1>5, AloneStays DEF Reading, Turn

\* A blocking send.
LEMMA SendTurn ==
  ASSUME Inv, NEW t \in Threads, Sender(t), pc[t] = "send", stage \in Blocking,
         SendBlocking(t, Holder(t), "recv"), UNCHANGED <<stage, sent, taken, cur>>
  PROVE  Turn
<1>. PICK o : o = Holder(t)
  OBVIOUS
<1>1. Sending(t) /\ buf[t] # <<>> /\ buf[t] \in Seq(Conns \X Nat)
  BY DEF Sending, Inv, DInv, StreamTypes, CInv, SendInv
<1>2. Goto(t, "recv") => pc'[t] = "recv" /\ \A u \in Threads : u # t => pc'[u] = pc[u]
  BY DEF Goto, Inv, OInv
<1>3. Goto(t, "recv") => ~Sending(t)'
  BY <1>2 DEF Sending
<1>4. CASE /\ ~SendBroken(o) /\ Transmits(t, o, 1)
           /\ buf' = [buf EXCEPT ![t] = Tail(@)]
           /\ IF Len(buf[t]) = 1 THEN Goto(t, "recv") ELSE UNCHANGED pc
           /\ UNCHANGED <<sock, fdtab, alive>>
  <2>1. buf'[t] = Tail(buf[t]) /\ \A u \in Threads : u # t => buf'[u] = buf[u]
    BY <1>4 DEF Inv, DInv, StreamTypes
  <2>2. Alone(t)
    BY <1>2, <1>4, <2>1 DEF Alone
  <2>3. 1 \in 0 .. Len(buf[t])
    BY <1>1, TailFacts
  <2>4. UNCHANGED pc => Sending(t)' /\ Holder(t)' = Holder(t)
    BY <1>1 DEF Sending, Sender, Holder, Own, Entry08, Entry07, Client
  <2>5. \/ ~Sending(t)' /\ (stage \in Blocking => 1 = Len(buf[t]))
        \/ /\ Sending(t)' /\ Holder(t)' = Holder(t) /\ 1 = 1
           /\ buf[t] # <<>> /\ buf'[t] = Tail(buf[t])
    BY <1>1, <1>3, <1>4, <2>1, <2>4
  <2>6. Writing(t)
    BY <1>1, <1>4, <2>2, <2>3, <2>5, AloneStays DEF Writing
  <2>. QED
    BY <2>6 DEF Turn
<1>5. CASE /\ SendBroken(o) /\ buf' = [buf EXCEPT ![t] = <<>>] /\ Goto(t, "recv")
           /\ UNCHANGED <<sock, fdtab, alive, peer, echoed>>
  <2>1. Alone(t)
    BY <1>2, <1>5 DEF Alone, Inv, DInv, StreamTypes
  <2>. QED
    BY <1>1, <1>3, <1>5, <2>1, AloneStays DEF Writing, Turn
<1>6. CASE Killed /\ UNCHANGED <<pc, buf, peer, echoed>>
  BY <1>6, EndTurn DEF Killed
<1>. QED
  BY <1>4, <1>5, <1>6 DEF SendBlocking

\* One that does not block.
LEMMA SendOnceTurn ==
  ASSUME Inv, NEW t \in Threads, Sender(t), pc[t] = "send", stage \notin Blocking,
         NEW p \in {"recv", "poll"}, SendNonBlocking(t, Holder(t), p), UNCHANGED <<stage, sent, taken, cur>>
  PROVE  Turn
<1>. PICK o : o = Holder(t)
  OBVIOUS
<1>1. Sending(t) /\ StreamTypes /\ BoundsInv
  BY DEF Sending, Inv, DInv
<1>2. CASE /\ IF SendBroken(o)
              THEN UNCHANGED <<peer, echoed>>
              ELSE Transmits(t, o, IF Len(buf[t]) < Room(o) THEN Len(buf[t]) ELSE Room(o))
           /\ buf' = [buf EXCEPT ![t] = <<>>] /\ Goto(t, p) /\ UNCHANGED <<sock, fdtab, alive>>
  <2>1. pc'[t] = p /\ \A u \in Threads : u # t => pc'[u] = pc[u] /\ buf'[u] = buf[u]
    BY <1>2 DEF Goto, Inv, OInv, DInv, StreamTypes
  <2>2. Alone(t) /\ ~Sending(t)'
    BY <2>1 DEF Alone, Sending
  <2>3. SendBroken(o) \/ \E n \in 0 .. Len(buf[t]) : Transmits(t, o, n)
    <3>. SUFFICES ASSUME ~SendBroken(o) PROVE \E n \in 0 .. Len(buf[t]) : Transmits(t, o, n)
      OBVIOUS
    <3>1. Room(o) \in Nat /\ Len(buf[t]) \in Nat
      <4>1. FileOf(o) \in Conns
        BY DEF SendBroken
      <4>2. Room(o) \in Nat
        BY <1>1, <4>1, RoomNat
      <4>. QED
        BY <1>1, <4>2 DEF StreamTypes
    <3>2. Transmits(t, o, IF Len(buf[t]) < Room(o) THEN Len(buf[t]) ELSE Room(o))
      BY <1>2
    <3>3. (IF Len(buf[t]) < Room(o) THEN Len(buf[t]) ELSE Room(o)) \in 0 .. Len(buf[t])
      BY <3>1, Smaller
    <3>4. PICK k : k = IF Len(buf[t]) < Room(o) THEN Len(buf[t]) ELSE Room(o)
      OBVIOUS
    <3>5. k \in 0 .. Len(buf[t]) /\ Transmits(t, o, k)
      BY ONLY <3>2, <3>3, <3>4
    <3>. QED
      BY ONLY <3>5
  <2>. QED
    BY <1>1, <1>2, <2>2, <2>3, AloneStays DEF Writing, Turn
<1>3. CASE Killed /\ UNCHANGED <<pc, buf, peer, echoed>>
  BY <1>3, EndTurn DEF Killed
<1>. QED
  BY <1>2, <1>3 DEF SendNonBlocking

\* Setting up.
LEMMA SetUpTurn ==
  ASSUME Inv, Still, pc[Main] = "setup",
         ListensAnyway \/ ListensOrReturns
  PROVE  Turn
<1>1. Main \in Threads /\ ~Sending(Main) /\ UNCHANGED <<buf, streams, stage, cur>>
  BY ThreadFacts DEF Sending, Still, evars, ListensAnyway, ListensOrReturns
<1>2. Goto(Main, "accept") => Turn
  BY <1>1, GoesTurn
<1>3. Exit => Turn
  BY <1>1, EndTurn DEF streams
<1>. QED
  BY <1>2, <1>3 DEF ListensAnyway, ListensOrReturns

\* Stage 01 sends nothing but its greeting.
LEMMA Turn01 ==
  ASSUME Inv, Still, stage = "01_skeleton", MainThread \/ AcceptError PROVE Turn
<1>1. SetUpSkeleton \/ AcceptForGreeting \/ ReadGreeting \/ CloseSkeleton \/ AcceptError
        => UNCHANGED <<sent, echoed>>
  BY DEF SetUpSkeleton, ListensAnyway, AcceptForGreeting, AcceptsOne, ReadGreeting, ReadsOne,
         CloseSkeleton, ClosesAll, AcceptError, streams
<1>2. ASSUME Greet PROVE UNCHANGED sent /\ (UNCHANGED echoed \/ Greets)
  <2>1. alive /\ pc[Main] = "greet" /\ UNCHANGED <<buf, backlog, accepted, peer, sent, taken, got>>
    BY <1>2 DEF Greet, At
  <2>2. FileOf(Client) \in Conns /\ echoed[FileOf(Client)] = <<>>
    BY <2>1 DEF Inv, CInv, GreetInv
  <2>. QED
    BY <1>2, <2>1, <2>2 DEF Greet, Greets
<1>. QED
  BY <1>1, <1>2, Steps01 DEF Turn

\* The loop of 02 and 03.
LEMMA LoopTurn ==
  ASSUME Inv, Still, stage \in {"02_EchoLoop", "03_SocketClass"}, (alive /\ LoopStep) \/ AcceptError
  PROVE  Turn
<1>0. /\ Main \in Threads /\ Main \notin Conns /\ Main \notin Workers /\ stage \in Blocking
      /\ Sender(Main) /\ Holder(Main) = Client /\ Client \in Objects /\ UNCHANGED <<stage, cur>>
  BY ThreadFacts, PlaceFacts DEF Blocking, Sender, Holder, Still, evars
<1>1. pc[Main] # "send" => Quiet(Main) /\ ~Sending(Main)
  <2>1. pc[Main] # "send" => ~Sending(Main)
    BY <1>0 DEF Sending
  <2>2. LoopStep \/ AcceptError => pc[Main] # "log"
    BY DEF LoopStep, AcceptError, At
  <2>. QED
    BY <2>1, <2>2 DEF Quiet
<1>2. CASE pc[Main] = "setup" /\ ListensAnyway
  BY <1>2, SetUpTurn
<1>3. CASE pc[Main] = "accept" /\ AcceptsOne("recv")
  BY <1>0, <1>1, <1>3, GoesTurn DEF AcceptsOne
<1>4. CASE alive /\ pc[Main] = "recv" /\ ReadsOne("send", "close")
  <2>1. CASE Received(Main, Client) /\ Goto(Main, "send")
    BY <1>0, <1>1, <1>4, <2>1, ReadTurn DEF ReadsOne
  <2>2. CASE Goto(Main, "close") /\ UNCHANGED <<buf, taken>>
    BY <1>0, <1>1, <1>4, <2>2, GoesTurn DEF ReadsOne, streams
  <2>. QED
    BY <1>4, <2>1, <2>2 DEF ReadsOne
<1>5. CASE pc[Main] = "send" /\ WritesOne
  BY <1>0, <1>5, SendTurn DEF WritesOne
<1>6. CASE pc[Main] = "close" /\ ClosesAll
  BY <1>6, EndTurn DEF ClosesAll, streams
<1>7. CASE AcceptError
  <2>1. PICK l \in {"close", "spin"} : Goto(Main, l)
    BY <1>7 DEF AcceptError, At
  <2>2. pc[Main] = "accept" /\ UNCHANGED <<buf, streams>>
    BY <1>7 DEF AcceptError, At
  <2>. QED
    BY <1>0, <1>1, <2>1, <2>2, GoesTurn
<1>. QED
  BY <1>2, <1>3, <1>4, <1>5, <1>6, <1>7 DEF LoopStep

\* A connection that has not been accepted has no thread.
LEMMA NoThread ==
  ASSUME Inv, SendersInv, alive, stage \in {"04_MultiThread", "05_Latency"}, NEW c \in Conns,
         c \notin accepted
  PROVE  ~Sending(c)
<1>1. c \in Threads /\ Holder(c) = Own(c)
  BY ThreadFacts DEF Holder
<1>2. FileOf(Own(c)) \notin Conns
  BY ThreadFacts DEF FileOf, IsValid, Inv, OInv, PlacesInv, ThreadPlaces
<1>. QED
  BY <1>1, <1>2 DEF SendersInv

\* The threads of 04 and 05: the one that accepts,
LEMMA AcceptorTurn ==
  ASSUME Inv, SendersInv, Still, stage \in {"04_MultiThread", "05_Latency"}, MainThread
  PROVE  Turn
<1>1. CASE pc[Main] = "setup" /\ ListensOrReturns
  BY <1>1, SetUpTurn
<1>2. ASSUME alive, NEW c \in Conns, Hands(c) PROVE Turn
  <2>1. c \in Threads /\ UNCHANGED <<stage, cur, buf, streams>> /\ Port \in Listeners
    BY <1>2, ThreadFacts DEF Hands, Still, evars
  <2>2. c \notin accepted
    BY <1>2, <2>1 DEF Hands, Takes, Inv, OInv, QueuesInv
  <2>3. ~Sending(c)
    BY <1>2, <2>2, NoThread
  <2>4. Goto(c, "recv") => Turn
    BY <2>1, <2>3, GoesTurn
  <2>5. Exit => Turn
    BY <2>1, EndTurn DEF streams
  <2>. QED
    BY <1>2, <2>4, <2>5 DEF Hands
<1>. QED
  BY <1>1, <1>2, Steps04, Steps05

\* and one of a client.
LEMMA ThreadTurn ==
  ASSUME Inv, Still, NEW c \in Conns, ConnThread(c) PROVE Turn
<1>0. /\ c \in Threads /\ Own(c) \in Objects /\ stage \in {"04_MultiThread", "05_Latency"}
      /\ stage \in Blocking /\ Sender(c) /\ Holder(c) = Own(c) /\ UNCHANGED <<stage, cur>>
  BY ThreadFacts, PlaceFacts, Steps0405 DEF Blocking, Sender, Holder, Still, evars
<1>1. pc[c] = "recv" => Quiet(c) /\ ~Sending(c)
  BY DEF Quiet, Sending
<1>2. ASSUME pc[c] = "recv", NEW p, NEW e, ThreadReads(c, p, e), e \notin {"send", "log"},
             p = "send" \/ (stage = "04_MultiThread" /\ p = "log")
      PROVE  Turn
  <2>1. CASE Received(c, Own(c)) /\ Goto(c, p) /\ UNCHANGED <<sock, fdtab>>
    BY <1>0, <1>1, <1>2, <2>1, ReadTurn DEF ThreadReads
  <2>2. CASE UNCHANGED <<buf, taken>> /\ Goto(c, e)
    BY <1>0, <1>1, <1>2, <2>2, GoesTurn DEF ThreadReads, streams
  <2>. QED
    BY <1>2, <2>1, <2>2 DEF ThreadReads
<1>3. CASE stage = "04_MultiThread" /\ pc[c] = "recv" /\ ThreadReads(c, "log", "log")
  <2>1. CASE Received(c, Own(c)) /\ Goto(c, "log") /\ UNCHANGED <<sock, fdtab>>
    BY <1>0, <1>1, <1>3, <2>1, ReadTurn DEF ThreadReads
  <2>2. CASE UNCHANGED <<buf, taken>> /\ Goto(c, "log")
    <3>1. buf[c] = <<>>
      BY <1>3 DEF Inv, CInv, LogInv
    <3>. QED
      BY <1>0, <1>1, <1>3, <2>2, <3>1, GoesTurn DEF ThreadReads, streams
  <2>. QED
    BY <1>3, <2>1, <2>2 DEF ThreadReads
<1>4. CASE stage = "04_MultiThread" /\ ThreadServerLogs(c)
  <2>1. pc[c] = "log" /\ UNCHANGED <<stage, buf, streams, cur>>
    BY <1>0, <1>4 DEF ThreadServerLogs, ThreadAt
  <2>2. CASE buf[c] # <<>> /\ Goto(c, "send")
    <3>1. pc'[c] = "send" /\ \A u \in Threads : u # c => pc'[u] = pc[u]
      BY <1>0, <2>2 DEF Goto, Inv, OInv
    <3>2. OthersStay(c)
      BY <1>0, <2>1, <3>1, AloneStays DEF Alone
    <3>3. Sending(c) /\ Sending(c)' /\ Holder(c)' = Holder(c)
      BY <1>0, <1>4, <2>1, <2>2, <3>1 DEF Sending, Sender, Holder, Own
    <3>. QED
      BY <2>1, <3>2, <3>3 DEF Stays, OthersStay, Turn
  <2>3. CASE buf[c] = <<>> /\ Goto(c, "exited")
    BY <1>0, <2>1, <2>3, GoesTurn DEF Sending
  <2>. QED
    BY <1>4, <2>2, <2>3 DEF ThreadServerLogs
<1>5. CASE pc[c] = "send" /\ ThreadWrites(c)
  BY <1>0, <1>5, SendTurn DEF ThreadWrites
<1>. QED
  BY <1>2, <1>3, <1>4, <1>5, Steps0405

\* Stage 06.
LEMMA PollTurn ==
  ASSUME Inv, Still, stage = "06_NonBlock", MainThread \/ AcceptError PROVE Turn
<1>0. /\ Main \in Threads /\ Main \notin Conns /\ Main \notin Workers /\ stage \notin Blocking
      /\ Sender(Main) /\ Holder(Main) = Client /\ Client \in Objects /\ UNCHANGED <<stage, cur>>
  BY ThreadFacts, PlaceFacts DEF Blocking, Sender, Holder, Still, evars
<1>1. pc[Main] \in {"accept", "poll"} => Quiet(Main) /\ ~Sending(Main)
  BY <1>0 DEF Quiet, Sending
<1>2. CASE SetUpNonBlock
  BY <1>2, SetUpTurn DEF SetUpNonBlock, At
<1>3. CASE EnterLoop
  BY <1>0, <1>1, <1>3, GoesTurn DEF EnterLoop, At
<1>4. CASE PollAccept
  BY <1>0, <1>1, <1>4, RestsTurn DEF PollAccept, At
<1>5. CASE PollRecv
  <2>1. CASE Received(Main, Client) /\ Goto(Main, "send") /\ UNCHANGED <<sock, fdtab>>
    BY <1>0, <1>1, <1>5, <2>1, ReadTurn DEF PollRecv, At
  <2>2. CASE UNCHANGED <<pc, buf, taken>>
    BY <1>0, <1>1, <1>5, <2>2, RestsTurn DEF PollRecv, At, streams
  <2>. QED
    BY <1>5, <2>1, <2>2 DEF PollRecv
<1>6. CASE PollSend
  BY <1>0, <1>6, SendOnceTurn DEF PollSend, At
<1>7. CASE AcceptError
  BY <1>0, <1>7, EndTurn DEF AcceptError, At, streams
<1>. QED
  BY <1>2, <1>3, <1>4, <1>5, <1>6, <1>7, Steps06

\* Stage 07,
LEMMA EpollTurn == ASSUME Inv, UNCHANGED stage, EpollServer PROVE Turn
<1>0. /\ Main \in Threads /\ Main \notin Conns /\ Main \notin Workers /\ stage = "07_epoll"
      /\ stage \notin Blocking /\ Sender(Main) /\ Holder(Main) = Entry07(cur[Main])
  BY ThreadFacts
  DEF Blocking, Sender, Holder, EpollServer, At, SetUpEpollServer, CreateEpoll, Wait07, Accept07,
      Find07, Recv07, Send07
<1>1. pc[Main] \in {"accept", "dispatch", "recv"} => Quiet(Main) /\ ~Sending(Main)
  BY <1>0 DEF Quiet, Sending
<1>3. CASE SetUpEpollServer
  BY <1>0, <1>3, SetUpTurn DEF SetUpEpollServer, At, Still
<1>4. CASE CreateEpoll
  <2>1. pc[Main] = "accept" /\ UNCHANGED <<stage, buf, streams, cur>>
    BY <1>0, <1>4 DEF CreateEpoll, At
  <2>2. Goto(Main, "dispatch") => Turn
    BY <1>0, <1>1, <2>1, GoesTurn
  <2>3. Exit => Turn
    BY <2>1, EndTurn DEF streams
  <2>. QED
    BY <1>4, <2>2, <2>3 DEF CreateEpoll, Return07
<1>5. CASE Wait07
  BY <1>0, <1>1, <1>5, RestsTurn DEF Wait07, At
<1>6. CASE Accept07
  <2>1. pc[Main] = "dispatch" /\ UNCHANGED <<stage, buf, streams, cur>>
    BY <1>0, <1>6 DEF Accept07, At
  <2>2. UNCHANGED pc => Turn
    BY <1>0, <1>1, <2>1, RestsTurn
  <2>3. Exit => Turn
    BY <2>1, EndTurn DEF streams
  <2>. QED
    BY <1>6, <2>2, <2>3 DEF Accept07, Return07
<1>7. CASE Find07
  <2>1. pc[Main] = "dispatch" /\ UNCHANGED <<stage, buf, streams>>
    BY <1>0, <1>7 DEF Find07, At
  <2>2. PICK f : \/ Goto(Main, "recv") /\ cur' = [cur EXCEPT ![Main] = f]
                 \/ UNCHANGED <<pc, cur>>
    BY <1>7 DEF Find07
  <2>3. \A u \in Threads : u # Main => cur'[u] = cur[u]
    BY <2>2 DEF Inv, DInv, EventTypes
  <2>. QED
    BY <1>0, <1>1, <2>1, <2>2, <2>3, GoesTurn, RestsTurn
<1>8. CASE Recv07
  <2>. PICK o : o = Entry07(cur[Main])
    OBVIOUS
  <2>1. /\ pc[Main] = "recv" /\ UNCHANGED <<alive, peer, sent, echoed, got>>
        /\ o \in Objects
    BY <1>0, <1>8, PlaceFacts, ThreadFacts DEF Recv07, At, Inv, CInv, CurInv
  <2>2. CASE Received(Main, o) /\ Goto(Main, "send") /\ UNCHANGED <<sock, fdtab, armed, cur>>
    BY <1>0, <1>1, <2>1, <2>2, ReadTurn
  <2>3. CASE /\ Goto(Main, "dispatch") /\ cur' = [cur EXCEPT ![Main] = NoFd] /\ UNCHANGED <<buf, taken>>
    <3>1. \A u \in Threads : u # Main => cur'[u] = cur[u]
      BY <2>3 DEF Inv, DInv, EventTypes
    <3>. QED
      BY <1>0, <1>1, <2>1, <2>3, <3>1, GoesTurn DEF streams
  <2>. QED
    BY <1>8, <2>2, <2>3 DEF Recv07
<1>9. CASE Send07
  BY <1>0, <1>9, SendOnceTurn DEF Send07, At, AfterSend, evars
<1>. QED
  BY <1>3, <1>4, <1>5, <1>6, <1>7, <1>8, <1>9 DEF EpollServer

\* and a worker of stage 08.
LEMMA WorkerTurn == ASSUME Inv, UNCHANGED stage, NEW r \in Workers, Worker08(r) PROVE Turn
<1>0. /\ r \in Threads /\ r \in Reactors /\ r \notin Conns /\ stage = "08_MultiReactor"
      /\ stage \notin Blocking /\ Sender(r) /\ Holder(r) = Entry08(r, cur[r])
  BY ThreadFacts
  DEF Blocking, Sender, Holder, Worker08, WorkerAt, SetUpWorker, CreateWorkerEpoll, Wait08, Accept08,
      Find08, Recv08, Send08
<1>1. pc[r] \in {"setup", "epoll", "dispatch", "recv"} => Quiet(r) /\ ~Sending(r)
  BY <1>0 DEF Quiet, Sending
<1>2. ASSUME NEW l \in {"epoll", "dispatch", "returned"}, Goto(r, l), pc[r] # "send",
             UNCHANGED <<stage, buf, streams, cur>>
      PROVE  Turn
  BY <1>0, <1>2, GoesTurn DEF Sending
<1>3. CASE SetUpWorker(r) \/ CreateWorkerEpoll(r)
  <2>1. pc[r] # "send" /\ UNCHANGED <<stage, buf, streams, cur>>
    BY <1>0, <1>3 DEF SetUpWorker, CreateWorkerEpoll, WorkerAt
  <2>2. \E l \in {"epoll", "dispatch", "returned"} : Goto(r, l)
    BY <1>3 DEF SetUpWorker, CreateWorkerEpoll, ReturnWorker
  <2>. QED
    BY <1>2, <2>1, <2>2
<1>4. CASE Wait08(r)
  BY <1>0, <1>1, <1>4, RestsTurn DEF Wait08, WorkerAt
<1>5. CASE Accept08(r)
  <2>1. pc[r] = "dispatch" /\ UNCHANGED <<stage, buf, streams, cur>>
    BY <1>0, <1>5 DEF Accept08, WorkerAt
  <2>2. UNCHANGED pc => Turn
    BY <1>0, <1>1, <2>1, RestsTurn
  <2>. QED
    BY <1>2, <1>5, <2>1, <2>2 DEF Accept08, ReturnWorker
<1>6. CASE Find08(r)
  <2>1. pc[r] = "dispatch" /\ UNCHANGED <<stage, buf, streams>>
    BY <1>0, <1>6 DEF Find08, WorkerAt
  <2>2. PICK f : \/ Goto(r, "recv") /\ cur' = [cur EXCEPT ![r] = f]
                 \/ Goto(r, "returned") /\ UNCHANGED cur
    BY <1>6 DEF Find08, ReturnWorker
  <2>3. \A u \in Threads : u # r => cur'[u] = cur[u]
    BY <2>2 DEF Inv, DInv, EventTypes
  <2>. QED
    BY <1>0, <1>1, <2>1, <2>2, <2>3, GoesTurn
<1>7. CASE Recv08(r)
  <2>. PICK o : o = Entry08(r, cur[r])
    OBVIOUS
  <2>1. /\ pc[r] = "recv" /\ UNCHANGED <<alive, peer, sent, echoed, got>>
        /\ cur[r] \in Fds /\ o \in Objects
    BY <1>0, <1>7, PlaceFacts DEF Recv08, WorkerAt, Inv, CInv, CurInv
  <2>2. CASE Received(r, o) /\ Goto(r, "send") /\ UNCHANGED <<sock, fdtab, armed, cur>>
    BY <1>0, <1>1, <2>1, <2>2, ReadTurn
  <2>3. CASE Goto(r, "dispatch") /\ cur' = [cur EXCEPT ![r] = NoFd] /\ UNCHANGED <<buf, taken>>
    <3>1. \A u \in Threads : u # r => cur'[u] = cur[u]
      BY <2>3 DEF Inv, DInv, EventTypes
    <3>. QED
      BY <1>0, <1>1, <2>1, <2>3, <3>1, GoesTurn DEF streams
  <2>. QED
    BY <1>7, <2>2, <2>3 DEF Recv08
<1>8. CASE Send08(r)
  BY <1>0, <1>8, SendOnceTurn DEF Send08, WorkerAt, evars
<1>. QED
  BY <1>3, <1>4, <1>5, <1>6, <1>7, <1>8 DEF Worker08

\* Every step of a server is such a turn.
LEMMA ServerTurn ==
  ASSUME Inv, SendersInv, UNCHANGED stage,
         \/ \E t \in Threads : ServerThread(t)
         \/ AcceptError /\ UNCHANGED <<evars, seen>>
  PROVE  Turn
<1>0. stage \in AllStages
  BY DEF Inv, OInv
<1>1. CASE (MainThread \/ AcceptError) /\ UNCHANGED <<evars, seen>>
  <2>1. Still
    BY <1>1 DEF Still
  <2>2. CASE stage = "01_skeleton"
    BY <1>1, <2>1, <2>2, Turn01
  <2>3. CASE stage \in {"02_EchoLoop", "03_SocketClass"}
    BY <1>1, <2>1, <2>3, LoopTurn, Steps02, Steps03
  <2>4. CASE stage \in {"04_MultiThread", "05_Latency"}
    BY <1>1, <2>1, <2>4, AcceptorTurn, NoMainThread DEF OneClient
  <2>5. CASE stage = "06_NonBlock"
    BY <1>1, <2>1, <2>5, PollTurn
  <2>. QED
    BY <1>0, <1>1, <2>2, <2>3, <2>4, <2>5, NoMainThread DEF AllStages, OneClient
<1>2. CASE EpollServer
  BY <1>2, EpollTurn
<1>3. CASE Join08
  BY <1>3, EndTurn DEF Join08, streams
<1>4. ASSUME NEW c \in Conns, ConnThread(c), UNCHANGED <<evars, seen>> PROVE Turn
  BY <1>4, ThreadTurn DEF Still
<1>5. ASSUME NEW r \in Workers, Worker08(r) PROVE Turn
  BY <1>5, WorkerTurn
<1>. QED
  BY <1>1, <1>2, <1>3, <1>4, <1>5 DEF ServerThread

-----------------------------------------------------------------------------
(* Every step keeps it. *)

\* A server that has ended takes no step.
LEMMA ServerAlive ==
  ASSUME (\E t \in Threads : ServerThread(t)) \/ AcceptError PROVE alive
<1>1. MainThread => alive
  BY DEF MainThread, At, SetUpSkeleton, SetUpEchoLoop, SetUpTestServer,
         SetUpThreadServer, SetUpLatency, SetUpNonBlock, AcceptForGreeting, Greet, ReadGreeting,
         CloseSkeleton, AcceptOne, ReadLoop, WriteBack, CloseEchoLoop,
         TestServerAccepts, TestServerRecv, TestServerSend, TestServerReturns,
         ThreadServerAccepts, LatencyServerAccepts, EnterLoop, PollAccept, PollRecv, PollSend
<1>2. EpollServer \/ Join08 => alive
  BY DEF EpollServer, At, SetUpEpollServer, CreateEpoll, Wait07, Accept07, Find07, Recv07, Send07, Join08
<1>3. \A c \in Conns : ConnThread(c) => alive
  BY Steps0405
<1>4. \A r \in Workers : Worker08(r) => alive
  BY DEF Worker08, WorkerAt, SetUpWorker, CreateWorkerEpoll, Wait08, Accept08, Find08, Recv08, Send08
<1>5. AcceptError => alive
  BY DEF AcceptError, At
<1>. QED
  BY <1>1, <1>2, <1>3, <1>4, <1>5 DEF ServerThread

\* It opens no client's end of a connection.
LEMMA PeersKept ==
  ASSUME Inv, Served, NEW c \in Conns, peer'[c] = "open" PROVE peer[c] = "open"
<1>1. CASE UNCHANGED <<buf, streams>> \/ Reads \/ Drops \/ Greets
  BY <1>1 DEF Reads, Drops, Greets, streams
<1>2. ASSUME NEW t \in Threads, NEW o \in Objects, NEW n, Transmits(t, o, n) PROVE peer[c] = "open"
  BY <1>2 DEF Transmits, Inv, DInv, StreamTypes
<1>. QED
  BY <1>1, <1>2 DEF Served, Data, Writes

\* So its steps keep what the clients get back right.
LEMMA ServerKept ==
  ASSUME Inv, EInv, UNCHANGED stage,
         \/ \E t \in Threads : ServerThread(t)
         \/ AcceptError /\ UNCHANGED <<evars, seen>>
  PROVE  Inv' /\ EInv' /\ UNCHANGED sent /\ Replies
<1>1. Served /\ CInv' /\ alive
  BY ServerServed, ServerAlive
<1>2. Turn
  BY ServerTurn DEF EInv
<1>3. Inv'
  BY <1>1, ServedKept
<1>4. \A c \in Conns : peer'[c] = "open" => peer[c] = "open"
  BY <1>1, PeersKept
<1>. QED
  BY <1>1, <1>2, <1>3, <1>4, TurnKept DEF Served

\* A client sends more, or ends the connection, but takes nothing away.
Asks ==
  /\ UNCHANGED <<process, accepted, echoed, stage, evars>>
  /\ \A c \in Conns : taken[c] <= taken'[c]
  /\ \A c \in Conns : peer'[c] = "open" => peer[c] = "open" /\ taken'[c] = taken[c]
  /\ \/ UNCHANGED sent
     \/ \E c \in Conns : sent'[c] > sent[c] /\ \A d \in Conns \ {c} : sent'[d] = sent[d]

\* None of its calls does anything else,
LEMMA MovesAsks ==
  ASSUME Inv, NEW c \in Conns, Moves(c), UNCHANGED <<stage, evars>> PROVE Asks
<1>1. StreamTypes /\ \A d \in Conns : taken[d] \in Nat /\ sent[d] \in Nat /\ taken[d] <= sent[d]
  BY DEF Inv, DInv, StreamTypes, BoundsInv
<1>2. CASE UNCHANGED kvars
  BY <1>1, <1>2 DEF Asks, kvars, streams
<1>3. CASE ClientConnects(c)
  BY <1>1, <1>3 DEF Asks, ClientConnects, streams
<1>4. CASE ClientCloses(c)
  <2>1. \A d \in Conns : peer'[d] = "open" => peer[d] = "open"
    BY <1>1, <1>4 DEF ClientCloses, StreamTypes
  <2>. QED
    BY <1>1, <1>4, <2>1 DEF Asks, ClientCloses
<1>5. CASE ClientResets(c)
  <2>1. peer' = [peer EXCEPT ![c] = "reset"] /\ UNCHANGED <<process, accepted, sent, echoed>>
    BY <1>5 DEF ClientResets
  <2>2. PICK n \in {taken[c], sent[c]} : taken' = [taken EXCEPT ![c] = n]
    BY <1>5 DEF ClientResets
  <2>3. \A d \in Conns : taken[d] <= taken'[d] /\ (d # c => taken'[d] = taken[d])
    BY <1>1, <2>2 DEF StreamTypes
  <2>4. \A d \in Conns : peer'[d] = "open" => peer[d] = "open" /\ d # c
    BY <1>1, <2>1 DEF StreamTypes
  <2>. QED
    BY <2>1, <2>3, <2>4 DEF Asks
<1>6. ASSUME NEW n \in Nat, ClientSends(c, n) PROVE Asks
  <2>1. sent' = [sent EXCEPT ![c] = @ + n]
        /\ UNCHANGED <<process, accepted, peer, taken, echoed>>
    BY <1>6 DEF ClientSends
  <2>2. sent'[c] = sent[c] + n /\ \A d \in Conns \ {c} : sent'[d] = sent[d]
    BY <1>1, <2>1 DEF StreamTypes
  <2>3. n = 0 => UNCHANGED sent
    BY <1>1, <2>1 DEF StreamTypes
  <2>4. n # 0 => sent'[c] > sent[c]
    BY <1>1, <2>2
  <2>. QED
    BY <1>1, <2>1, <2>2, <2>3, <2>4 DEF Asks
<1>7. ASSUME NEW n \in Nat, ClientReads(c, n) PROVE Asks
  BY <1>1, <1>7 DEF Asks, ClientReads
<1>. QED
  BY <1>2, <1>3, <1>4, <1>5, <1>6, <1>7 DEF Moves

\* nor do its program and its user.
LEMMA ClientAsks ==
  ASSUME Inv, ClientInv, UNCHANGED <<evars, seen, stage>>,
         (\E c \in Conns : Clients(c) \/ Others(c)) \/ Interrupt
  PROVE  Asks
<1>1. ProcessKilled => Asks
  BY DEF ProcessKilled, Asks, Inv, DInv, StreamTypes
<1>2. ASSUME NEW c \in Conns, Clients(c) \/ Others(c) PROVE Asks
  <2>1. Moves(c) \/ ProcessKilled
    BY <1>2, RunMoves, LineMoves, AnyMoves DEF Clients, Others
  <2>. QED
    BY <1>1, <2>1, MovesAsks
<1>. QED
  BY <1>1, <1>2 DEF Interrupt

\* Whatever the clients do, what they get back remains right.
LEMMA AsksKept == ASSUME Inv, Inv', EInv, Asks PROVE EInv'
<1>1. UNCHANGED <<sock, fdtab, alive, pc, buf, echoed, accepted, stage, cur>>
  BY DEF Asks, process, evars
<1>2. ConnsInv'
  BY <1>1 DEF EInv, ConnsInv
<1>3. EchoInv'
  <2>1. StreamTypes /\ StreamTypes'
    BY DEF Inv, DInv
  <2>. SUFFICES ASSUME NEW c \in Conns
                PROVE  IF stage' = "01_skeleton"
                       THEN echoed'[c] \in {<<>>, <<<<c, 0>>>>}
                       ELSE /\ InOrder(c, echoed'[c], taken'[c])
                            /\ stage' \in Blocking => Exact(echoed'[c])
    BY DEF EchoInv, InOrder, Exact, Blocking
  <2>2. taken[c] <= taken'[c]
    BY DEF Asks
  <2>. QED
    BY <1>1, <2>1, <2>2, EchoStays DEF EInv
<1>4. ASSUME NEW t \in Threads
      PROVE  /\ Stays(t) /\ FileOf(Holder(t))' = FileOf(Holder(t))
             /\ \A c \in Conns : Serves(t, c)' <=> Serves(t, c)
  <2>1. Sending(t)' <=> Sending(t)
    BY <1>1 DEF Sending, Sender
  <2>2. Holder(t)' = Holder(t)
    BY <1>1 DEF Holder, Own, Entry08, Entry07, Client
  <2>3. FileOf(Holder(t))' = FileOf(Holder(t))
    BY <1>1, <2>2 DEF FileOf, IsValid
  <2>. QED
    BY <1>1, <2>1, <2>2, <2>3 DEF Stays, Serves
<1>5. SendersInv'
  BY <1>1, <1>4 DEF EInv, SendersInv, Stays
<1>6. ASSUME NEW c \in Conns, peer'[c] = "open" PROVE peer[c] = "open" /\ taken'[c] = taken[c]
  BY <1>6 DEF Asks
<1>7. PendingInv'
  <2>. SUFFICES ASSUME alive', NEW c \in Conns, NEW t \in Threads, peer'[c] = "open", Serves(t, c)'
                PROVE  Pending(t, c)'
    BY DEF PendingInv
  <2>1. Serves(t, c) /\ Stays(t) /\ peer[c] = "open" /\ echoed'[c] = echoed[c] /\ taken'[c] = taken[c]
    BY <1>1, <1>4, <1>6
  <2>. QED
    BY <1>1, <2>1, PendingStays DEF EInv
<1>8. AllSentInv'
  <2>. SUFFICES ASSUME alive', stage' \in Blocking \ {"01_skeleton"}, NEW c \in Conns,
                       peer'[c] = "open", \A t \in Threads : ~Serves(t, c)'
                PROVE  Len(echoed'[c]) = taken'[c]
    BY DEF AllSentInv
  <2>1. peer[c] = "open" /\ taken'[c] = taken[c] /\ \A t \in Threads : ~Serves(t, c)
    BY <1>4, <1>6
  <2>2. Len(echoed[c]) = taken[c]
    BY <1>1, <2>1 DEF EInv, AllSentInv, Blocking
  <2>. QED
    BY <1>1, <2>1, <2>2
<1>. QED
  BY <1>2, <1>3, <1>5, <1>7, <1>8 DEF EInv

-----------------------------------------------------------------------------
(* The servers implement the echo service. *)

\* What is left of what was sent back, without the greeting.
LEMMA WithoutGreeting ==
  ASSUME NEW c, NEW k \in Nat, NEW e \in Seq(Unit), NEW m,
         m = IF e # <<>> /\ Head(e) = <<c, 0>> THEN Tail(e) ELSE e
  PROVE  (e \in {<<>>, <<<<c, 0>>>>} => m = <<>>) /\ (InOrder(c, e, k) => m = e)
<1>1. InOrder(c, e, k) => m = e
  BY NoGreeting
<1>2. e = <<>> => m = <<>>
  OBVIOUS
<1>3. ASSUME e = <<<<c, 0>>>> PROVE m = <<>>
  <2>1. Head(<<<<c, 0>>>>) = <<c, 0>> /\ Tail(<<<<c, 0>>>>) = <<>> /\ <<<<c, 0>>>> # <<>>
    OBVIOUS
  <2>. QED
    BY <1>3, <2>1
<1>. QED
  BY <1>1, <1>2, <1>3

\* The echoes of stage 01 are none, and of the others all that was sent back,
LEMMA EchoesMapped ==
  ASSUME StreamTypes, EchoInv, NEW c \in Conns
  PROVE  Echoes(c) = IF stage = "01_skeleton" THEN <<>> ELSE echoed[c]
<1>. PICK e, k : e = echoed[c] /\ k = taken[c]
  OBVIOUS
<1>1. k \in Nat /\ e \in Seq(Unit)
  BY DEF StreamTypes, Unit
<1>2. IF stage = "01_skeleton" THEN e \in {<<>>, <<<<c, 0>>>>} ELSE InOrder(c, e, k)
  BY DEF EchoInv
<1>3. Echoes(c) = IF e # <<>> /\ Head(e) = <<c, 0>> THEN Tail(e) ELSE e
  BY DEF Echoes
<1>4. (e \in {<<>>, <<<<c, 0>>>>} => Echoes(c) = <<>>) /\ (InOrder(c, e, k) => Echoes(c) = e)
  BY <1>1, <1>3, WithoutGreeting
<1>. QED
  BY <1>2, <1>4

\* also after a step.
LEMMA EchoesMappedNext ==
  ASSUME StreamTypes', EchoInv', NEW c \in Conns
  PROVE  Echoes(c)' = IF stage' = "01_skeleton" THEN <<>> ELSE echoed'[c]
<1>. PICK e, k : e = echoed'[c] /\ k = taken'[c]
  OBVIOUS
<1>1. k \in Nat /\ e \in Seq(Unit)
  BY DEF StreamTypes, Unit
<1>2. IF stage' = "01_skeleton" THEN e \in {<<>>, <<<<c, 0>>>>} ELSE InOrder(c, e, k)
  BY DEF EchoInv, InOrder
<1>3. Echoes(c)' = IF e # <<>> /\ Head(e) = <<c, 0>> THEN Tail(e) ELSE e
  BY DEF Echoes
<1>4. (e \in {<<>>, <<<<c, 0>>>>} => Echoes(c)' = <<>>) /\ (InOrder(c, e, k) => Echoes(c)' = e)
  BY <1>1, <1>3, WithoutGreeting
<1>. QED
  BY <1>2, <1>4

\* What the clients of the service see.
Seen == [c \in Conns |-> Echoes(c)]

\* Before and after a step.
LEMMA SeenMapped ==
  ASSUME Inv, Inv', EInv, EInv', UNCHANGED stage
  PROVE  IF stage = "01_skeleton"
         THEN UNCHANGED Seen
         ELSE Seen = echoed /\ Seen' = echoed'
<1>1. StreamTypes /\ StreamTypes' /\ EchoInv /\ EchoInv'
  BY DEF Inv, DInv, EInv
<1>2. \A c \in Conns : /\ Echoes(c) = IF stage = "01_skeleton" THEN <<>> ELSE echoed[c]
                       /\ Echoes(c)' = IF stage = "01_skeleton" THEN <<>> ELSE echoed'[c]
  BY <1>1, EchoesMapped, EchoesMappedNext
<1>3. Seen' = [c \in Conns |-> Echoes(c)']
  BY DEF Seen
<1>4. echoed = [c \in Conns |-> echoed[c]] /\ echoed' = [c \in Conns |-> echoed'[c]]
  BY <1>1 DEF StreamTypes
<1>5. CASE stage = "01_skeleton"
  BY <1>2, <1>3, <1>5 DEF Seen
<1>6. CASE stage # "01_skeleton"
  BY <1>2, <1>3, <1>4, <1>6 DEF Seen
<1>. QED
  BY <1>5, <1>6

\* A part of what is in order holds units that its client has sent.
LEMMA PartOfClient ==
  ASSUME NEW c \in Conns, NEW k \in Nat, NEW n \in Nat, k <= n, NEW e \in Seq(Unit), NEW s \in Seq(Unit),
         InOrder(c, e \o s, k)
  PROVE  s \in [1 .. Len(s) -> {c} \X (1 .. n)] /\ Len(s) <= n - Len(e)
<1>. PICK q : q = e \o s
  OBVIOUS
<1>. PICK j \in Nat, l \in Nat : j = Len(e) /\ l = Len(s)
  OBVIOUS
<1>1. /\ q \in Seq(Unit) /\ Len(q) = j + l
      /\ \A i \in j + 1 .. j + l : q[i] = s[i - j]
  BY ConcatParts
<1>2. j + l <= k
  <2>1. Len(q) <= k
    BY <1>1, OrderLength
  <2>. QED
    BY <1>1, <2>1
<1>3. ASSUME NEW i \in 1 .. l PROVE s[i] \in {c} \X (1 .. n)
  <2>1. i + j \in j + 1 .. j + l /\ i + j \in 1 .. Len(q) /\ (i + j) - j = i
    BY <1>1
  <2>2. q[i + j] = s[i]
    BY <1>1, <2>1
  <2>3. s[i][1] = c /\ s[i][2] \in i + j .. k
    BY <2>1, <2>2 DEF InOrder
  <2>4. s[i][2] \in 1 .. n
    <3>. PICK x : x = s[i][2]
      OBVIOUS
    <3>1. x \in i + j .. k
      BY <2>3
    <3>. QED
      BY ONLY <3>1, x = s[i][2], i \in 1 .. l, j \in Nat, l \in Nat, k \in Nat, n \in Nat, k <= n
  <2>5. s[i] = <<s[i][1], s[i][2]>>
    <3>1. s[i] \in Conns \X Nat
      BY DEF Unit
    <3>. QED
      BY <3>1
  <2>. QED
    BY <2>3, <2>4, <2>5
<1>4. s \in [1 .. l -> {c} \X (1 .. n)]
  <2>1. s = [i \in 1 .. l |-> s[i]]
    OBVIOUS
  <2>. QED
    BY <1>3, <2>1
<1>5. l <= n - j
  BY <1>2
<1>. QED
  BY <1>4, <1>5

\* What is in order, is faithful.
LEMMA FaithfulOrder ==
  ASSUME NEW c \in Conns, NEW k \in Nat, sent[c] \in Nat, k <= sent[c], NEW e \in Seq(Unit),
         InOrder(c, e, k), stage \in Blocking => Exact(e)
  PROVE  Service!Faithful(c, e)
<1>. PICK n \in Nat : n = sent[c]
  OBVIOUS
<1>1. DOMAIN e = 1 .. Len(e)
  OBVIOUS
<1>2. ASSUME NEW i \in 1 .. Len(e)
      PROVE  /\ e[i][1] = c /\ e[i][2] \in 1 .. n /\ (i > 1 => e[i][2] > e[i - 1][2])
             /\ stage \in Blocking => e[i][2] = i
  <2>1. e[i][1] = c /\ e[i][2] \in i .. k /\ (i > 1 => e[i][2] > e[i - 1][2])
    BY DEF InOrder
  <2>2. stage \in Blocking => e[i][2] = i
    BY DEF Exact
  <2>3. e[i][2] \in 1 .. n
    BY <2>1
  <2>. QED
    BY <2>1, <2>2, <2>3
<1>. QED
  BY <1>1, <1>2 DEF Service!Faithful

\* A reply is a step of the service, unless it is empty.
LEMMA ReplyMaps ==
  ASSUME Inv, Inv', EInv, EInv', UNCHANGED <<stage, sent>>, stage # "01_skeleton",
         NEW c \in Conns, NEW s \in Seq(Unit), echoed' = [echoed EXCEPT ![c] = @ \o s]
  PROVE  Service!Echo(c) \/ UNCHANGED echoed
<1>. PICK e, k : e = echoed[c] /\ k = taken'[c]
  OBVIOUS
<1>1. /\ e \in Seq(Unit) /\ e \o s \in Seq(Unit) /\ echoed'[c] = e \o s
      /\ k \in Nat /\ sent[c] \in Nat /\ k <= sent[c]
  <2>1. e \in Seq(Unit) /\ echoed'[c] = e \o s
    BY DEF Inv, DInv, StreamTypes, Unit
  <2>2. e \o s \in Seq(Unit)
    BY <2>1, ConcatParts
  <2>3. k \in Nat /\ sent[c] \in Nat /\ k <= sent[c]
    BY DEF Inv, DInv, StreamTypes, BoundsInv
  <2>. QED
    BY <2>1, <2>2, <2>3
<1>2. InOrder(c, e \o s, k) /\ (stage \in Blocking => Exact(e \o s))
  <2>1. InOrder(c, echoed'[c], taken'[c]) /\ (stage' \in Blocking => Exact(echoed'[c]))
    BY DEF EInv, EchoInv, InOrder, Exact, Blocking
  <2>. QED
    BY ONLY <1>1, <2>1, k = taken'[c], stage' = stage
<1>3. CASE s = <<>>
  <2>1. e \o s = e
    BY <1>1, <1>3
  <2>. QED
    BY <2>1 DEF Inv, DInv, StreamTypes
<1>4. CASE s # <<>>
  <2>1. s \in [1 .. Len(s) -> {c} \X (1 .. sent[c])] /\ Len(s) <= sent[c] - Len(e)
    BY <1>1, <1>2, PartOfClient
  <2>2. Len(s) \in 1 .. sent[c] - Len(e)
    <3>1. Len(s) \in Nat /\ Len(s) > 0 /\ Len(e) \in Nat
      BY <1>1, <1>4, EmptySeq
    <3>. QED
      BY <1>1, <2>1, <3>1
  <2>3. Service!Faithful(c, e \o s)
    BY <1>1, <1>2, FaithfulOrder
  <2>4. Seen = echoed /\ Seen' = echoed'
    BY SeenMapped
  <2>. QED
    BY <1>1, <2>1, <2>2, <2>3, <2>4 DEF Service!Echo, Seen
<1>. QED
  BY <1>3, <1>4

\* What a server does is a step of the service or none,
LEMMA RepliesMap ==
  ASSUME Inv, Inv', EInv, EInv', UNCHANGED <<stage, sent>>, Replies
  PROVE  [Service!ENext]_<<sent, Seen, stage \in Blocking>>
<1>1. UNCHANGED (stage \in Blocking)
  BY DEF Blocking
<1>2. stage = "01_skeleton" \/ UNCHANGED echoed => UNCHANGED Seen
  BY SeenMapped
<1>3. ASSUME stage # "01_skeleton", NEW c \in Conns, NEW s \in Seq(Unit),
             echoed' = [echoed EXCEPT ![c] = @ \o s]
      PROVE  Service!ENext \/ UNCHANGED Seen
  BY <1>1, <1>2, <1>3, ReplyMaps DEF Service!ENext
<1>. QED
  BY <1>1, <1>2, <1>3 DEF Replies

\* and so is what a client does.
LEMMA AsksMap ==
  ASSUME Inv, Inv', EInv, EInv', Asks PROVE [Service!ENext]_<<sent, Seen, stage \in Blocking>>
<1>1. UNCHANGED (stage \in Blocking) /\ UNCHANGED <<stage, echoed>>
  BY DEF Asks, Blocking
<1>2. UNCHANGED Seen
  BY <1>1, SeenMapped
<1>3. ASSUME NEW c \in Conns, sent'[c] > sent[c], \A d \in Conns \ {c} : sent'[d] = sent[d]
      PROVE  Service!ENext
  BY <1>1, <1>2, <1>3 DEF Service!ENext, Service!Send, Seen
<1>. QED
  BY <1>1, <1>2, <1>3 DEF Asks

\* So every step of the servers and their clients maps to one of the service,
\* and keeps what the mapping needs.
LEMMA EchoStep ==
  ASSUME Inv, ClientInv, EInv, [Next]_vars
  PROVE  EInv' /\ [Service!ENext]_<<sent, Seen, stage \in Blocking>>
<1>0. Inv'
  BY Step
<1>1. CASE UNCHANGED vars
  <2>1. StreamTypes
    BY DEF Inv, DInv
  <2>2. Asks
    BY <1>1, <2>1 DEF vars, kvars, streams, Asks, StreamTypes
  <2>. QED
    BY <1>0, <2>2, AsksKept, AsksMap
<1>2. CASE /\ UNCHANGED <<evars, seen, stage>>
           /\ (\E c \in Conns : Clients(c) \/ Others(c)) \/ Interrupt
  <2>1. Asks
    BY <1>2, ClientAsks
  <2>. QED
    BY <1>0, <2>1, AsksKept, AsksMap
<1>3. CASE /\ UNCHANGED stage
           /\ \/ \E t \in Threads : ServerThread(t)
              \/ AcceptError /\ UNCHANGED <<evars, seen>>
  <2>1. EInv' /\ UNCHANGED sent /\ Replies
    BY <1>3, ServerKept
  <2>. QED
    BY <1>0, <1>3, <2>1, RepliesMap
<1>. QED
  BY <1>1, <1>2, <1>3 DEF Next

\* A server starts as the service does.
LEMMA EchoInit ==
  ASSUME Init PROVE EInv /\ sent = [c \in Conns |-> 0] /\ Seen = [c \in Conns |-> <<>>]
<1>1. /\ fdtab = [f \in Fds |-> NoFile] /\ peer = [c \in Conns |-> "open"]
      /\ sent = [c \in Conns |-> 0] /\ taken = [c \in Conns |-> 0]
      /\ echoed = [c \in Conns |-> <<>>] /\ \A t \in Threads : pc[t] \in {"none", "setup"}
  BY DEF Init, EpollInit, KernelInit, SocketInit
<1>2. ConnsInv
  BY <1>1, ThreadFacts DEF ConnsInv
<1>3. \A t \in Threads : ~Sending(t)
  BY <1>1 DEF Sending
<1>4. SendersInv /\ PendingInv /\ AllSentInv
  <2>1. Len(<<>>) = 0
    OBVIOUS
  <2>. QED
    BY <1>1, <1>3, <2>1 DEF SendersInv, PendingInv, AllSentInv, Serves
<1>5. EchoInv
  <2>1. Len(<<>>) = 0
    OBVIOUS
  <2>. QED
    BY <1>1, <2>1 DEF EchoInv, InOrder, Exact
<1>6. Seen = [c \in Conns |-> <<>>]
  BY <1>1 DEF Seen, Echoes
<1>. QED
  BY <1>1, <1>2, <1>4, <1>5, <1>6 DEF EInv

\* To its clients each of the servers is the echo service: whatever its threads
\* and the clients do, a client gets back its own data in order, nothing twice
\* and nothing of another client, and from a server with blocking sockets all
\* of it, as long as its connection holds (ThreadServer.cpp:22-34,
\* NonBlockServer.cpp:34-43, EpollServer.cpp:71-77, SNMRserver.cpp:77-84).
THEOREM StagesEcho == Spec => EchoFaithful
<1>1. Init => EInv /\ Service!EInit
  BY EchoInit DEF Service!EInit, Seen
<1>2. Inv /\ ClientInv /\ EInv /\ [Next]_vars
        => EInv' /\ [Service!ENext]_<<sent, Seen, stage \in Blocking>>
  BY EchoStep
<1>3. Inv /\ ClientInv /\ EInv /\ [Next]_vars
        => [Service!ENext]_<<sent, [c \in Conns |-> Echoes(c)], stage \in Blocking>>
  BY <1>2 DEF Seen
<1>. QED
  BY <1>1, <1>2, <1>3, StagesInvariant, PTL DEF Spec, EchoFaithful, Service!ESpec
=============================================================================
