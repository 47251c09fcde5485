-------------------------- MODULE TcpSocket_proofs --------------------------
(* Any use of TcpSocket keeps descriptors owned by exactly one object.     *)
EXTENDS TcpSocket, TLAPS

\* SingleOwner and the types, of any pair of tables.
Owned(s, d) ==
  /\ s \in [Objects -> Fds \cup {NoFd}]
  /\ d \in [Fds -> Files \cup {NoFile}]
  /\ \A o \in Objects : s[o] # NoFd => d[s[o]] # NoFile
  /\ \A o, p \in Objects : o # p /\ s[o] # NoFd => s[o] # s[p]
  /\ \A f \in Fds : d[f] # NoFile => \E o \in Objects : s[o] = f

\* The invariant says of the state what Owned says of its tables.
LEMMA OwnedIsInv == Owned(sock, fdtab) <=> SocketTypeOK /\ SingleOwner
  BY DEF Owned, SocketTypeOK, SingleOwner, IsValid

\* A new descriptor in an object that held none.
LEMMA OpenedOwned ==
  ASSUME NEW s, NEW d, NEW o \in Objects, NEW f \in Fds, NEW x \in Files,
         Owned(s, d), s[o] = NoFd, d[f] = NoFile
  PROVE  Owned([s EXCEPT ![o] = f], [d EXCEPT ![f] = x])
  BY SocketAssumption DEF Owned, NoFd

\* The destructor, with or without a descriptor.
LEMMA DestroyedOwned ==
  ASSUME NEW s, NEW d, NEW o \in Objects, Owned(s, d)
  PROVE  Owned([s EXCEPT ![o] = NoFd],
               IF s[o] = NoFd THEN d ELSE [d EXCEPT ![s[o]] = NoFile])
<1>1. CASE s[o] = NoFd
  BY <1>1 DEF Owned, NoFd
<1>2. CASE s[o] # NoFd
  <2>1. s[o] \in Fds
    BY <1>2 DEF Owned
  <2>. QED
    BY <1>2, <2>1, SocketAssumption DEF Owned, NoFd
<1>. QED
  BY <1>1, <1>2

\* A move into an object that holds nothing.
LEMMA MovedOwned ==
  ASSUME NEW s, NEW d, NEW to \in Objects, NEW from \in Objects, to # from,
         Owned(s, d), s[to] = NoFd
  PROVE  Owned([s EXCEPT ![to] = s[from], ![from] = NoFd], d)
<1>. DEFINE n == [s EXCEPT ![to] = s[from], ![from] = NoFd]
<1>1. n \in [Objects -> Fds \cup {NoFd}]
  BY DEF Owned
<1>2. /\ n[to] = s[from] /\ n[from] = NoFd
      /\ \A o \in Objects \ {to, from} : n[o] = s[o]
  BY DEF Owned
<1>. HIDE DEF n
<1>3. \A o \in Objects : n[o] # NoFd => d[n[o]] # NoFile
  BY <1>2 DEF Owned
<1>4. \A o, p \in Objects : o # p /\ n[o] # NoFd => n[o] # n[p]
  BY <1>2 DEF Owned
<1>5. \A f \in Fds : d[f] # NoFile => \E o \in Objects : n[o] = f
  <2>. SUFFICES ASSUME NEW f \in Fds, d[f] # NoFile
                PROVE  \E o \in Objects : n[o] = f
    OBVIOUS
  <2>1. PICK o \in Objects : s[o] = f
    BY DEF Owned
  <2>2. o # to
    BY <2>1, SocketAssumption DEF NoFd
  <2>3. n[IF o = from THEN to ELSE o] = f
    BY <1>2, <2>1, <2>2
  <2>. QED
    BY <2>3
<1>6. Owned(n, d)
  BY <1>1, <1>3, <1>4, <1>5 DEF Owned
<1>. QED
  BY <1>6 DEF n

\* What the operations do to the two tables.
LEMMA OpenedTables ==
  ASSUME NEW o, NEW f, NEW x
  PROVE  Opened(Tables, o, f, x)
           = [sock |-> [sock EXCEPT ![o] = f], fdtab |-> [fdtab EXCEPT ![f] = x]]
  BY DEF Opened, Tables

LEMMA MovedTables ==
  ASSUME NEW to, NEW from
  PROVE  Moved(Tables, to, from)
           = [sock |-> [sock EXCEPT ![to] = sock[from], ![from] = NoFd], fdtab |-> fdtab]
  BY DEF Moved, Tables

-----------------------------------------------------------------------------
(* The operations of SocketNext. *)

\* Bind and Connect (TcpSocket.cpp:40-60, 80-104).
LEMMA OpenStep ==
  ASSUME Owned(sock, fdtab), NEW o \in Objects, Open(o)
  PROVE  Owned(sock', fdtab')
<1>1. CASE UNCHANGED svars
  BY <1>1 DEF svars
<1>2. CASE ~IsValid(o) /\ \E f \in Fds, x \in Files : Lowest(f) /\ Become(Opened(Tables, o, f, x))
  <2>1. PICK f \in Fds, x \in Files : Lowest(f) /\ Become(Opened(Tables, o, f, x))
    BY <1>2
  <2>2. sock' = [sock EXCEPT ![o] = f] /\ fdtab' = [fdtab EXCEPT ![f] = x]
    BY <2>1, OpenedTables DEF Become
  <2>3. sock[o] = NoFd /\ fdtab[f] = NoFile
    BY <1>2, <2>1 DEF IsValid, Lowest, Free
  <2>. QED
    BY <2>2, <2>3, OpenedOwned
<1>. QED
  BY <1>1, <1>2 DEF Open

\* Accept (TcpSocket.cpp:71-77).
LEMMA AcceptStep ==
  ASSUME Owned(sock, fdtab), NEW to \in Objects, NEW from \in Objects, AcceptInto(to, from)
  PROVE  Owned(sock', fdtab')
<1>1. PICK f \in Fds, x \in Files : Lowest(f) /\ Become(Opened(Tables, to, f, x))
  BY DEF AcceptInto
<1>2. sock' = [sock EXCEPT ![to] = f] /\ fdtab' = [fdtab EXCEPT ![f] = x]
  BY <1>1, OpenedTables DEF Become
<1>3. sock[to] = NoFd /\ fdtab[f] = NoFile
  BY <1>1 DEF AcceptInto, IsValid, Lowest, Free
<1>. QED
  BY <1>2, <1>3, OpenedOwned

\* The move constructor (TcpSocket.cpp:22-25).
LEMMA MoveStep ==
  ASSUME Owned(sock, fdtab), NEW to \in Objects, NEW from \in Objects, MoveInto(to, from)
  PROVE  Owned(sock', fdtab')
<1>1. sock' = [sock EXCEPT ![to] = sock[from], ![from] = NoFd] /\ fdtab' = fdtab
  BY MovedTables DEF MoveInto, Become
<1>2. to # from /\ sock[to] = NoFd
  BY DEF MoveInto, IsValid
<1>. QED
  BY <1>1, <1>2, MovedOwned

\* The move assignment closes what the target held, as its destructor would,
\* and then moves (TcpSocket.cpp:28-37).
LEMMA AssignStep ==
  ASSUME Owned(sock, fdtab), NEW to \in Objects, NEW from \in Objects, Assign(to, from)
  PROVE  Owned(sock', fdtab')
<1>1. CASE to = from
  BY <1>1 DEF Assign, Assigned, Become, Tables
<1>2. CASE to # from
  <2>. DEFINE s == [sock EXCEPT ![to] = NoFd]
              d == IF sock[to] = NoFd THEN fdtab ELSE [fdtab EXCEPT ![sock[to]] = NoFile]
  <2>1. Owned(s, d)
    BY DestroyedOwned
  <2>2. /\ sock' = [sock EXCEPT ![to] = sock[from], ![from] = NoFd]
        /\ fdtab' = d
    BY <1>2 DEF Assign, Assigned, Become, Moved, Closing, Tables
  <2>3. sock \in [Objects -> Fds \cup {NoFd}]
    BY DEF Owned
  <2>4. s[to] = NoFd
    BY <2>3
  <2>5. sock' = [s EXCEPT ![to] = s[from], ![from] = NoFd]
    BY <1>2, <2>2, <2>3
  <2>6. fdtab' = d
    BY <2>2
  <2>. HIDE DEF s, d
  <2>7. Owned([s EXCEPT ![to] = s[from], ![from] = NoFd], d)
    BY <1>2, <2>1, <2>4, MovedOwned
  <2>. QED
    BY <2>5, <2>6, <2>7
<1>. QED
  BY <1>1, <1>2

\* The destructor (TcpSocket.cpp:15-19).
LEMMA DestroyStep ==
  ASSUME Owned(sock, fdtab), NEW o \in Objects, Destroy(o)
  PROVE  Owned(sock', fdtab')
<1>1. sock' = [sock EXCEPT ![o] = NoFd]
  BY DEF Destroy, Become, Destroyed, Tables
<1>2. fdtab' = IF sock[o] = NoFd THEN fdtab ELSE [fdtab EXCEPT ![sock[o]] = NoFile]
  BY DEF Destroy, Become, Destroyed, Closing, Tables
<1>. QED
  BY <1>1, <1>2, DestroyedOwned

-----------------------------------------------------------------------------

\* Whatever sequence of constructions, moves, assignments, failed calls and
\* destructions a program makes, every open descriptor is held by exactly one
\* object and no object holds a closed one (TcpSocket.cpp:11-37, 71-77).
THEOREM DescriptorsClosedOnce == SocketSpec => []SingleOwner
<1>1. SocketInit => Owned(sock, fdtab)
  BY DEF SocketInit, Owned, NoFd
<1>2. Owned(sock, fdtab) /\ [SocketNext]_svars => Owned(sock, fdtab)'
  <2>. SUFFICES ASSUME Owned(sock, fdtab), [SocketNext]_svars
                PROVE  Owned(sock', fdtab')
    BY DEF Owned
  <2>1. ASSUME NEW o \in Objects, Open(o) PROVE Owned(sock', fdtab')
    BY <2>1, OpenStep
  <2>2. ASSUME NEW o \in Objects, Destroy(o) PROVE Owned(sock', fdtab')
    BY <2>2, DestroyStep
  <2>3. ASSUME NEW o \in Objects, NEW p \in Objects, AcceptInto(o, p) PROVE Owned(sock', fdtab')
    BY <2>3, AcceptStep
  <2>4. ASSUME NEW o \in Objects, NEW p \in Objects, MoveInto(o, p) PROVE Owned(sock', fdtab')
    BY <2>4, MoveStep
  <2>5. ASSUME NEW o \in Objects, NEW p \in Objects, Assign(o, p) PROVE Owned(sock', fdtab')
    BY <2>5, AssignStep
  <2>6. CASE UNCHANGED svars
    BY <2>6 DEF svars
  <2>. QED
    BY <2>1, <2>2, <2>3, <2>4, <2>5, <2>6 DEF SocketNext
<1>3. Owned(sock, fdtab) => SingleOwner
  BY OwnedIsInv
<1>. QED
  BY <1>1, <1>2, <1>3, PTL DEF SocketSpec
=============================================================================
