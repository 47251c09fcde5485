----------------------------- MODULE HttpServer -----------------------------
(***************************************************************************)
(* 10_HTTP/server.cpp: the three callbacks main sets on the engine, and    *)
(* the map `sessions' they share.  The map is one object captured by       *)
(* reference, without a lock, and every worker calls the callbacks, so a   *)
(* call of emplace, find or erase takes time here and may overlap another. *)
(* The C++ standard leaves the overlap of a writer with anything undefined;*)
(* the outcomes modelled are those an unsynchronised hash table produces:  *)
(* the operation is lost, or misses its key, or takes the process down.    *)
(*                                                                         *)
(* A session is what HttpSession makes of it, whatever the chunks (see     *)
(* ChunkingInvisible there): requests are ReqLen units long and a session  *)
(* is the number of units of the current request it has parsed.            *)
(***************************************************************************)
EXTENDS MultiReactorServer, Sequences

CONSTANTS
  ReqLen,      \* units of a request
  RespLen,     \* units of a response
  TxMax,       \* units the kernel takes for a connection before send fails
  Pipelined    \* clients may send a request before the last is answered

ASSUME HttpAssumption ==
  ReqLen \in Nat \ {0} /\ RespLen \in Nat /\ TxMax \in Nat /\ Pipelined \in BOOLEAN

VARIABLES
  sessions,    \* the map: descriptor -> units of the current request
  using,       \* the map operation a worker is in, or "none"
  racing,      \* workers whose operation has overlapped another
  todo,        \* requests parse has yet to hand to the loop of on_read
  dead,        \* the process is gone
  tx,          \* response units in the kernel, numbered within their response
  asked,       \* client: units it has sent of a request, ReqLen when waiting
  want,        \* client: the response unit it expects next
  part,        \* history: units of a connection's current request read by on_read
  raced        \* history: two operations have overlapped

map    == <<sessions, using, racing, raced>>
client == <<asked, want>>
app    == <<map, todo, dead, tx, client, part>>
hvars  == <<vars, app>>

HTypeOK ==
  /\ DOMAIN sessions \subseteq Fds
  /\ \A f \in DOMAIN sessions : sessions[f] \in 0 .. ReqLen - 1
  /\ using \in [Workers -> {"none", "emplace", "find", "erase", "reply"}]
  /\ racing \in SUBSET Workers
  /\ todo \in [Workers -> Nat]
  /\ dead \in BOOLEAN
  /\ tx \in [Conns -> Seq(1 .. RespLen)]
  /\ asked \in [Conns -> 0 .. ReqLen]
  /\ want \in [Conns -> 1 .. RespLen + 1]
  /\ part \in [Conns -> 0 .. ReqLen - 1]
  /\ raced \in BOOLEAN

-----------------------------------------------------------------------------
(* The map. *)

MapOps == {"emplace", "find", "erase"}

\* Worker w enters operation op of the map.
Enter(w, op) ==
  LET others == {v \in Workers \ {w} :
                   using[v] \in MapOps /\ ~(op = "find" /\ using[v] = "find")}
  IN  /\ using[w] = "none"
      /\ using' = [using EXCEPT ![w] = op]
      /\ racing' = IF others = {} THEN racing ELSE racing \cup others \cup {w}
      /\ raced' = (raced \/ others # {})
      /\ UNCHANGED <<sessions, todo, dead, tx, client, part, vars>>

\* ... and returns from it; next is what the callback does then.
Return(w, next) ==
  /\ using' = [using EXCEPT ![w] = next]
  /\ racing' = racing \ {w}
  /\ UNCHANGED raced

\* An operation that has overlapped another may take the process down.
Crash(w) ==
  /\ w \in racing
  /\ dead' = TRUE
  /\ UNCHANGED <<map, todo, tx, client, part, vars>>

\* Mutation: the key is taken from a socket that has been moved from.
EmplacedMovedFrom(f) ==
  [g \in DOMAIN sessions \cup {NoFd} |-> IF g = NoFd THEN 0 ELSE sessions[g]]

Emplaced(f) == IF f \in DOMAIN sessions THEN sessions
               ELSE [g \in DOMAIN sessions \cup {f} |-> IF g = f THEN 0 ELSE sessions[g]]

\* Mutation: on_disconnect keeps the session.
ErasedNot(f) == sessions

Erased(f) == [g \in DOMAIN sessions \ {f} |-> sessions[g]]

-----------------------------------------------------------------------------
(* The callbacks. *)

BeginConnect(w) == wpc[w] = "connect" /\ Enter(w, "emplace")

\* sessions.emplace(fd, HttpSession()), which keeps an entry that is there.
EndConnect(w) ==
  /\ using[w] = "emplace"
  /\ \/ sessions' = Emplaced(cur[w])
     \/ w \in racing /\ UNCHANGED sessions
  /\ Return(w, "none")
  /\ OnConnect(w)
  /\ UNCHANGED <<todo, dead, tx, client, part>>

\* Mutation: a request is taken for complete one unit early.
CompletedEarly(n) == (n + 1) \div ReqLen

\* The requests parse returns from n units.
Completed(n) == n \div ReqLen

BeginRead(w) == wpc[w] = "read" /\ Enter(w, "find")

\* sessions.find(fd): without a session the callback returns and the chunk is
\* gone; with one it is appended, and parse yields the requests it completes.
EndFind(w) ==
  /\ using[w] = "find"
  /\ LET f == cur[w]
         c == fdtab[f]
         n == sessions[f] + held[w]
     IN  /\ \/ /\ f \in DOMAIN sessions
               /\ sessions' = [sessions EXCEPT ![f] = n % ReqLen]
               /\ todo' = [todo EXCEPT ![w] = Completed(n)]
               /\ Return(w, "reply")
               /\ UNCHANGED vars
            \/ /\ f \notin DOMAIN sessions \/ w \in racing
               /\ Return(w, "none")
               /\ OnRead(w)
               /\ UNCHANGED <<sessions, todo>>
         /\ part' = [part EXCEPT ![c] = (@ + held[w]) % ReqLen]
  /\ UNCHANGED <<dead, tx, client>>

\* handleRequest and Send of the response: the socket does not block, so send
\* takes what fits, and its result is not looked at.  After a reset it fails,
\* and SIGPIPE, which nothing handles, may end the process.
Reply(w) ==
  /\ using[w] = "reply" /\ todo[w] > 0
  /\ LET c     == fdtab[cur[w]]
         space == TxMax - Len(tx[c])
         n     == IF RespLen <= space THEN RespLen ELSE space
     IN  \/ /\ peer[c] # "reset"
            /\ tx' = [tx EXCEPT ![c] = @ \o [k \in 1 .. n |-> k]]
            /\ UNCHANGED dead
         \/ /\ peer[c] = "reset"
            /\ dead' \in BOOLEAN
            /\ UNCHANGED tx
  /\ todo' = [todo EXCEPT ![w] = @ - 1]
  /\ UNCHANGED <<map, client, part, vars>>

\* parse returns false and on_read returns.
EndRead(w) ==
  /\ using[w] = "reply" /\ todo[w] = 0
  /\ using' = [using EXCEPT ![w] = "none"]
  /\ OnRead(w)
  /\ UNCHANGED <<sessions, racing, raced, todo, dead, tx, client, part>>

BeginDisconnect(w) == wpc[w] = "closing" /\ Enter(w, "erase")

\* sessions.erase(fd).
EndDisconnect(w) ==
  /\ using[w] = "erase"
  /\ \/ sessions' = Erased(cur[w])
     \/ w \in racing /\ UNCHANGED sessions
  /\ Return(w, "none")
  /\ OnDisconnect(w)
  /\ UNCHANGED <<todo, dead, tx, client, part>>

-----------------------------------------------------------------------------
(* HTTP clients. *)

Request(c) ==
  /\ Pipelined \/ asked[c] < ReqLen
  /\ ClientSends(c)
  /\ asked' = IF Pipelined THEN asked ELSE [asked EXCEPT ![c] = @ + 1]
  /\ UNCHANGED <<map, todo, dead, tx, want, part>>

\* The client reads a unit; the last one of a response lets it ask again.
ReadResponse(c) ==
  /\ tx[c] # <<>> /\ peer[c] = "open"
  /\ tx' = [tx EXCEPT ![c] = Tail(@)]
  /\ want' = [want EXCEPT ![c] = IF @ < RespLen THEN @ + 1 ELSE 1]
  /\ asked' = IF want[c] = RespLen THEN [asked EXCEPT ![c] = 0] ELSE asked
  /\ UNCHANGED <<map, todo, dead, part, vars>>

-----------------------------------------------------------------------------

HInit ==
  /\ Init
  /\ sessions = [f \in {} |-> 0]
  /\ using = [w \in Workers |-> "none"]
  /\ racing = {}
  /\ todo = [w \in Workers |-> 0]
  /\ dead = FALSE
  /\ tx = [c \in Conns |-> <<>>]
  /\ asked = [c \in Conns |-> 0]
  /\ want = [c \in Conns |-> 1]
  /\ part = [c \in Conns |-> 0]
  /\ raced = FALSE

\* A session's callbacks as the engine calls them.
HttpCallback(w) ==
  \/ BeginConnect(w) \/ EndConnect(w)
  \/ BeginRead(w) \/ EndFind(w) \/ Reply(w) \/ EndRead(w)
  \/ BeginDisconnect(w) \/ EndDisconnect(w)

EngineStep ==
  /\ \/ Stop
     \/ \E c \in Conns : ClientConnects(c) \/ ClientCloses(c) \/ ClientResets(c)
     \/ \E w \in Workers : Loop(w)
  /\ UNCHANGED app

HNext ==
  /\ ~dead
  /\ \/ EngineStep
     \/ \E c \in Conns : Request(c) \/ ReadResponse(c)
     \/ \E w \in Workers : HttpCallback(w) \/ Crash(w)

HSpec == HInit /\ [][HNext]_hvars

-----------------------------------------------------------------------------
(* Properties. *)

\* The application knows descriptor f: on_connect has returned for it and
\* on_disconnect has not.
Known(f) ==
  \E w \in Workers : f \in clients[w] /\ ~(cur[w] = f /\ wpc[w] = "erase")

\* As long as no two map operations have overlapped, and no worker has left its
\* loop and closed its clients without a callback, the map has exactly one
\* session for each connected descriptor, holding what that connection, and no
\* earlier one with the same descriptor, has sent of its current request:
\* on_disconnect comes before the close that lets the kernel reuse the number
\* (MultiReactorServer.cpp:119-121, server.cpp:41-50, 63-66).
SessionsExact ==
  ~raced /\ (\A w \in Workers : wpc[w] # "exited") => \A f \in Fds :
    /\ f \in DOMAIN sessions <=> Known(f)
    /\ f \in DOMAIN sessions => sessions[f] = part[fdtab[f]]

\* 10_HTTP/10.md:18: when a client connects, one session object is made for
\* it.  With two workers an emplace that overlaps another operation of the
\* shared map (server.cpp:38-66) can be lost.
SessionPerClient == \A f \in Fds : Known(f) => f \in DOMAIN sessions

\* The next response unit a client reads is the one it expects: responses
\* reach it whole and one after the other over the kept-alive connection
\* (10_HTTP/10.md:10-11, server.cpp:27-31).  It depends on how far clients send
\* ahead, as the result of Send is ignored (server.cpp:59).
ResponsesWhole == \A c \in Conns : tx[c] # <<>> => Head(tx[c]) = want[c]
=============================================================================
