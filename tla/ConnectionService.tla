------------------------- MODULE ConnectionService -------------------------
(***************************************************************************)
(* What MultiReactorServer promises the application that sets its three    *)
(* callbacks, connection by connection and without workers, epoll or file  *)
(* descriptors: on_connect once, then on_read for the data in the order it *)
(* was sent, then on_disconnect once, and nothing after it.                *)
(***************************************************************************)
EXTENDS Integers

CONSTANTS
  Conns,      \* the connections clients make
  RecvMax,    \* most units one on_read is given
  DropsLive   \* TRUE when a worker may fail while the server runs

VARIABLES
  status,     \* the callbacks a connection has had
  inflight,   \* units sent by the client and not yet given to on_read
  peer,       \* the client's end: "open", "closed" or "reset"
  running     \* running_

svars == <<status, inflight, peer, running>>

SInit ==
  /\ status = [c \in Conns |-> "none"]
  /\ inflight = [c \in Conns |-> 0]
  /\ peer = [c \in Conns |-> "open"]
  /\ running = TRUE

\* on_connect(c).
Connected(c) ==
  /\ status[c] = "none"
  /\ status' = [status EXCEPT ![c] = "connected"]
  /\ UNCHANGED <<inflight, peer, running>>

\* on_read(c, ...) with the next n units.
Delivered(c) ==
  /\ status[c] = "connected"
  /\ \E n \in 1 .. RecvMax :
       /\ n <= inflight[c]
       /\ inflight' = [inflight EXCEPT ![c] = @ - n]
  /\ UNCHANGED <<status, peer, running>>

\* on_disconnect(c): the client has ended the connection and, unless it
\* reset it, everything it sent has been delivered.
Disconnected(c) ==
  /\ status[c] = "connected"
  /\ peer[c] # "open"
  /\ peer[c] = "closed" => inflight[c] = 0
  /\ status' = [status EXCEPT ![c] = "disconnected"]
  /\ UNCHANGED <<inflight, peer, running>>

\* Connections the server gives up without a callback: refused ones at any
\* time, connected ones once it has been stopped.
Dropped ==
  /\ \E lost \in SUBSET Conns :
       /\ \A c \in lost : \/ status[c] = "none"
                          \/ status[c] = "connected" /\ (~running \/ DropsLive)
       /\ status' = [c \in Conns |-> IF c \in lost THEN "dropped" ELSE status[c]]
  /\ UNCHANGED <<inflight, peer, running>>

\* The client sends, closes or resets.
Sent(c) ==
  /\ peer[c] = "open"
  /\ inflight' = [inflight EXCEPT ![c] = @ + 1]
  /\ UNCHANGED <<status, peer, running>>

PeerEnds(c) ==
  \/ /\ peer[c] = "open"
     /\ peer' = [peer EXCEPT ![c] = "closed"]
     /\ UNCHANGED <<status, inflight, running>>
  \/ /\ peer[c] # "reset"
     /\ peer' = [peer EXCEPT ![c] = "reset"]
     /\ \E n \in 0 .. inflight[c] : inflight' = [inflight EXCEPT ![c] = n]
     /\ UNCHANGED <<status, running>>

Stopped == running' = FALSE /\ UNCHANGED <<status, inflight, peer>>

SNext ==
  \/ Stopped \/ Dropped
  \/ \E c \in Conns :
       Connected(c) \/ Delivered(c) \/ Disconnected(c) \/ Sent(c) \/ PeerEnds(c)

SSpec == SInit /\ [][SNext]_svars
=============================================================================
