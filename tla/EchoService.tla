---------------------------- MODULE EchoService ----------------------------
(***************************************************************************)
(* What the echo servers of stages 02 to 08 promise their clients: what a  *)
(* client gets back is what it sent itself, in order, nothing twice and    *)
(* nothing of another client.  A blocking server loses nothing in between; *)
(* one with non-blocking sockets may, because it drops the rest of a send. *)
(***************************************************************************)
EXTENDS Integers, Sequences

CONSTANT Conns

VARIABLES
  sent,       \* how many units each client has sent: unit k of client c
  echoed,     \* is <<c, k>>, and echoed[c] is what was sent back to c
  lossless    \* whether the server may drop something in between

\* The echo s is one that client c may see.
Faithful(c, s) ==
  \A i \in DOMAIN s :
    /\ s[i][1] = c /\ s[i][2] \in 1 .. sent[c]
    /\ i > 1 => s[i][2] > s[i - 1][2]
    /\ lossless => s[i][2] = i

EInit ==
  sent = [c \in Conns |-> 0] /\ echoed = [c \in Conns |-> <<>>] /\ lossless \in BOOLEAN

Send(c) ==
  /\ sent'[c] > sent[c]
  /\ \A d \in Conns \ {c} : sent'[d] = sent[d]
  /\ UNCHANGED echoed

Echo(c) ==
  /\ \E n \in 1 .. sent[c] - Len(echoed[c]) : \E s \in [1 .. n -> {c} \X (1 .. sent[c])] :
       echoed' = [echoed EXCEPT ![c] = @ \o s]
  /\ Faithful(c, echoed'[c])
  /\ UNCHANGED sent

ENext == UNCHANGED lossless /\ \E c \in Conns : Send(c) \/ Echo(c)

ESpec == EInit /\ [][ENext]_<<sent, echoed, lossless>>
=============================================================================
