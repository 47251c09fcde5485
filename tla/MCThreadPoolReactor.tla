------------------------ MODULE MCThreadPoolReactor ------------------------
(* An instance of ThreadPoolReactor. *)
EXTENDS ThreadPoolReactor, TLC

CONSTANTS c1, c2, w1, w2

MCSendMax == [c \in Conns |-> IF c = c1 THEN 2 ELSE 0]
MCFiles   == Conns \cup {Listener, Fresh}
=============================================================================
