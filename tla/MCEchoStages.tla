---------------------------- MODULE MCEchoStages ----------------------------
(* Instances of EchoStages. *)
EXTENDS EchoStages, TLC

CONSTANTS c1, c2, w1, w2

MCSendMax == [c \in Conns |-> IF c = c1 THEN 2 ELSE 1]
MCFiles   == Conns \cup Listeners \cup {Fresh}
=============================================================================
