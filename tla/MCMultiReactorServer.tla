------------------------ MODULE MCMultiReactorServer ------------------------
(* Instances of MultiReactorServer. *)
EXTENDS MultiReactorServer, TLC

CONSTANTS w1, w2, c1, c2, c3, f1, f2

Symmetry == Permutations(Workers) \cup Permutations(Conns) \cup Permutations(Fds)
=============================================================================
