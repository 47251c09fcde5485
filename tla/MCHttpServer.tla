---------------------------- MODULE MCHttpServer ----------------------------
(* Instances of HttpServer. *)
EXTENDS HttpServer, TLC

CONSTANTS w1, w2, c1, c2, c3, f1, f2

Symmetry == Permutations(Workers) \cup Permutations(Conns) \cup Permutations(Fds)
=============================================================================
