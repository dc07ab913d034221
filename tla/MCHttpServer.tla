---------------------------- MODULE MCHttpServer ----------------------------
(* HttpServer with a few connections, for TLC.                             *)
EXTENDS HttpServer, TLC

ConnSymmetry == Permutations(Conns)
=============================================================================
