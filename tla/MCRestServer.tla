---------------------------- MODULE MCRestServer ----------------------------
(***************************************************************************)
(* One worker and a queue of one: with two jobs the queue fills up while   *)
(* broadcasts meet connections that come and go.  An init message lists    *)
(* one job, so that a client that connects late is not told of the first.  *)
(* The safety run has two connections, the liveness run one.               *)
(***************************************************************************)
EXTENDS RestServer, TLC

Symmetry == Permutations(Job) \cup Permutations(Client)
=============================================================================
