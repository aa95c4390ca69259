---------------------------- MODULE MCGrpcServer ----------------------------
(***************************************************************************)
(* Three jobs, one worker and a queue of one: a job is accepted, one waits *)
(* and one is refused, before, during and after the initial list of a      *)
(* watcher.  One watcher is enough: watchers share nothing but the store.  *)
(***************************************************************************)
EXTENDS GrpcServer
=============================================================================
