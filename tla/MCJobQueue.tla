----------------------------- MODULE MCJobQueue -----------------------------
(***************************************************************************)
(* Small instances of JobQueue.  Two generations of workers are enough for *)
(* a restart that meets the leftovers of a shutdown; with three jobs and   *)
(* room for three items a job can be queued in front of the sentinels      *)
(* while both workers are busy.                                            *)
(***************************************************************************)
EXTENDS JobQueue, TLC

Symmetry == Permutations(Task) \cup Permutations(Job \ Orphans)
=============================================================================
