------------------------ MODULE MCPthreadScheduler ------------------------
(* Instances of PthreadScheduler for TLC.                                  *)
EXTENDS PthreadScheduler, TLC

\* All threads do the same when each of them may sleep.
Symmetry == Permutations(Threads)
=============================================================================
