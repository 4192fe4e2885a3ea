---------------------------- MODULE MCThreadPool ----------------------------
(***************************************************************************)
(* Small instances of ThreadPool for TLC.                                  *)
(***************************************************************************)
EXTENDS ThreadPool, TLC

\* Sound in the runs without liveness: no definition names a particular
\* worker, producer or task.
Symmetry == Permutations(Workers) \cup Permutations(Producers) \cup Permutations(Tasks)
=============================================================================
