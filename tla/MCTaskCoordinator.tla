-------------------------- MODULE MCTaskCoordinator --------------------------
(***************************************************************************)
(* Instances of TaskCoordinator for TLC.                                   *)
(***************************************************************************)
EXTENDS TaskCoordinator, TLC

\* Threads are interchangeable, and so are the texts a builder can return.
\* Used only in runs without liveness properties.
Symmetry == Permutations(Workers) \cup Permutations(Texts)

=============================================================================
