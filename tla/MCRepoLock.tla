----------------------------- MODULE MCRepoLock -----------------------------
(* Instances of RepoLock for TLC. *)
EXTENDS RepoLock, TLC

\* Processes are interchangeable, and so are the files of one process.
Symmetry == Permutations(Proc) \cup Permutations(Slot)
=============================================================================
