-------------------------- MODULE MCSnapshotStore --------------------------
(* SnapshotStore for TLC: the processes are interchangeable. *)
EXTENDS SnapshotStore, TLC

Symmetry == Permutations(Proc)
============================================================================
