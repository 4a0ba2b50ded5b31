----------------------------- MODULE TreeQueries -----------------------------
(***************************************************************************)
(* The queries on the trees of snapshots: the TUI's previews and diffs     *)
(* (the Loading and Diffing steps of src/main.rs), and the requests an SMB *)
(* client makes of a share.  They share no state: one is asked at a time.  *)
(***************************************************************************)
EXTENDS SnapshotTrees, SmbRequests

QueryInit == WalkInit /\ Init

QueryNext ==
  \/ Idle /\ WalkNext /\ UNCHANGED vars
  \/ walk = NoWalk /\ AskShare /\ UNCHANGED walkVars

Spec == QueryInit /\ [][QueryNext]_<<walkVars, vars>>
=============================================================================
