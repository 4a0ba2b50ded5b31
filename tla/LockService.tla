---------------------------- MODULE LockService ----------------------------
(***************************************************************************)
(* What a repository lock promises to the operations that take it: a       *)
(* readers-writer lock whose grants can lapse.  A grant lapses when its    *)
(* lock file has gone unrefreshed for the 30-minute stale timeout; from    *)
(* then on the other processes owe it nothing (restic's staleness rule).   *)
(* RepoLock implements this specification.                                 *)
(***************************************************************************)
CONSTANT Proc        \* the processes that lock one repository

VARIABLES granted,   \* granted[p]: the lock p holds, "none" when it holds none
          lapsed     \* lapsed[p]: p's grant went stale while it was held

serviceVars == <<granted, lapsed>>

Kinds == {"shared", "exclusive"}

Clash(k, l) == k # "none" /\ l # "none" /\ "exclusive" \in {k, l}

ServiceInit ==
  /\ granted = [p \in Proc |-> "none"]
  /\ lapsed = [p \in Proc |-> FALSE]

\* A lock is granted only when no other process holds a clashing lock that
\* is still good.
Grant(p, k) ==
  /\ granted[p] = "none"
  /\ \A q \in Proc \ {p} : Clash(k, granted[q]) => lapsed[q]
  /\ granted' = [granted EXCEPT ![p] = k]
  /\ lapsed' = [lapsed EXCEPT ![p] = FALSE]

\* Release, or the death of the holder.
Surrender(p) ==
  /\ granted[p] # "none"
  /\ granted' = [granted EXCEPT ![p] = "none"]
  /\ lapsed' = [lapsed EXCEPT ![p] = FALSE]

Lapse(p) ==
  /\ granted[p] # "none"
  /\ lapsed' = [lapsed EXCEPT ![p] = TRUE]
  /\ UNCHANGED granted

ServiceNext ==
  \E p \in Proc :
    \/ \E k \in Kinds : Grant(p, k)
    \/ Surrender(p)
    \/ Lapse(p)

ServiceSpec == ServiceInit /\ [][ServiceNext]_serviceVars
============================================================================
