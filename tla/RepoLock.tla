------------------------------ MODULE RepoLock ------------------------------
(***************************************************************************)
(* restic's repository lock as src/lock.rs implements it: processes share  *)
(* nothing but the repository's locks/ directory.  To acquire, a process   *)
(* checks the directory, writes a lock file of its own, waits 200 ms and   *)
(* checks again; while it holds the lock a refresher thread replaces the   *)
(* file by a newer one; dropping the lock removes the file.  Anyone may    *)
(* meanwhile run `unlock`, which deletes the lock files judged stale.      *)
(*                                                                         *)
(* A process here is an OS process with at most one RepoLock, as the TUI   *)
(* has; restic's own processes follow the same protocol.                   *)
(***************************************************************************)
EXTENDS Naturals

CONSTANTS
  Proc,       \* processes that lock the repository
  Slot,       \* distinguishes the lock files one process creates (the pool
              \* of names bounds how many exist at once, not how many ever)
  None,       \* no file, no name
  Leftover,   \* what a failed write may leave behind, besides nothing
  MaxFaults,  \* bound: writes and removals that go wrong in one behaviour
  Prompt      \* TRUE: an acquisition attempt, begin to end, takes less than
              \* one REFRESH_INTERVAL (five minutes)

Mode == {"shared", "exclusive"}

\* A lock file that can be read and parsed, the empty file of an interrupted
\* upload, and one that cannot be decrypted or parsed.
Kind == {"lock", "empty", "corrupt"}

\* A storage id.  The code names files by the hash of a randomly encrypted
\* content; only that distinct files have distinct names matters here.
Name == Proc \X Slot

\* What a reader finds in a file; "stale" is LockData::is_stale as an
\* unlocker would judge it now.
File == [kind : Kind, mode : Mode, stale : BOOLEAN]

ASSUME ConstantsOK ==
  /\ Leftover \subseteq Kind
  /\ MaxFaults \in Nat
  /\ Prompt \in BOOLEAN
  /\ None \notin Name \cup File

VARIABLES
  dir,      \* dir[n]: the file named n in locks/, or None
  pc,       \* where each process is
  want,     \* want[p]: the mode p asks for
  pend,     \* pend[p]: listed names p's running check has yet to read
  own,      \* own[p]: LockShared.current_name, or the name just written
  ref,      \* the refresher thread of a held lock
  next,     \* next[p]: the file a refresh wrote and has not switched to yet
  hup,      \* hup[p]: p ignores SIGHUP
  rearmed,  \* rearmed[p]: processes that (re)started their five-minute
            \* refresh timer since p's attempt began
  lapsed,   \* lapsed[p]: the lock p holds went 30 minutes without refresh
  faults    \* writes and removals gone wrong so far

vars == <<dir, pc, want, pend, own, ref, next, hup, rearmed, lapsed, faults>>

Phase == {"idle", "check1", "write", "wait", "check2", "backoff",
          "held", "stopping"}

Holding(p) == pc[p] \in {"held", "stopping"}
Attempting(p) == pc[p] \in {"check1", "write", "wait", "check2", "backoff"}

\* Types, and how own, next and the refresher's state go with the phase: the
\* refresher runs only under a held lock, and switches names exactly once.
TypeOK ==
  /\ dir \in [Name -> File \cup {None}]
  /\ pc \in [Proc -> Phase]
  /\ want \in [Proc -> Mode]
  /\ pend \in [Proc -> SUBSET Name]
  /\ own \in [Proc -> Name \cup {None}]
  /\ ref \in [Proc -> {"timer", "write", "remove"}]
  /\ next \in [Proc -> Name \cup {None}]
  /\ hup \in [Proc -> BOOLEAN]
  /\ rearmed \in [Proc -> SUBSET Proc]
  /\ lapsed \in [Proc -> BOOLEAN]
  /\ faults \in 0..MaxFaults
  /\ \A p \in Proc :
       /\ own[p] # None <=>
            pc[p] \in {"wait", "check2", "backoff", "held", "stopping"}
       /\ next[p] # None <=> ref[p] = "remove"
       /\ ref[p] # "timer" => Holding(p)
       /\ {own[p], next[p]} \subseteq ({p} \X Slot) \cup {None}

Init ==
  /\ dir = [n \in Name |-> None]
  /\ pc = [p \in Proc |-> "idle"]
  /\ want = [p \in Proc |-> "shared"]
  /\ pend = [p \in Proc |-> {}]
  /\ own = [p \in Proc |-> None]
  /\ ref = [p \in Proc |-> "timer"]
  /\ next = [p \in Proc |-> None]
  /\ hup = [p \in Proc |-> FALSE]
  /\ rearmed = [p \in Proc |-> {}]
  /\ lapsed = [p \in Proc |-> FALSE]
  /\ faults = 0

----------------------------------------------------------------------------
Present == {n \in Name : dir[n] # None}
Clash(k, l) == "exclusive" \in {k, l}

\* Names p may give a new file: in use neither in the directory nor in any
\* process's memory.
FreshNames(p) ==
  {n \in {p} \X Slot :
     dir[n] = None /\ n # own[p] /\ n # next[p] /\ \A q \in Proc : n \notin pend[q]}

NewFile(p, k) == [kind |-> k, mode |-> want[p], stale |-> FALSE]

\* A write that reports an error: nothing landed, or something did.
FailedWrite(p) ==
  \/ UNCHANGED <<dir, faults>>
  \/ /\ faults < MaxFaults
     /\ \E n \in FreshNames(p), k \in Leftover :
          dir' = [dir EXCEPT ![n] = NewFile(p, k)]
     /\ faults' = faults + 1

\* A removal whose error the code ignores: the file is gone, or it stays.
TryRemove(n) ==
  \/ dir' = [dir EXCEPT ![n] = None] /\ UNCHANGED faults
  \/ faults < MaxFaults /\ dir[n] # None /\ faults' = faults + 1 /\ UNCHANGED dir

\* p starts a refresh interval.
Rearm(p) ==
  rearmed' = [q \in Proc |-> IF q # p /\ Attempting(q) THEN rearmed[q] \cup {p}
                             ELSE rearmed[q]]

\* What p forgets when its attempt fails, its lock is dropped or it dies.
Reset(p) ==
  /\ pc' = [pc EXCEPT ![p] = "idle"]
  /\ want' = [want EXCEPT ![p] = "shared"]
  /\ pend' = [pend EXCEPT ![p] = {}]
  /\ own' = [own EXCEPT ![p] = None]
  /\ hup' = [hup EXCEPT ![p] = FALSE]
  /\ rearmed' = [rearmed EXCEPT ![p] = {}]
  /\ lapsed' = [lapsed EXCEPT ![p] = FALSE]

----------------------------------------------------------------------------
(* Acquisition. *)

\* acquire: the first check lists the directory.
Begin(p, m) ==
  /\ pc[p] = "idle"
  /\ pc' = [pc EXCEPT ![p] = "check1"]
  /\ want' = [want EXCEPT ![p] = m]
  /\ pend' = [pend EXCEPT ![p] = Present]
  /\ UNCHANGED <<dir, own, ref, next, hup, rearmed, lapsed, faults>>

\* Mutant of Blocks: an exclusive request overlooks shared locks.
BlocksOnExclusiveOnly(n, p) ==
  dir[n] # None /\ (dir[n].kind = "corrupt" \/ dir[n].mode = "exclusive")

\* check_for_other_locks: does the file read under this name stop p?  One
\* that vanished since the listing does not.
Blocks(n, p) ==
  /\ dir[n] # None
  /\ \/ dir[n].kind = "corrupt"
     \/ dir[n].kind = "lock" /\ Clash(dir[n].mode, want[p])

\* check_for_other_locks reads the next listed file and goes on.
ReadLock(p, n) ==
  /\ pc[p] \in {"check1", "check2"}
  /\ n \in pend[p]
  /\ ~Blocks(n, p)
  /\ pend' = [pend EXCEPT ![p] = @ \ {n}]
  /\ UNCHANGED <<dir, pc, want, own, ref, next, hup, rearmed, lapsed, faults>>

\* The first check fails: on a clashing or unreadable lock, or because
\* listing or reading the directory did.
FirstCheckFails(p) ==
  /\ pc[p] = "check1"
  /\ Reset(p)
  /\ UNCHANGED <<dir, ref, next, faults>>

\* Mutant of FirstCheckPasses: SIGHUP keeps its default disposition.
FirstCheckPassesUnguarded(p) ==
  /\ pc[p] = "check1"
  /\ pend[p] = {}
  /\ pc' = [pc EXCEPT ![p] = "write"]
  /\ UNCHANGED <<dir, want, pend, own, ref, next, hup, rearmed, lapsed, faults>>

\* The first check passes; acquire ignores SIGHUP before it writes.
FirstCheckPasses(p) ==
  /\ pc[p] = "check1"
  /\ pend[p] = {}
  /\ pc' = [pc EXCEPT ![p] = "write"]
  /\ hup' = [hup EXCEPT ![p] = TRUE]
  /\ UNCHANGED <<dir, want, pend, own, ref, next, rearmed, lapsed, faults>>

\* write_then_recheck writes the lock and starts the 200 ms wait.
WriteLock(p) ==
  /\ pc[p] = "write"
  /\ \E n \in FreshNames(p) :
       /\ dir' = [dir EXCEPT ![n] = NewFile(p, "lock")]
       /\ own' = [own EXCEPT ![p] = n]
  /\ pc' = [pc EXCEPT ![p] = "wait"]
  /\ UNCHANGED <<want, pend, ref, next, hup, rearmed, lapsed, faults>>

WriteLockFails(p) ==
  /\ pc[p] = "write"
  /\ FailedWrite(p)
  /\ Reset(p)
  /\ UNCHANGED <<ref, next>>

\* Mutant of Recheck: nothing is listed the second time.
RecheckNothing(p) ==
  /\ pc[p] = "wait"
  /\ pc' = [pc EXCEPT ![p] = "check2"]
  /\ UNCHANGED <<dir, want, pend, own, ref, next, hup, rearmed, lapsed, faults>>

\* After the wait the re-check lists the directory, skipping p's own lock.
Recheck(p) ==
  /\ pc[p] = "wait"
  /\ pc' = [pc EXCEPT ![p] = "check2"]
  /\ pend' = [pend EXCEPT ![p] = Present \ {own[p]}]
  /\ UNCHANGED <<dir, want, own, ref, next, hup, rearmed, lapsed, faults>>

RecheckFails(p) ==
  /\ pc[p] = "check2"
  /\ pc' = [pc EXCEPT ![p] = "backoff"]
  /\ pend' = [pend EXCEPT ![p] = {}]
  /\ UNCHANGED <<dir, want, own, ref, next, hup, rearmed, lapsed, faults>>

\* Mutant of Backoff: the loser returns without removing its lock.
BackoffLeavesLock(p) ==
  /\ pc[p] = "backoff"
  /\ Reset(p)
  /\ UNCHANGED <<dir, ref, next, faults>>

\* write_then_recheck removes its own lock; acquire restores SIGHUP.
Backoff(p) ==
  /\ pc[p] = "backoff"
  /\ TryRemove(own[p])
  /\ Reset(p)
  /\ UNCHANGED <<ref, next>>

\* The re-check passes: p holds the lock and the refresher thread starts.
RecheckPasses(p) ==
  /\ pc[p] = "check2"
  /\ pend[p] = {}
  /\ pc' = [pc EXCEPT ![p] = "held"]
  /\ rearmed' = [q \in Proc |-> IF q = p THEN {}
                                ELSE IF Attempting(q) THEN rearmed[q] \cup {p}
                                ELSE rearmed[q]]
  /\ UNCHANGED <<dir, want, pend, own, ref, next, hup, lapsed, faults>>

----------------------------------------------------------------------------
(* The refresher thread. *)

\* The timer fires.  Under Prompt it cannot have been armed during an
\* attempt that is still running.
RefreshStart(p) ==
  /\ pc[p] = "held"
  /\ ref[p] = "timer"
  /\ Prompt => \A q \in Proc : Attempting(q) => p \notin rearmed[q]
  /\ ref' = [ref EXCEPT ![p] = "write"]
  /\ UNCHANGED <<dir, pc, want, pend, own, next, hup, rearmed, lapsed, faults>>

RefreshWrite(p) ==
  /\ Holding(p)
  /\ ref[p] = "write"
  /\ \E n \in FreshNames(p) :
       /\ dir' = [dir EXCEPT ![n] = NewFile(p, "lock")]
       /\ next' = [next EXCEPT ![p] = n]
  /\ ref' = [ref EXCEPT ![p] = "remove"]
  /\ UNCHANGED <<pc, want, pend, own, hup, rearmed, lapsed, faults>>

\* The refresh could not write: try again at the next tick.
RefreshWriteFails(p) ==
  /\ Holding(p)
  /\ ref[p] = "write"
  /\ FailedWrite(p)
  /\ ref' = [ref EXCEPT ![p] = "timer"]
  /\ Rearm(p)
  /\ UNCHANGED <<pc, want, pend, own, next, hup, lapsed>>

\* Mutant of RefreshRemove: current_name keeps the name just removed.
RefreshRemoveForgetsNew(p) ==
  /\ Holding(p)
  /\ ref[p] = "remove"
  /\ TryRemove(own[p])
  /\ next' = [next EXCEPT ![p] = None]
  /\ ref' = [ref EXCEPT ![p] = "timer"]
  /\ Rearm(p)
  /\ UNCHANGED <<pc, want, pend, own, hup, lapsed>>

\* The previous file is removed and the new one becomes the current one.
RefreshRemove(p) ==
  /\ Holding(p)
  /\ ref[p] = "remove"
  /\ TryRemove(own[p])
  /\ own' = [own EXCEPT ![p] = next[p]]
  /\ next' = [next EXCEPT ![p] = None]
  /\ ref' = [ref EXCEPT ![p] = "timer"]
  /\ Rearm(p)
  /\ UNCHANGED <<pc, want, pend, hup, lapsed>>

----------------------------------------------------------------------------
(* Release. *)

\* Drop tells the refresher to stop.
Stop(p) ==
  /\ pc[p] = "held"
  /\ pc' = [pc EXCEPT ![p] = "stopping"]
  /\ UNCHANGED <<dir, want, pend, own, ref, next, hup, rearmed, lapsed, faults>>

\* Mutant of DropRemove: Drop does not join the refresher.
DropRemoveUnjoined(p) ==
  /\ pc[p] = "stopping"
  /\ TryRemove(own[p])
  /\ Reset(p)
  /\ UNCHANGED <<ref, next>>

\* Drop has joined the refresher, which may have finished one more refresh;
\* it removes the lock's current file and restores SIGHUP.
DropRemove(p) ==
  /\ pc[p] = "stopping"
  /\ ref[p] = "timer"
  /\ TryRemove(own[p])
  /\ Reset(p)
  /\ UNCHANGED <<ref, next>>

----------------------------------------------------------------------------
(* Everything else that happens to the directory and to processes. *)

\* p dies (crash, kill, power loss): its lock files stay, and are stale on
\* its host from now on.  The same slot then stands for a new process.
Crash(p) ==
  /\ pc[p] # "idle"
  /\ dir' = [n \in Name |-> IF n \in {p} \X Slot /\ dir[n] # None
                            THEN [dir[n] EXCEPT !.stale = TRUE] ELSE dir[n]]
  /\ Reset(p)
  /\ ref' = [ref EXCEPT ![p] = "timer"]
  /\ next' = [next EXCEPT ![p] = None]
  /\ UNCHANGED faults

\* Thirty minutes pass since the timestamp in file n.  Under Prompt that
\* does not happen to the file of a running attempt.
Age(n) ==
  /\ dir[n] # None
  /\ ~dir[n].stale
  /\ Prompt => \A p \in Proc : Attempting(p) => n # own[p]
  /\ dir' = [dir EXCEPT ![n].stale = TRUE]
  /\ lapsed' = [p \in Proc |-> IF Holding(p) /\ n \in {own[p], next[p]}
                              THEN TRUE ELSE lapsed[p]]
  /\ UNCHANGED <<pc, want, pend, own, ref, next, hup, rearmed, faults>>

\* One file of an `unlock` (ours or restic's): empty files and stale locks
\* go, live and unreadable ones stay.  Staleness is for ever and names are
\* never reused, so judging and removing may be one step.
RemoveStale(n) ==
  /\ dir[n] # None
  /\ dir[n].kind = "empty" \/ (dir[n].kind = "lock" /\ dir[n].stale)
  /\ dir' = [dir EXCEPT ![n] = None]
  /\ UNCHANGED <<pc, want, pend, own, ref, next, hup, rearmed, lapsed, faults>>

Acquire(p) ==
  \/ \E m \in Mode : Begin(p, m)
  \/ \E n \in Name : ReadLock(p, n)
  \/ FirstCheckFails(p)
  \/ FirstCheckPasses(p)
  \/ WriteLock(p)
  \/ WriteLockFails(p)
  \/ Recheck(p)
  \/ RecheckFails(p)
  \/ Backoff(p)
  \/ RecheckPasses(p)

Hold(p) ==
  \/ RefreshStart(p)
  \/ RefreshWrite(p)
  \/ RefreshWriteFails(p)
  \/ RefreshRemove(p)
  \/ Stop(p)
  \/ DropRemove(p)
  \/ Crash(p)

Next ==
  \/ \E p \in Proc : Acquire(p) \/ Hold(p)
  \/ \E n \in Name : Age(n) \/ RemoveStale(n)

Spec == Init /\ [][Next]_vars

----------------------------------------------------------------------------
(* Properties. *)

\* Two processes never hold clashing locks at once, unless one of them has
\* let its lock go 30 minutes without a refresh: the promise of acquire's
\* write, wait, re-check sequence, whatever refreshes, crashes, failed
\* removals and unlocks happen around it.
MutualExclusion ==
  \A p, q \in Proc :
    p # q /\ Holding(p) /\ Holding(q) /\ Clash(want[p], want[q]) =>
      lapsed[p] \/ lapsed[q]

\* A held lock that has not lapsed is always represented by a readable file
\* of the right mode, also in the middle of a refresh: a refresh never
\* leaves a moment without a valid lock (refresh_loop).
HeldLockOnDisk ==
  \A p \in Proc :
    Holding(p) /\ ~lapsed[p] =>
      /\ dir[own[p]] = NewFile(p, "lock")
      /\ next[p] # None => dir[next[p]] = NewFile(p, "lock")

\* As long as no write or removal went wrong, every lock file that is not
\* stale belongs to an acquisition or a held lock: losers and droppers
\* remove their own, current file.
NoOrphans ==
  faults = 0 =>
    \A n \in Name :
      dir[n] # None /\ ~dir[n].stale => n \in {own[n[1]], next[n[1]]}

\* A process with a lock file of its own in locks/ ignores SIGHUP, so that
\* the staleness probe of a restic unlock on its host cannot kill it.
ProbeSpares == \A p \in Proc : own[p] # None => hup[p]

\* A skipped name is the lock of nobody: LockBackend::read's contract says a
\* lock that is gone cannot conflict.
VanishedCannotConflict ==
  [][\A p \in Proc : \A n \in pend[p] :
       (dir[n] = None /\ n \notin pend'[p] /\ pc'[p] = pc[p]) =>
         ~(n[1] # p /\ Holding(n[1]) /\ ~lapsed[n[1]] /\ Clash(want[n[1]], want[p]))]_vars

\* The readers-writer lock a held RepoLock stands for.
Service == INSTANCE LockService WITH
  granted <- [p \in Proc |-> IF Holding(p) THEN want[p] ELSE "none"],
  lapsed <- lapsed

ImplementsService == Service!ServiceSpec
=============================================================================
