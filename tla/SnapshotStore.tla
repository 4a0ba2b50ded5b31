---------------------------- MODULE SnapshotStore ----------------------------
(***************************************************************************)
(* Deleting and retagging snapshots (src/repo.rs) while other processes do *)
(* the same and restic prunes.  Each operation holds an exclusive          *)
(* repository lock, which here is what LockService promises: one that can  *)
(* lapse, since the operations never ask RepoLock::poisoned.               *)
(*                                                                         *)
(* A snapshot file never changes.  A retag writes a new file, reads it     *)
(* back and removes the old one; the files that retags made of one backup  *)
(* share its tree.  A file's name is a hash over a fresh nonce, so no name *)
(* is used twice: names are numbered in the order the files are written.   *)
(* `restic tag` and `restic forget` take the same steps as wrustic.        *)
(*                                                                         *)
(* Repositories are opened with RepositoryOptions::default(), so what      *)
(* rustic_core reads of snapshots/ stays in a cache on the host, and later *)
(* reads are answered from it.  A listing drops what is gone.  Here every  *)
(* process is on a host of its own.                                        *)
(***************************************************************************)
EXTENDS Naturals

CONSTANTS
  Proc,       \* the processes that work on the repository
  Tag,        \* the tags in use
  Backups,    \* the files 1..Backups are backups nobody has retagged yet
  MaxId,      \* bound: files ever written
  MaxFaults   \* bound: failing calls with an effect, and crashes

ASSUME StoreConstants ==
  /\ Backups \in Nat \ {0}
  /\ MaxId \in Nat
  /\ Backups <= MaxId
  /\ MaxFaults \in Nat

VARIABLES
  content,  \* content[i]: what was written as file i
  there,    \* the files in snapshots/
  last,     \* the last file written
  data,     \* the trees whose data is in the repository
  doomed,   \* the trees of which somebody deleted a snapshot
  cache,    \* cache[p]: the files gone from snapshots/ that p's host may still read
  stale,    \* the trees of which somebody edits, or edited, a file that was gone
  pc,       \* pc[p]: the step p is at
  job,      \* job[p]: what p was asked to do
  new,      \* new[p]: the file p's retag has written, or 0
  keep,     \* keep[p]: the trees p's prune found in use
  faults,   \* failures so far
  overdue,  \* whether operations can outlast their locks; it never changes
  granted,  \* LockService
  lapsed    \* LockService

Lock == INSTANCE LockService

files == <<content, there, last>>
seen == <<cache, stale>>
work == <<pc, job, new, keep>>
shared == <<files, data, doomed, stale, work, faults, overdue, granted, lapsed>>
vars == <<shared, cache>>

Id == 1..MaxId
Tags == SUBSET Tag

\* The fields of a snapshot that matter here; sound files read back as they
\* were meant.
Snapshot == [tree : Id, tags : Tags, original : Id \cup {0}, sound : BOOLEAN]

Op == {"delete", "retag", "prune"}
Job == [op : Op, id : Id, tags : Tags]
Step == {"idle", "open", "write", "verify", "discard", "remove", "sweep", "release"}

Replacing(p) == pc[p] = "remove" /\ job[p].op = "retag"

Ranges ==
  /\ content \in [Id -> Snapshot]
  /\ last \in Backups..MaxId
  /\ there \subseteq 1..last
  /\ data \subseteq Id
  /\ doomed \subseteq Id
  /\ stale \subseteq Id
  /\ pc \in [Proc -> Step]
  /\ job \in [Proc -> Job]
  /\ new \in [Proc -> 0..last]
  /\ keep \in [Proc -> SUBSET Id]
  /\ faults \in 0..MaxFaults
  /\ granted \in [Proc -> {"none", "exclusive"}]
  /\ lapsed \in [Proc -> BOOLEAN]

\* What each step goes with.
Link(p) ==
  /\ pc[p] = "idle" <=> granted[p] = "none"
  /\ job[p].id <= last
  /\ pc[p] \in {"write", "verify", "discard"} => job[p].op = "retag"
  /\ pc[p] = "remove" => job[p].op # "prune"
  /\ pc[p] \in {"verify", "discard"} \/ Replacing(p)
       => new[p] > job[p].id /\ content[new[p]].tree = content[job[p].id].tree
  /\ pc[p] = "discard" => ~content[new[p]].sound
  /\ pc[p] = "sweep" => job[p].op = "prune"

Links == \A p \in Proc : Link(p)

\* Types, and: whoever is at work holds an exclusive lock, and the file a
\* retag verifies, discards or replaces the old one by is its own retag of it.
TypeOK == Ranges /\ Links /\ overdue \in BOOLEAN /\ cache \in [Proc -> SUBSET Id]

Backup(i, ts) == [tree |-> i, tags |-> ts, original |-> 0, sound |-> TRUE]
NoJob == [op |-> "delete", id |-> 1, tags |-> {}]

Init ==
  /\ \E ts \in [1..Backups -> Tags] :
       content = [i \in Id |-> Backup(i, IF i <= Backups THEN ts[i] ELSE {})]
  /\ there = 1..Backups
  /\ last = Backups
  /\ data = 1..Backups
  /\ doomed = {}
  /\ cache = [p \in Proc |-> {}]
  /\ stale = {}
  /\ pc = [p \in Proc |-> "idle"]
  /\ job = [p \in Proc |-> NoJob]
  /\ new = [p \in Proc |-> 0]
  /\ keep = [p \in Proc |-> {}]
  /\ faults = 0
  /\ overdue \in BOOLEAN
  /\ Lock!ServiceInit

----------------------------------------------------------------------------
Fault == faults < MaxFaults /\ faults' = faults + 1

Goto(p, step) == pc' = [pc EXCEPT ![p] = step]

Readable(i) == i \in there /\ content[i].sound

\* A file can be named in the list a user works from although it is gone.
Listed == 1..last

----------------------------------------------------------------------------
(* The operations: delete_snapshot, edit_snapshot_tags, restic prune. *)

Take(p, op, i, ts) ==
  /\ pc[p] = "idle"
  /\ job' = [job EXCEPT ![p] = [op |-> op, id |-> i, tags |-> ts]]
  /\ Goto(p, "open")
  /\ UNCHANGED <<files, data, doomed, seen, new, keep, faults>>

\* Mutant of Acquire: the guard is dropped where it is made (let _ = ...).
AcquireDropped(p, op, i, ts) ==
  /\ Take(p, op, i, ts)
  /\ \A q \in Proc : granted[q] = "none" \/ lapsed[q]
  /\ UNCHANGED <<granted, lapsed>>

\* Mutant of Acquire: a shared lock.
AcquireShared(p, op, i, ts) == Take(p, op, i, ts) /\ Lock!Grant(p, "shared")

\* The exclusive lock is taken before the snapshot is looked at.
Acquire(p, op, i, ts) == Take(p, op, i, ts) /\ Lock!Grant(p, "exclusive")

\* get_snapshot_from_str, or cat_file and the comparison of
\* retag_snapshot_json: the snapshot is read under the lock, but possibly from
\* the cache; one that has the requested tags already is left alone.
Open(p) ==
  LET j == job[p] IN
  /\ pc[p] = "open"
  /\ j.id \in there \cup cache[p]
  /\ content[j.id].sound
  /\ \/ j.op = "delete" /\ Goto(p, "remove") /\ UNCHANGED stale
     \/ /\ j.op = "retag" /\ content[j.id].tags # j.tags
        /\ Goto(p, "write")
        /\ stale' = IF j.id \in there THEN stale ELSE stale \cup {content[j.id].tree}
     \/ /\ j.op = "retag" /\ content[j.id].tags = j.tags
        /\ Goto(p, "release") /\ UNCHANGED stale
  /\ UNCHANGED <<files, data, doomed, cache, job, new, keep, faults, granted, lapsed>>

\* The snapshot is gone, damaged, or the read fails.
OpenFails(p) ==
  /\ pc[p] = "open"
  /\ Goto(p, "release")
  /\ UNCHANGED <<files, data, doomed, seen, job, new, keep, faults, granted, lapsed>>

\* The first file of a snapshot that was retagged, for its next file.
Original(i) == IF content[i].original = 0 THEN i ELSE content[i].original

\* retag_snapshot_json and write_unpacked: only tags and original change.
\* What lands may be damaged.
Store(p, sound) ==
  LET j == job[p] IN
  /\ last < MaxId
  /\ last' = last + 1
  /\ there' = there \cup {last + 1}
  /\ content' = [content EXCEPT ![last + 1] =
       [tree |-> content[j.id].tree, tags |-> j.tags,
        original |-> Original(j.id), sound |-> sound]]

Write(p) ==
  /\ pc[p] = "write"
  /\ \/ Store(p, TRUE) /\ UNCHANGED faults
     \/ Store(p, FALSE) /\ Fault
  /\ new' = [new EXCEPT ![p] = last + 1]
  /\ Goto(p, "verify")
  /\ UNCHANGED <<data, doomed, seen, job, keep, granted, lapsed>>

\* The write reports an error; the file may have landed all the same.
WriteFails(p) ==
  /\ pc[p] = "write"
  /\ Goto(p, "release")
  /\ \/ UNCHANGED <<files, faults>>
     \/ \E sound \in BOOLEAN : Store(p, sound) /\ Fault
  /\ UNCHANGED <<data, doomed, seen, job, new, keep, granted, lapsed>>

\* Mutant of Verify: the new file is not read back.
VerifyNothing(p) ==
  /\ pc[p] = "verify"
  /\ Goto(p, "remove")
  /\ UNCHANGED <<files, data, doomed, seen, job, new, keep, faults, granted, lapsed>>

\* The new file, not in the cache yet, reads back as it was meant; or it does not.
Verify(p) ==
  /\ pc[p] = "verify"
  /\ new[p] \in there
  /\ Goto(p, IF content[new[p]].sound THEN "remove" ELSE "discard")
  /\ UNCHANGED <<files, data, doomed, seen, job, new, keep, faults, granted, lapsed>>

\* The new file cannot be read back: both files stay.
VerifyFails(p) ==
  /\ pc[p] = "verify"
  /\ IF Readable(new[p]) THEN Fault ELSE UNCHANGED faults
  /\ Goto(p, "release")
  /\ UNCHANGED <<files, data, doomed, seen, job, new, keep, granted, lapsed>>

\* A new file that differs is removed as well as may be.
Discard(p) ==
  /\ pc[p] = "discard"
  /\ \/ there' = there \ {new[p]} /\ UNCHANGED faults
     \/ UNCHANGED there /\ Fault
  /\ Goto(p, "release")
  /\ UNCHANGED <<content, last, data, doomed, seen, job, new, keep, granted, lapsed>>

\* Whoever read a file can read it from the cache when it is gone.  The process
\* that deletes one removes it there, too (delete_snapshots); the end of an edit
\* does not (snapshots.remove).
Cached(p, gone) ==
  LET forgotten == IF job[p].op = "delete" THEN {job[p].id} ELSE {} IN
  cache' = [q \in Proc |-> (cache[q] \cup gone) \ IF q = p THEN forgotten ELSE {}]

\* The old file, or the one to delete, is removed (a file that is gone
\* already counts as removed).
Remove(p) ==
  /\ pc[p] = "remove"
  /\ there' = there \ {job[p].id}
  /\ doomed' = IF job[p].op = "delete" /\ job[p].id \in there
               THEN doomed \cup {content[job[p].id].tree}
               ELSE doomed
  /\ Cached(p, {job[p].id} \cap there)
  /\ Goto(p, "release")
  /\ UNCHANGED <<content, last, data, stale, job, new, keep, faults, granted, lapsed>>

RemoveFails(p) ==
  /\ pc[p] = "remove"
  /\ Fault
  /\ Cached(p, {})
  /\ Goto(p, "release")
  /\ UNCHANGED <<files, data, doomed, stale, job, new, keep, granted, lapsed>>

\* restic prune reads every snapshot, and gives up on one it cannot read;
\* then it removes the data no snapshot uses.
Scan(p) ==
  /\ pc[p] = "open"
  /\ job[p].op = "prune"
  /\ \A i \in there : Readable(i)
  /\ keep' = [keep EXCEPT ![p] = {content[i].tree : i \in there}]
  /\ Goto(p, "sweep")
  /\ UNCHANGED <<files, data, doomed, seen, job, new, faults, granted, lapsed>>

Sweep(p) ==
  /\ pc[p] = "sweep"
  /\ data' = data \cap keep[p]
  /\ Goto(p, "release")
  /\ UNCHANGED <<files, doomed, seen, job, new, keep, faults, granted, lapsed>>

Leave(p) ==
  /\ Lock!Surrender(p)
  /\ Goto(p, "idle")
  /\ job' = [job EXCEPT ![p] = NoJob]
  /\ new' = [new EXCEPT ![p] = 0]
  /\ keep' = [keep EXCEPT ![p] = {}]
  /\ UNCHANGED <<files, data, doomed, seen>>

\* The guard is dropped when the operation returns.
Release(p) ==
  /\ pc[p] = "release"
  /\ Leave(p)
  /\ UNCHANGED faults

Crash(p) ==
  /\ pc[p] \notin {"idle", "release"}
  /\ Leave(p)
  /\ Fault

\* An operation takes so long that its lock turns stale.  (A prune does not:
\* restic ends one whose lock it cannot refresh.)
Lapse(p) ==
  /\ overdue
  /\ job[p].op # "prune"
  /\ ~lapsed[p]
  /\ Lock!Lapse(p)
  /\ UNCHANGED <<files, data, doomed, seen, work, faults>>

Begin(p) ==
  \E i \in Listed :
    \/ Acquire(p, "delete", i, {})
    \/ \E ts \in Tags : Acquire(p, "retag", i, ts)
    \/ Acquire(p, "prune", 1, {})

Retag(p) == Write(p) \/ WriteFails(p) \/ Verify(p) \/ VerifyFails(p) \/ Discard(p)

Work(p) ==
  \/ Begin(p)
  \/ Open(p) \/ OpenFails(p)
  \/ Retag(p)
  \/ Remove(p) \/ RemoveFails(p)
  \/ Scan(p) \/ Sweep(p)
  \/ Release(p) \/ Crash(p)
  \/ Lapse(p)

\* load_snapshots: a listing, which takes no lock; what is gone leaves the cache.
Show(p) ==
  /\ pc[p] = "idle"
  /\ cache' = [cache EXCEPT ![p] = {}]
  /\ UNCHANGED shared

Next == (\E p \in Proc : Work(p) \/ Show(p)) /\ UNCHANGED overdue

Spec == Init /\ [][Next]_vars

----------------------------------------------------------------------------
(* Properties. *)

\* The snapshots one can still read, by tree; and all that are listed.
Alive == {content[i].tree : i \in {j \in there : content[j].sound}}
Present == {content[i].tree : i \in there}

\* Retags never lose a snapshot ("there is never a moment where the snapshot
\* doesn't exist", edit_snapshot_tags): as long as nobody deleted a snapshot
\* of it, a backup can be read under some name, also when retags of it run at
\* the same time because locks lapsed, when calls fail and processes die.
NeverLost == \A t \in 1..Backups : t \in doomed \/ t \in Alive

\* Whatever the chain of retags, a snapshot names its first file.
OriginalKept ==
  \A i \in there :
    content[i].sound =>
      content[i].original = IF i <= Backups THEN 0 ELSE content[i].tree

\* So a retag keeps the backup and where it comes from.
RetagKeeps == NeverLost /\ OriginalKept

\* While locks hold and without failures, whenever no retag is halfway a backup
\* is listed once, unless somebody edited a file of it that was gone: no two
\* edits start from the same file, so none is lost.
ListedOnce ==
  ~overdue /\ faults = 0 /\ (\A p \in Proc : pc[p] \notin {"verify", "discard", "remove"})
    => \A i, j \in there :
         content[i].tree = content[j].tree => i = j \/ content[i].tree \in stale

\* While locks hold, a snapshot that was deleted under every name comes back
\* only if an edit read it from a cache after it was gone.
DeletedStaysDeleted == [][~overdue => Present' \subseteq Present \cup stale]_vars

\* A prune never removes the data of a backup nobody deleted, whatever overlaps
\* and fails.  And while locks hold, every snapshot in the list has its data,
\* unless it was listed again out of a cache: a prune never removes what a
\* retag running at the same time is about to list again.
UndeletedHasData == \A t \in 1..Backups : t \in doomed \/ t \in data
ListedHasData == Present \subseteq data \cup stale
DataKept == UndeletedHasData /\ (~overdue => ListedHasData)

\* "A stale id fails cleanly" (edit_snapshot_tags): under the lock nothing is
\* written in the place of a file that is gone.
StaleIdFails == ~overdue => \A p \in Proc : pc[p] = "write" => job[p].id \in there
=============================================================================
