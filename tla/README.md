# Formal models of wrustic

TLA+ models of wrustic, a terminal program for restic repositories, kept beside
its Rust source (`src/src/*.rs`; paths below are relative to that directory
unless they start with `docs/`).  TLC checks the models on small instances, and
TLAPS proves the central results for every value of the constants.

    tlc -workers 2 -config RepoLockPair.cfg MCRepoLock     # one run
    tlapm RepoLockProofs.tla                               # the proofs

`PROJECT.json` maps every definition to the lines it models and lists the runs,
the mutants that show each property can fail, the findings and the hazards.

## 1. The system

wrustic lists, browses, compares, deletes, retags and shares the snapshots of
restic repositories.  It is one process with a main thread (the TUI), short-lived
workers, and no daemon; its peers are other wrustic and restic processes on this
and other hosts, which it meets only through files in the repository.

| Component | State | Operations | What makes it correct |
|---|---|---|---|
| Repository locks (`lock.rs`) | files in `locks/`; per lock the current name, stop flag, `last_refresh`, `poisoned`; a process-wide SIGHUP count | acquire (check, write, wait 200 ms, re-check), refresh thread, drop, remove stale locks, check only | clashing locks never held together; a held lock always has a file; no file left behind; a probe cannot kill the holder |
| SMB share (`smb/mod.rs`, `app.rs`, the loop in `main.rs`) | server and lock handles, snapshot, password, error | start, poll lock and logons each second, stop | never served without a lock others respect; ends; never stopped without need |
| Snapshot operations (`repo.rs`) | the repository's snapshot files; rustic_core's cache of them on each host | list, preview, delete, edit tags, open with a shared lock | never acts on another snapshot than asked; a retag never loses a snapshot; reads stay consistent with prunes |
| Trees (`repo.rs`) | none | list, preview, diff two trees | the diff reports each changed path once, with its kind |
| restic children (`restic.rs`, prune screen in `main.rs`) | child pid and cancel flag (`ChildTracker`), progress text, result channel | unstick stale locks, spawn, stream, interrupt | a cancel is never lost, never hits a reaped pid; the screen ends |
| HTTP file share (`share.rs`) | listener, signed link, bounded channel | start, serve, expire, stop | only a valid unexpired link is served; stop ends all threads |
| TUI flows (`app.rs`, `main.rs`) | current screen and the scratch of each flow | keys, mouse, loading steps of the main loop | what is confirmed is what is done; a retry goes back to its flow; no server off its screen |
| Configuration (`config.rs`, `crypto.rs`, `passphrase.rs`, `keychain.rs`) | config file, lock file, key | load, save by rename, encrypt fields, derive or look up the key | one instance; a crash leaves old or new; decrypt undoes encrypt |
| SMB names and tree (`smb/name.rs`, `smb/backing.rs`) | none | quote and unquote names, route paths, read ranges | a listed name opens its own node or none; stat, list and open agree; reads stay in the file |
| Headless use (`automation.rs`, `cli.rs`), S3 (`s3_backend.rs`), rendering (`ui.rs`) | none of their own | one-shot commands, backend calls, drawing | they call the components above |

How they interact.  The flows call the repository operations synchronously on the
main thread; only prune runs on a worker that reports over a channel.  Deletes and
tag edits take an exclusive repository lock for their duration, the SMB share a
shared one for its lifetime, and the refresher thread of a lock runs beside them.
restic children follow the same lock protocol on their own.  Leaving the SMB
screen drops the server and then the lock (`SmbHandle`, field order).

What is hard: the lock protocol is a race between processes that share only a
directory, with refreshes, crashes, failing writes and unlocks around it; the
share's safety is an argument about times on two clocks; several operations do
one remote step after the other and can stop between them; the flows keep scratch
state across many screens and error paths; a cancel races a child's exit.
`PROJECT.json` lists each such hazard at its line.

## 2. Modules and plan

| Step | Module | Status |
|---|---|---|
| 1 | `LockService` (abstract), `RepoLock` (protocol), `MCRepoLock` | done |
| 2 | `RepoLockProofs`: type correctness, exclusion, files on disk, probe safety, refinement | done |
| 3 | `ShareLease`: the share's lock over time; `ShareLeaseProofs` | done |
| 4 | `LocalLockDir`: the local backend's write by temporary file and rename, seen by listing readers; refines an atomic file store | planned |
| 5 | `SnapshotStore`: delete and retag of several processes under `LockService` grants that can lapse, with failures between their steps; `SnapshotStoreProofs` | done |
| 6 | `PruneRun`: `ChildTracker`, worker, prune screen, cancellation and liveness; `PruneRunProofs` | done |
| 7 | `SnapshotScreens`: list, filter, delete, tag, unlock, SMB, compare and prune screens with their scratch; `SnapshotScreensProofs` | done |
| 8 | `ShareServer`: the HTTP server, its links, readers and bounded channel; `BrowseScreens`: directory stack, file details and file share, over it; `MCBrowseScreens` | done |
| 9 | `ConfigStore` with the passphrase and profile screens and the headless readers; `MCConfigStore` | done |
| 10 | `SnapshotTrees` (listing, preview, diff) step by step and `SmbBacking` (names, paths, reads) as functions, which `SmbRequests` asks; `TreeQueries` composes the two; `MCTreeQueries` | done |
| 11 | `ConfigStoreProofs` | done |
| 12 | `BrowseScreensProofs`: the server's streams, the directory stack and its walk | done |
| 13 | `TreeQueriesProofs`: names decode to what was encoded, paths lead to their nodes; previews and diffs miss and repeat nothing | done |

`BrowseScreens` composes with `ShareServer` (it `EXTENDS` it: the share screen's keys are the
server's start and stop).  `RepoLock` refines `LockService`, and `SnapshotStore` acquires through it.
Step 4 is the one left: it would refine the directory `RepoLock` assumes.

## 3. RepoLock

A process is an OS process with at most one `RepoLock`: the TUI's main thread is
the only one to acquire.  `dir` is the directory.  A file is what a reader finds in
it: a lock with its mode and whether it would be judged stale, an empty file, or
one that cannot be decrypted or parsed.

| Action | Code (`lock.rs`) |
|---|---|
| `Begin`, `ReadLock`, `FirstCheckFails`, `FirstCheckPasses` | `acquire`, the first `check_for_other_locks`, `sighup_ignore_acquire` |
| `WriteLock`, `WriteLockFails` | `write_lock` and the error path of `acquire` |
| `Recheck`, `ReadLock`, `RecheckFails`, `Backoff`, `RecheckPasses` | the rest of `write_then_recheck`, then the start of the refresher |
| `RefreshStart`, `RefreshWrite`, `RefreshWriteFails`, `RefreshRemove` | one round of `refresh_loop` |
| `Stop`, `DropRemove` | `Drop`: the stop flag; the join, the removal, SIGHUP |
| `Crash`, `Age`, `RemoveStale` | death of a process, 30 minutes passing, one file of `remove_stale_locks` |

Choices a reader should know:

- A check lists the directory in one step and then reads the names one by one, in
  any order, while everybody else goes on.  A directory that changes during the
  listing is covered by names that vanish before they are read.
- `FirstCheckFails` and `RecheckFails` are always possible: besides a clash, any
  I/O error ends a check.  `check_for_other_locks` passes only when every listed
  file was read and did not block.
- A failed write leaves nothing, or one file of a kind in `Leftover` (it landed
  although it reported an error, or was cut short).  A removal whose error is
  ignored may leave the file.  `MaxFaults` bounds both per behaviour.
- `RemoveStale` judges and removes in one step: a stale file never becomes fresh
  and names are not used twice, since they hash freshly encrypted content.
- A storage id is its creator and a slot; `Slot` bounds how many files of one
  process exist at once, not how many are ever created.
- `Prompt`: an attempt takes less than a refresh interval (five minutes; normally
  it takes 200 ms and a few requests).  The protocol needs it, here as in restic:
  a process that stalls between a list and its reads can miss a lock that is
  refreshed meanwhile, twice in a row if it stalls twice.  The model states it with
  `rearmed`: a timer armed during an attempt does not fire before the attempt ends;
  and the file of a running attempt does not go stale.
- `lapsed[p]`: p's file turned stale while held (refreshes failed for 30 minutes).
  From there the protocol promises nothing, and `MutualExclusion` and
  `HeldLockOnDisk` say so.
- The backend shows a write to readers that list after it (strict
  read-after-write), an assumption about external systems.  With it the 200 ms wait
  is not needed for safety, and the model gives it no duration.

Properties.  `MutualExclusion`: clashing locks are not held together.
`HeldLockOnDisk`: a held lock has its file through every step of a refresh.
`NoOrphans`: without faults nobody leaves a live file.  `ProbeSpares`: whoever has a
file ignores SIGHUP.  `ImplementsService`: the protocol implements `LockService`, a
readers-writer lock whose grants may lapse.

### Runs

- `lock_pair` (`RepoLockPair.cfg`, pass): two processes, two files each, one fault of
  any kind.  Two processes suffice for every clash; two slots are what a refresh
  needs; with a leftover file of its own a process is also blocked for want of a
  name, which only removes behaviours.  Three processes are beyond TLC here and are
  covered by the proofs.
- `lock_vanished` (`RepoLockVanished.cfg`, violation): the contract of
  `LockBackend::read` says a vanished lock cannot conflict.  It may belong to a held
  lock whose refresh replaced the file.  The re-check catches it, so the acquisition
  is safe; `check_blocking_locks`, a single check, is not protected.

### Proofs (`RepoLockProofs.tla`)

For any sets of processes and slots, any `Leftover` and `MaxFaults`:

- `TypeCorrect`: `Spec => []TypeOK`.
- `Exclusion`, `OnDisk`, under `Prompt`: `[]MutualExclusion`, `[]HeldLockOnDisk`.
- `Probed`: `[]ProbeSpares`, without `Prompt`.
- `Implementation`, under `Prompt`: `Spec => Service!ServiceSpec`.
- `LeavesNothing`: `[]NoOrphans`, without `Prompt`.  It is inductive with `TypeOK` (`OrphansStep`): a name leaves
  `own` and `next` only in the step that removes its file, or in a crash, which makes it stale.

`MutualExclusion` is not inductive.  `IInv` adds what an attempt has learnt:

1. `FilesInv`: the files of attempts and unlapsed locks are on disk as written.
2. `TimerInv`: `rearmed` is about running attempts, and a refresh in progress was
   not armed during any of them.
3. `FirstCheckInv`: while q checks for the first time, a clashing held lock is
   either still to be read or refreshed since q began.
4. `PastFirstInv`: past it, the latter; so under `Prompt` it does not refresh again
   and its file stays the same during the re-check.
5. `RecheckInv`: of two clashing processes past their writes, a running re-check has
   the other's current file still to read, and reading it blocks.

Each conjunct has its step lemma (`FilesStep` ... `MutexStep`), with one case per
action.  `Probed` needs only that SIGHUP is ignored from before the write on.
`ServiceStep` maps every step to a grant, a surrender, a lapse or a stutter.

## 4. ShareLease

One share from acquiring its lock to dropping it, on two clocks: `stamp` and
`nstamp` are wall-clock ages of lock files, `wait` and `elapsed` are monotonic and
stand still in `Suspend`.  A tick is the unit of all of them; with
`RefreshInterval = 2` it is 2.5 minutes, the poison limit 9 ticks (22.5 minutes)
and `StaleTimeout = 12` (30 minutes), so the code's proportions are kept exactly.

| Action | Code |
|---|---|
| `Acquire`, `OpenFails`, `StartServing` | `app.rs` `start_smb_share`, `smb/mod.rs` `start_snapshot_share`, `repo.rs` `open_indexed_full_shared_lock` |
| `Poll` | `app.rs` `poll_smb_lock`, with `RepoLock::poisoned` |
| `StopServing` | `stop_smb_share` on leaving the screen, `poll_smb_logons` |
| `DropLock` | end of `SmbHandle::stop`: the lock drops after the server stopped |
| `RefreshStart`, `RefreshWrite`, `RefreshFails`, `RefreshDone` | `refresh_loop`: stamp, write, remove and note `last_refresh` |
| `RemoveStale`, `Overtake` | an unlock elsewhere; an exclusive lock taken when no file of the share is there |
| `Tick`, `Suspend` | time |

`Overtake` ignores old files a failed removal may have left; they would only keep
others out.  Ages are counted up to the first value a comparison tells apart.

Bounds.  `MaxLag` is the time from stamping a lock to noting it written: REST
requests time out after 30 s each, so one tick is generous.  `MaxOpen` bounds how
long the index loads, `MaxSuspend` the time suspended under one lock.  `Tick` waits
for a due poll, a due timer and these bounds.

Properties.  `NeverServedUnlocked`: the share is not served once another process took
an exclusive lock under it, as long as it is `InTime`: the poison limit plus one tick (a
poll), the lag and the suspended time stay within the stale timeout, and so does the time
opening took.  The code's times leave one tick of 2.5 minutes for suspensions and 25
minutes for an opening.  `NoSpuriousStop`: poisoning takes two failed refreshes in a
row at least.  `LeaseProgress` (`RefreshedOrStopped` and `StopEnds`): liveness.

Fairness.  Time passes; the loop on the share screen wakes each second whatever
events arrive (`main.rs`: the poll check runs after every wakeup); the refresher is
scheduled and its backend calls end (30 s timeout on REST; assumed of file systems);
a stop that waits only for the refresher completes.

Runs:

- `share_lease` (pass): openings of up to 12 ticks and suspensions of up to 5, both beyond
  what `InTime` allows, so that its limits are met exactly and passed; all properties.
- `share_suspended` (violation): `last_refresh` is an `Instant`.  A suspension makes a poll
  due (`Suspend`), the first one after resuming.  It finds `last_refresh` young although the
  lock file is more than 30 minutes old by the wall clock, the share goes on, the file is
  removed as stale and an exclusive lock is taken.  docs/locking.md promises a stop after
  22.5 minutes without a refresh.  It takes both uses of `last_refresh`: if the poll, and a
  refresh before it is noted as a success, judged the file by the wall clock,
  `ServedAfterPoll` would hold within these bounds.

Observed, and not a run: nobody polls while the index loads (`repo.rs:220`).  With
`MaxOpen = 16` and `MaxSuspend = 0` the same `ServedAfterPoll` is violated by a share whose
refreshes fail while its index loads for more than 30 minutes: its file is removed as stale and an
exclusive lock taken, then one late refresh succeeds, the first poll finds it young, and
the share serves an index from before the gap.

### Proofs (`ShareLeaseProofs.tla`)

- `TypeCorrect`: `Spec => []TypeOK`.
- `ServedLocked`: `Spec => []NeverServedUnlocked`, for any times and bounds.
- `StopsForTwoFailures`: `Spec => NoSpuriousStop`, if two intervals and two writes fit into the time to poisoning
  and a write ends before its stamp is stale (`TwoTriesFit`).  `PaceInv` adds up what `last_refresh` is old by:
  an interval and a write for a failed refresh, the timer, and the write in flight.

When `InTime` fails, the share may be served unlocked: `share_suspended` shows it for the first half of
`InTime`, the slow opening for the second.  Under one lock `InTime` can only be lost (`InTimeBefore`), so the induction may assume it.
`LeaseInv` relates the two clocks: the file is at most `MaxLag + slept` older than
`last_refresh`, while the index loads it ages with `opened`, and while the share is
served each tick begins with a poll that found `last_refresh` within the limit.

## 5. SnapshotStore

Several processes (wrustic, or restic running `tag`, `forget` and `prune`) on one
repository.  A file in `snapshots/` never changes; `content[i]` is what file `i`
holds, `there` which files exist.  Names are numbered in the order the files are
written: a name is a hash over a fresh nonce, so none comes twice.  All files that
retags made of one backup share its `tree`, which stands for the backup.

| Action | Code (`repo.rs`) |
|---|---|
| `Acquire` | `acquire_exclusive` in `delete_snapshot` and `edit_snapshot_tags`: a `LockService` grant |
| `Open`, `OpenFails` | `get_snapshot_from_str`; `cat_file` and the comparison of `retag_snapshot_json`; both may be answered from the cache |
| `Write`, `WriteFails` | `retag_snapshot_json`, `lock::write_unpacked` |
| `Verify`, `VerifyFails`, `Discard` | the read-back, its error, and the removal of a file that differs |
| `Remove`, `RemoveFails` | `snapshots.remove`, `delete_snapshots`, which also clears the cache |
| `Show` | `load_snapshots`: a listing, which takes no lock and drops from the cache what is gone |
| `Release`, `Crash` | the guard drops; the process dies and its lock is in time removed |
| `Lapse` | the lock turns stale while the operation still runs |
| `Scan`, `Sweep` | `restic prune`: reading all snapshots, removing unused data (external) |

Choices: an operation starts from a list that may be old, so any file ever written
can be asked for.  A damaged file is one that cannot be decrypted or that decodes to
something else; a write that reports an error may have landed, sound or not.
`MaxFaults` bounds those, failing removals and crashes; a failing read is always
possible.  New backups only add files and are left out, like the checks for full ids and
append-only repositories.  `restic prune` does not lapse: restic
ends an operation whose lock it cannot refresh, while wrustic's operations never ask
`poisoned()`.

The cache.  Repositories are opened with `RepositoryOptions::default()` (`repo.rs:301`, `338`), so
rustic_core keeps the snapshot files it reads on the host and answers later reads of a full id from
there.  Each process is on a host of its own.  Only the copies of files that are gone matter:
`cache[p]`.  Which files a host has read before is not modelled: when a file goes, every
host may have a copy (`Cached`), and a read of a file that is gone can fail all the same (`OpenFails`).
A listing drops the copies of what is gone (`Show`).  The process that deletes a file through `delete_snapshots` removes its copy,
while the end of an edit removes the file through the bare backend and leaves the copy.  What a retag has
just written through the bare backend is in no cache, so its read-back reaches the repository (`Verify`).  All
this is rustic_core's, and external.  `stale` remembers the trees of which an edit was
opened from such a copy and is going to write.

`overdue` is chosen once, at the start: whether operations may run longer than their
locks are good for.

Properties.  `RetagKeeps`: a backup nobody deleted is readable under some name at every
moment (`NeverLost`), and every readable file names the first of its chain (`OriginalKept`), also
when retags of it overlap because locks lapsed; neither needs anything of the cache.  `DataKept`: a prune
never removes the data of a backup nobody deleted (`UndeletedHasData`), whatever lapses and fails.

The rest speaks of behaviours that are not overdue; with lapsing locks a retag can list again what was
deleted and pruned meanwhile, which nothing in the code prevents and no document promises against.  There, what the
lock guarantees ends where an edit reads a file that is gone from the cache, and the properties say so by
excepting `stale`.  `ListedOnce`: without failures two edits never start from the same file, so no edit is
lost and no backup is listed twice.  `DeletedStaysDeleted`: a deleted snapshot does not come back.  The second half
of `DataKept`: no listed snapshot misses its data (`ListedHasData`).  Without the exception all three are
violated.

Runs, with two processes and one backup:

- `store` (pass): three files, one fault, with and without lapses; 3.0 million states.  Two
  overlapping retags of one file and two retags one after the other are within it, and a delete or a prune
  beside a retag, and each of these from the cache.  Deadlock stays checked.
- `store_stale` (violation): `edit_snapshot_tags` says that under the lock "a stale id fails cleanly", and
  docs/locking.md the same.  `StaleIdFails`: nothing is written in the place of a file that is gone.
  One process deletes a snapshot; another, whose host read the file before, then retags it: its read
  is answered from the cache, and it goes on to write the snapshot anew.  So what was deleted is listed again, what was
  retagged elsewhere twice, and after a prune without its data.

### Proofs (`SnapshotStoreProofs.tla`)

For any processes, tags, backups and bounds:

- `TypeCorrect`: `Spec => []TypeOK`.  `TypeOK` is inductive: it says what each step goes
  with, so that the file a retag removes is older than the one it wrote.
- `RetagsLoseNothing`: `Spec => []NeverLost`, with lapses.  `SurvivesInv`: of each backup
  that is not deleted there is a readable file `i` such that every retag about to remove
  a file of that backup has written `i` or an older file.  When a verified retag starts
  its removal, the newer of `i` and its own file takes that place; since a retag removes only a file older
  than its own, no removal ever takes `i`.
- `OriginalsKept`: `Spec => []OriginalKept`, from `OriginalInv` over all files ever written.
  `RetagsKeep` joins the two.
- `DeletedStays` (`DeletedStaysDeleted`): `HeldInv` says that, unless overdue, one operation runs at a time, that
  what a retag is about to write is of a file that is there or `stale`, and that a prune keeps what is listed.
- `DataIsKept` (`[]DataKept`): `HeldInv` for the half that needs locks.  For the other, `PruneInv`: what a prune
  found in use has every backup nobody deleted.  It did when the prune looked, since each can be read under some
  name (`RetagsLoseNothing`), so prunes may overlap with retags and with each other.
- `EachListedOnce`: `Spec => []ListedOnce`.  The induction is over behaviours that are not overdue and without
  faults so far (`FaultsStay`: what has failed stays so); `OnceInv` says that two files of one backup are there
  only as the old and the new file of a running retag, unless it is `stale`.

## 6. PruneRun

One prune screen after another.  The main loop and the worker share the
`ChildTracker` (`latch` is `cancel_requested`, `slot` is `pid`) and the channel `rx`.

| Action | Code |
|---|---|
| `Key` | `app.rs` `handle_key` on the list, the confirmation and the outcome screens |
| `StartWorker`, `Wait`, `Timeout`, `Receive` | `main.rs`, the `PruneRunning` branch: start, `try_recv`, poll for 150 ms |
| `Press`, `Interrupt` | Ctrl+C: `ChildTracker::interrupt` (latch, then signal), then `prune_cancel_requested` |
| `Detect`, `Gate`, `Check`, `Again` | `restic.rs` `detect`, `unstick_if_blocked` |
| `Start`, `Spawn`, `Register`, `Recheck`, `Deliver`, `Password`, `Read`, `Clear`, `WaitChild`, `Join` | `run_streaming`, for `unlock` or `prune` |
| `SpawnFails`, `ReadFails`, `WaitFails`, `Drop`, `Kill` | its failing paths and the closure `reap` |
| `Drain` | the stderr thread |
| `Want`, `Emit`, `TakeLock`, `FindLocked`, `Finish`, `GiveUp`, `Die` | restic (external): it prints into pipes that fill up, takes the lock, ends |
| `Other` | other processes lock the repository, unlock it or die |

Choices: `repo` is who holds the lock a prune needs; `"stale"` is the lock of a dead
process.  A signalled restic may clean up (`GiveUp`), die with its lock left
(`Die`: Windows, or SIGINT before the handler is installed) or go on to a normal end.
A library panic in the worker is possible where it works on the repository, and ends in the
`Disconnected` branch; a panic because no thread can be started is left out.  The profile of the screen exists:
nothing changes the profiles between the list and the prune.

Properties.  `CancelDelivered`: the user's Ctrl+C is not lost between check, spawn and
registration.  `ChildrenHeld`: a signal never goes to a reaped pid (`TrackedUnreaped`), and no child
survives its worker, on any failing path (`NoChildLeft`).  `ReportTrue`: done means that `prune`, not
`unlock`, succeeded in this run; a refused run shows as cancelled.  `NotStuck`: docs/locking.md's
claim that a lock left by a terminated prune is removed by the next run's pre-check.  `RunEnds`:
liveness, if restic ends (`PruneEnds`) and after a Ctrl+C in any case (`CancelEnds`).

Fairness.  The main loop never blocks longer than 150 ms; the worker and the stderr thread
are scheduled and their calls end (`restic version` and the requests of the lock check
included; neither can be cancelled).  `ReadFails` and `WaitFails` are not fair.  restic need not print or end
unless it was signalled; `PruneEnds` speaks of behaviours in which it goes on printing and ends.

Run `prune_run` (pass): pipes of one chunk and two chunks of output per child, which fills either pipe.

A Ctrl+C that comes when restic has already failed by itself is reported as "restic was interrupted
before finishing" (`main.rs:596`): the message is chosen by the user's request alone.

### Proofs (`PruneRunProofs.tla`)

For any `Cap` and `MaxOut`: `TypeCorrect`, from which `OnlyOurChildren` (`TrackedUnreaped`) and
`ChildrenGone` (`NoChildLeft`), joined in `ChildrenAreHeld`, follow, since `TypeOK` ties the tracker and the child to the worker's
steps; `CancelsArrive` (`CancelDelivered`, inductive with `TypeOK`); `ReportsTrue` with `ReportInv`, which
follows an outcome from the child to the screen; `LeftoversCleared` (`NotStuck`) with `StuckInv`: from the check that
passed, or the unlock that went well, to the prune's own acquisition no lock is there but one taken in this run.

## 7. SnapshotScreens

The `App` behind the screens of one repository.  A waiting screen takes keys, a busy one
makes its call in the main loop and moves on; both run on the main thread, so only the
repositories change under them.

| Action | Code |
|---|---|
| `Activate`, `EditProfiles`, `LeaveError`, `LeaveList`, `Reload` | `app.rs` Home, error and list keys; `EditProfiles` stands for the profile screens, which begin and end at Home |
| `Loaded`, `LoadingFails` | `main.rs`, the `Loading` branch |
| `OpenFilter`, `PickKind`, `PickValue`, `ClearFilter` | the filter pickers; one of the three kinds of filter, tags, stands for all |
| `AskDelete`, `Preview`, `LoadMore`, `ConfirmDelete`, `Deleted`, `DeleteFails`, `CancelDelete` | the delete flow: keys in `app.rs`, calls in `main.rs` |
| `EditTags`, `EnterTags`, `TagsUnchanged`, `TagsSaved`, `TagsFail`, `CancelTags` | the tag editor |
| `ShareSnapshot`, `ShareStarts`, `ShareFails`, `ShareStopped`, `StopShare` | the SMB screen; when the polls stop the server is `ShareLease`'s subject |
| `OfferUnlock`, `Unlocked`, `UnlockFails` | `u` on a lock conflict, the `Unlocking` branch and its three returns |
| `CompareFirst` ... `CancelCompare`, `OpenSnapshot` ... `CloseSnapshot`, `AskPrune` ... `PruneFails` | compare; browsing and prune as far as they enter and leave the list |
| `OtherBackup`, `OtherForget` | other processes (external) |

Choices: the cursor is left out, so a key acts on any visible row; a double click is the same as
Enter on that row; the lineage toggle of the second compare picker only narrows its rows.  Overlays, which swallow one key, and
Ctrl+C, which ends the program, are left out.  A profile's name stands for its repository.  A call
succeeds, meets a lock (no effect) or fails otherwise, with any effect `SnapshotStore` has for it.
`asked` is a history variable: the snapshot of the last `y`, until an attempt uses it.

Properties.  `FlowsHold`: a flow has its snapshot exactly while it is up, through errors, unlocks
and retries (`FlowHasTarget`), so the branches for vanished targets and profiles are dead (`NeverLost`).
`AskedRight`: each deletion attempt is confirmed for itself (`ConfirmedFirst`), over its own contents
(`PreviewMatches`).  `OwnRepository`: no flow works on another profile's snapshot.  `ServerShown`: no
server off its screen.  `WayOut`: the loop's calls never keep the user out for ever (`WaitsEnd`), and
Esc alone leads back to the profiles from every screen (`EscLeadsHome`).

Fairness.  A call of the loop returns (`WF(Loop)`; network timeouts of the libraries).  `EscSpec` adds a user who presses
Esc when it would do something; `EscLeadsHome` speaks of behaviours in which, from some point on, that is all the user does.

Runs, with one tag:

- `screens` (pass): two profiles, and two snapshots in all, so that one can be written or removed by
  another process beside a listed one; all properties.
- `screens_details` (violation): the second of two deletions is confirmed under the details of the first.

### Proofs (`SnapshotScreensProofs.tla`)

For any profiles, tags and snapshots: `TypeCorrect`; then `OpenProfile` (away from Home the index leads to
the profile on screen; it needs that an index of the configuration names one profile, `OneProfile`) and
`FlowInv` (`FlowHasTarget`, and a comparison has both its snapshots), inductive together.  On these rest
`FlowsHaveTargets` and `NothingLost` (joined in `FlowsAreHeld`), `ServersShown`, `DeletionsConfirmed`, and `OwnRepositories` with `OwnInv`: loaded rows,
and what was taken from them, belong to the open profile.  No proof touches the details, which do not match.

## 8. ShareServer and BrowseScreens

`ShareServer` is the server of one shared file; `BrowseScreens` is the screens inside a snapshot, whose
share screen starts and stops it.  The main thread, the server's thread with its runtime, and a blocking
reader per request run concurrently; `main`, `thread` and `readers` say where each is.

| Action | Code |
|---|---|
| `StartServer`, `StopServer`, `Joined` | `share.rs` `start`, `ShareHandle::stop` (shutdown, then join) |
| `ThreadStarts`, `DropTasks`, `ThreadEnds` | the spawned thread: its runtime, `block_on`, and the drop of the runtime, which waits for blocking tasks |
| `Accept`, `Download`, `Redirect`, `BadRequest`, `Disconnect` | `serve`, `handle`: `/dl` with `snap`, `tree`, `exp`, `sig`; `/s/<id>`; anything else |
| `FindNode`, `ReadBlob`, `SendBlob`, `SendError` | `stream_file_content` of `repo.rs` on its thread, `ChannelWriter` |
| `PollFrame` | `ChannelBody::poll_frame` |
| `OpenSnapshot`, `OpeningSnapshot`, `Refresh` | the list's Enter and `r` in `app.rs`; `open_and_walk` in `main.rs` |
| `Descend`, `LoadingDir`, `GoUp`, `Leave` | walking the directories |
| `OpenFile`, `LoadingFileDetails`, `LeaveDetails`, `Share`, `Unshare` | details of a row, and its share |

Choices: a signature is what it covers, so a client can only present links that were minted, by this
server or an earlier one of the same key.  A failing start (port, address, index, thread) shows its error
on the share screen and leaves no server.  What the accept loop does on an error is to try again, so it is
left out.  A reader's failure may come at any blob.  Nodes are shown and found by displayed name: names are
lossy, so `Find` takes the first of a name, and the model's trees have names that tell nodes apart.

Properties.  `ShowsChosen`: the stack is a path of the open snapshot, and details and share are those of
the row Enter was pressed on.  `RefreshStays`: a refresh comes back to its directory.  `ServesBound`: a
client gets the file of its link, in order, while it has not expired, and a response that ends
without an error is the whole file.  `QuietOffScreen`: off the share screen no server, connection
or reader is left.  `ServerEnds`: leaving the share ends, and so does a reader whose client left.

Fairness.  The operating system runs the server's thread and the readers, and reads of the repository
return; the main thread, once it waits in the join, goes on.  Clients and the user owe nothing: a client
that stalls for ever does not hold up the stop, because `DropTasks` drops its receiver.

Run `browse` (pass): two snapshots, of which one has two levels of directories; one connection, files of
two blobs over a channel of one (so a reader blocks with its file unfinished), one tick of life for a link
and two of time, two servers (so that a link of the first meets the second).

Observed, and not a run: `ShareHandle` has no join in its `Drop`, so only `stop` ends the readers before
the program goes on, and leaving the program does not call it; and a reader that panicked would drop its sender,
which a client sees as the end of the file.

### Proofs (`BrowseScreensProofs.tla`)

For any trees, files, links, connections and bounds: `TypeCorrect`, `ServesOnlyBound` (`ServesBound`) and
`QuietElsewhere` (`QuietOffScreen`); for any trees `StaysOnPath`, that the stack is a path of the open snapshot; and
`ShowsWhatWasChosen` (`ShowsChosen`) and `RefreshComesBack` (`RefreshStays`) if displayed names tell the nodes of
a directory apart (`NamesTellApart`; section 10 says when they do not, and then the code does confuse them).
All rest on `BrowseInv`, inductive with `TypeOK`:

1. `StreamInv`, per connection: what has arrived, what is in the channel and where the reader is make one file
   (`Flows`), or the reader failed and an error is the last thing on its way (`Breaks`).  The thread's and
   the reader's steps each touch one connection (`OneConn`); `PollStep` is the one that moves a blob.
2. `ThreadInv`: connections need a serving thread, readers one that serves or drops, and the thread ends before
   the handle is gone.  Hence the quiet after the join.
3. `StackInv`: the stack is a path from the root (`IsStack`); what a refresh walks by are the names of such a
   path, and `trees` are its trees.
4. `FileInv`: from Enter on, `target`, `lookup` and `details` are of one row, and the share is bound to it.

`open_and_walk` is a recursive function, so what it returns is proved by induction on the names walked.
`IndexInduction` states that induction with the property as a set, from the least counterexample;
`WalkUnfolds` shows that the recursion defines the loop it stands for; `WalkIsStack` that it never leaves the
snapshot, and `WalkBack` that it leads along the names of a path to the same trees.

## 9. ConfigStore

`config.toml` is absent, partial or whole, with the key its `[passphrase]` block verifies and the secret
fields under the key that encrypted them.  An instance's `App` keeps all profiles in memory.  Scrypt and
AES-GCM are ideal.  A profile stands for one secret field; profile names are ordered, as in the map.

| Action | Code |
|---|---|
| `Launch`, `Exit` | `main.rs`, `config.rs` `acquire_lock` and its drop; `app.rs` `start_passphrase_flow`; quit or death at any step |
| `SubmitInstance`, `SubmitPassphrase`, `ActivateAuthMethod` | the passphrase screens |
| `Unlock`, `SetUp`, `SetUpKeychain` | `derive_passphrase_key`, `load_config_or_set_fatal`, `config.rs` `load` |
| `SaveOpen`, `SaveWrite`, `SaveRename`, `SaveFails` | `config.rs` `save`, and what its callers do with an error |
| `NewProfile` ... `EnterSecret`, `EditProfile`, `Verify`, `VerifyFailedKey` | the profile forms, `commit_profile` with `ProfileRollback` |
| `AskDelete`, `ConfirmDelete`, `Escape` | deleting a profile; ways back |
| `ReaderPeek`, `ReaderUnlock`, `ReaderPrompt`, `ReaderLoad` | `automation.rs`: `peek_existing`, `unlock_cipher`, `unlock_via_prompts`, `load` |

Choices: the directory's lock is the operating system's and goes with the process.  A second instance
refused at `Launch` exits.  A crash between `SaveOpen` and `SaveRename` leaves the temporary file, which the
next save truncates.  `sync_all` is best effort and power loss is not modelled, only the end of the process.
One keychain entry, one setting of the environment per launch.  Users type texts, not strings that look
encrypted: `encrypt_field` leaves such a string as it is, so a secret with that prefix would be saved
unencrypted and make the file unloadable.

Properties.  `ConfigOpens`: the file is absent, or whole and opened by the passphrase its own block
verifies, and a headless command never meets half of one, although it reads twice and takes no lock
(the comment at `main.rs:75` says so).  `MemoryIsDisk`: at a screen behind the unlock, memory is what is on disk; so a save
that failed leaves nothing behind.  `ChangesAsked`: a save changes the profile its user named and no other
(no instance undoes another's change).  The keychain gets only a passphrase that was submitted with the save box set,
never one from the environment, and it opens `config.toml` - except after a set-up whose save failed (`SetUpUnsaved`):
`derive_passphrase_key` (`app.rs:760-778`) shows the error and still stores the passphrase, though there is no
configuration.  Without that exception `ChangesAsked` is violated.  No document promises otherwise, so it
is an observation and not a finding; the next set-up with the box set overwrites the entry.

Run `config` (pass): two instances, two names, two passphrases, one text, two salts: an edit, a
deletion and a set-up of both instances within each other.

### Proofs (`ConfigStoreProofs.tla`)

`TypeCorrect` (`[]TypeOK`) holds whatever users type.  `AlwaysOpens` (`[]ConfigOpens`), `MemoryMatches`
(`[]MemoryIsDisk`) and `ChangesAreAsked` (`ChangesAsked`) assume `PlainTyped`: users type texts, for the
reason above.  None of the three is inductive: whether a finished save leaves the right file depends on
what the instance knew when it began.  `Inv` says, for each screen, what an instance knows of the file
(`Local`): behind the unlock it is the image of memory (`Disk`); during a save there is no file
(`FirstSave`) or one that differs from memory in the profile asked about (`OtherSave`); before the rename the
temporary file is memory's image.  `Mine` says that an instance that runs has the lock, so while
one moves all others are off (`Alone`, `Steps1`), and the file cannot change under it.  A headless reader takes
no lock, and needs only that the file's key never changes once there is one (`ReaderInv`).  A deletion keeps an index,
not a name; `IndexInjective` shows that the row deleted is the one the question was about.

## 10. SnapshotTrees, SmbBacking, SmbRequests and TreeQueries

`SnapshotTrees` has `list_tree`, `walk_preview` and the diff (`diff_trees`, `diff_matched_nodes`,
`collect_all_as`, the summary) of `repo.rs`.  All of them call themselves, so its state is the stack of the
calls that have not returned, with what the code passes down by reference next to it:

| Model | Code |
|---|---|
| `walk` | the snapshots and the limit that are asked about |
| `calls` | the calls under way: of `walk_preview` with the rows left (`Rows`), of `diff_trees` with its two cursors (`Pair`), of `collect_all_as` with its modifier (`All`) |
| `out`, `truncated` | `entries` and `truncated` of a preview; `out` also `changes` of a diff |
| `summary` | `DiffSummary`, with files and bytes by modifier (bytes of changed files stay 0: the code keeps none) |
| `AskPreview`, `AskDiff`, `WalkDone` | `preview_snapshot_contents`, `diff_snapshots`; their result is used |
| `PreviewRow`, `PreviewFull`, `PreviewReturn` | a round of the loop over the rows, its early return, its end |
| `DiffRemoved`, `DiffAdded`, `DiffType`, `DiffDirs`, `DiffData` | a round of `diff_trees`, in its loop or behind it, with `emit_node` or `diff_matched_nodes` |
| `CollectAll`, `DiffReturn` | a round of `collect_all_as`; the end of a call |

A call that is made before another (`Replaced`, a name that turned from a directory into something else or back) is
put on the stack after it.  A tree is the sequence of its nodes with their subtrees in them, so two trees are equal
when their ids are, and the code's comparison of ids is one of values.  Reads of trees succeed: a failing one ends
the query with an error and no result.

`SmbBacking` has `from_repo` and `to_repo` of `smb/name.rs` and `lookup`, `stat`, `list`, `open`, `read_at` of
`smb/backing.rs`, with the nesting in one directory, as functions: a request reads what does not change.
`SmbRequests` has the requests of a client of a share, one at a time.  `TreeQueries` composes them: a query of the
TUI or a request, whatever was asked before.

The properties compare with definitions over sets of paths, which know nothing of the calls, or with the
answers to other requests.

`PreviewRight`: at any time what is shown are entries of the snapshot, each once, in the order of the screen
(`Precedes`) with none of those before left out; in the end all of them, or as many as the limit allows and
then marked as cut.  `DiffRight`: each path once with what became of it (`Became`), also below a name that changed
its type; in the end every path that changed; and at any time the summary's files and bytes are those of the
changes shown.  `ServesTree`: names carry no separator, a listed name opens its own node or none, stat,
list and open agree on each path, and a read gives just the bytes asked for that the file has.

Run `trees` (pass): all pairs of trees with up to two names per directory and paths of up to three names
(`Names`, `MaxLevel`), which has every pair of kinds at a name, a directory below one that changed, and limits met
at each level; names of one and two characters out of one of each kind `SmbBacking` tells apart, in both forms a
repository may have them; requests of up to two components; reads around the end of a file and around the largest
offset.

Observed, and not runs: `truncated` is also set when the limit is reached exactly and an empty directory
is the last entry.  The replacement of a separator by U+FFFD can give a file the name of a sibling, which
then opens in its place.  Two siblings whose names are not UTF-8 may be shown under one name and be
confused wherever nodes are found by name (the details, the share, the refresh), and the diff's merge
assumes that displayed names are in the order of the stored ones; the model's names are unique and ordered.
`name.rs:31` guarantees that encoding a decoded name gives the stored one, which holds because `from_repo` hands
back untouched what does not survive the round trip.

### Proofs (`TreeQueriesProofs.tla`)

`ShowsTheFirst` (`[]PreviewRight`) and `ShowsWhatChanged` (`[]DiffRight`) hold of `WalkSpec` for any trees, of any
width and depth, and any limits.  `TreesAssumption` says what whoever writes a snapshot guarantees: the nodes of a
tree are sorted by name, with each name once, and exactly directories have a subtree; and `MaxLevel`
is a depth that no path exceeds, so that it bounds nothing.  `EachItsOwn` shows that `TreeQueries` implements
`WalkSpec` and `ShareSpec`, and `QueriesAnswered` that all three properties hold in it.

Neither property is inductive: what is shown so far says nothing of what the calls will still show.  The
inductive invariants say it.  Each call on the stack has a path and the names ahead of it (`Ahead`; the rows left,
or what is behind the cursors), and what is to come (`ToVisit`) are the paths that go by such a name.  `Chained`: the path
of a call goes through those of the calls below it on the stack, by names these have behind them.  So what two calls have to come is disjoint, and the round of a call takes from what is to come the paths by one name
(`Visited`) and gives back to a new call those below it (`Called`).

- `PreviewState`: what is shown and what is to come are disjoint, and together the whole snapshot unless the preview
  is cut; and all that precedes an entry that is shown is shown before it.  The last needs that a row goes
  before all that is to come (`Onward`, by the order on paths: `SameSoFar`, `NotAbove`, `NotBefore`).
- `DiffState`: every path that changed is shown or to come, and not both.  A call of `diff_trees` also keeps that the
  names before each cursor are before those ahead of the other (`Before` in `PairCalls`): without it a name
  that both trees have could be reported as removed and then as added (`ComesFirst`, `ComeTogether`).  A call of
  `collect_all_as` keeps that the other snapshot has nothing at its path (`AllCalls`), and a step over a directory
  that both have unchanged needs that nothing below it changed (`SameBelow`).
- `SummaryState`: the counts are the sums over what is shown (`OneCounted`, `TotalAppend`).

`Contents`, the nodes at a path, and `Total` are recursive functions on an index, as are those of `SmbBacking`.

`ServesTheSnapshot` (`[]ServesTree` for `ShareSpec`, the requests without the TUI's queries) holds for trees of any depth, names of any length and requests of any length
up to `MaxDepth`.  It assumes what `RequestsAssumption` says of its constants: whoever writes a tree gives
every directory a subtree and nothing else one, and the library splits a client's path at separators; and
of `Escape` (`NamesAssumption`) that two characters have two escapes, neither of them a backslash, as
in `encode`.  `Bytes` and `ResticQuote` play no part in it: the stored names are arbitrary.

The state invariant is simple (`Answered`: the answer is the function's for the request); the argument is in
the functions.  Decoding, encoding and `lookup` are loops, defined as recursive functions on an index;
`SomeLoop` shows that such a function exists, and `IndexInduction` is induction over the index by sets
instead of predicates.  `DecodedAppend` and `LookupAppend` then say that both go from left to right.
`RoundTrip`: decoding undoes encoding.  With it `MatchIsServed`: any node a separator-free component
matches, quoted or as it is, is served under just that component; `ServedName`: what a row shows has no
separator and matches its own node unless a character was replaced.  Together they are `RowsOpen`.  `KindsAt`
and `PathOf` compare the three operations on one path; reads are arithmetic.

## 11. Proved, checked, left out

Proved: the theorems above, for every value of the constants.  Every safety invariant of the state
machines that a run finds to hold is stated by one, and so are the action properties.  Only model-checked: the finding runs, and all
liveness (`LeaseProgress`, `RunEnds`, `WayOut`, `ServerEnds`), since the prover does not reason about fairness.

Not modelled:

- Rendering (`ui.rs`), cursors, overlays, mouse and text editing: no state the other parts depend on,
  except that a key acts on the row the cursor is on; the models let it be on any row.
- The S3 backend (`s3_backend.rs`) and the REST client: translations of calls; the models assume what they
  promise (strict read-after-write, a call succeeds, fails, or fails and landed).
- Encodings of lock, snapshot and configuration files beyond "readable or not"; TOML; the rules for a good passphrase.
- Parsing of the command line (`cli.rs`) and the form of headless output.
- The development and test harness.
- Threads that cannot be started (`std::thread::spawn` panics) and the process-wide SIGHUP count under two acquiring
  threads: only the main thread acquires.
- The local lock directory's writes by temporary file and rename (step 4).

## 12. Findings

1. `lock.rs:263`: a vanished lock can conflict (run `lock_vanished`).
2. `lock.rs:611`: the poison limit does not see suspended time (run `share_suspended`).
3. `repo.rs:347`: a stale id can be edited from the cache (run `store_stale`).
4. `main.rs:345`: a deletion leaves its details for the next confirmation (run `screens_details`).
