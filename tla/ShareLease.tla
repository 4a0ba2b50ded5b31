----------------------------- MODULE ShareLease -----------------------------
(***************************************************************************)
(* The one long-running holder of a repository lock: the SMB share         *)
(* (src/smb/mod.rs, src/app.rs).  It serves a snapshot under a shared lock *)
(* that its refresher thread renews (src/lock.rs); the main loop asks      *)
(* RepoLock::poisoned once a second and stops the server when the lock     *)
(* went too long without a refresh, before others may take it for stale.   *)
(*                                                                         *)
(* Two clocks matter.  Other processes judge the lock file by the wall     *)
(* clock (LockData::is_stale); the refresher's timer and last_refresh are  *)
(* monotonic (Instant) and stand still while the machine is suspended.     *)
(* A tick is far longer than the poll period; all ages are in ticks, each  *)
(* counted up to the first value its comparison tells apart.               *)
(***************************************************************************)
EXTENDS Naturals

CONSTANTS
  RefreshInterval,  \* REFRESH_INTERVAL
  StaleTimeout,     \* STALE_TIMEOUT_SECS
  MaxLag,           \* bound: ticks from stamping a lock to noting it written
  MaxOpen,          \* bound: ticks from acquiring the lock to serving
  MaxSuspend        \* bound: ticks the machine is suspended under one lock

\* refreshability_timeout.
PoisonAfter == (RefreshInterval * 9) \div 2

ASSUME ConstantsOK ==
  /\ RefreshInterval \in Nat \ {0}
  /\ StaleTimeout \in Nat
  /\ MaxLag \in Nat
  /\ MaxOpen \in Nat
  /\ MaxSuspend \in Nat

VARIABLES
  share,      \* the share: "off", "opening", "serving" or "stopping"
  stamp,      \* wall-clock age of the current lock file's timestamp
  live,       \* the current lock file is in locks/
  ref,        \* the refresher: "timer", "write" or "remove"
  nstamp,     \* age of the timestamp of the file a refresh is writing, or 0
  nlive,      \* that file is in locks/
  wait,       \* how long the refresher's timer has run
  elapsed,    \* LockShared.last_refresh.elapsed()
  poisoned,   \* LockShared.poisoned
  due,        \* the main loop has yet to poll in this tick
  opened,     \* how long opening has taken
  failed,     \* refreshes that failed since the last success, up to 2
  overtaken,  \* another process took an exclusive lock under this share
  slept       \* ticks suspended under this lock

vars == <<share, stamp, live, ref, nstamp, nlive, wait, elapsed, poisoned,
          due, opened, failed, overtaken, slept>>
lockVars == <<stamp, live, ref, nstamp, nlive, wait, failed>>

Held == share # "off"

\* TypeOK: ages and counters are in range, the flags are flags, and the
\* refresher and the poll are at work only where there is a lock and a server.
Ranges ==
  /\ share \in {"off", "opening", "serving", "stopping"}
  /\ ref \in {"timer", "write", "remove"}
  /\ {stamp, nstamp} \subseteq 0..StaleTimeout + 1
  /\ wait \in 0..RefreshInterval
  /\ elapsed \in 0..PoisonAfter + 1
  /\ opened \in 0..MaxOpen
  /\ failed \in 0..2
  /\ slept \in 0..MaxSuspend

Flags == {live, nlive, poisoned, due, overtaken} \subseteq BOOLEAN

Links ==
  /\ nlive => ref = "remove"
  /\ ref # "timer" => Held
  /\ ref = "timer" => nstamp = 0
  /\ due => share = "serving"

TypeOK == Ranges /\ Flags /\ Links

Init ==
  /\ share = "off"
  /\ stamp = 0
  /\ live = FALSE
  /\ ref = "timer"
  /\ nstamp = 0
  /\ nlive = FALSE
  /\ wait = 0
  /\ elapsed = 0
  /\ poisoned = FALSE
  /\ due = FALSE
  /\ opened = 0
  /\ failed = 0
  /\ overtaken = FALSE
  /\ slept = 0

----------------------------------------------------------------------------
UpTo(n, bound) == IF n <= bound THEN n ELSE bound
WallAge(age, d) == UpTo(age + d, StaleTimeout + 1)

----------------------------------------------------------------------------
(* The main thread. *)

\* start_smb_share: the shared lock is acquired before the index loads.  The
\* file was stamped before it was written and re-checked; last_refresh is
\* taken after that.
Acquire ==
  /\ share = "off"
  /\ share' = "opening"
  /\ \E lag \in 0..MaxLag : stamp' = WallAge(0, lag)
  /\ live' = TRUE
  /\ wait' = 0
  /\ elapsed' = 0
  /\ poisoned' = FALSE
  /\ opened' = 0
  /\ failed' = 0
  /\ overtaken' = FALSE
  /\ slept' = 0
  /\ UNCHANGED <<ref, nstamp, nlive, due>>

\* Loading the index, looking up the snapshot or binding the port fails:
\* the error path drops the lock.
OpenFails ==
  /\ share = "opening"
  /\ share' = "stopping"
  /\ UNCHANGED <<lockVars, elapsed, poisoned, due, opened, overtaken, slept>>

StartServing ==
  /\ share = "opening"
  /\ share' = "serving"
  /\ due' = TRUE
  /\ UNCHANGED <<lockVars, elapsed, poisoned, opened, overtaken, slept>>

\* Mutant of Poisoned: the limit is the lock's own expiry.
PoisonedAtExpiry == poisoned \/ elapsed > StaleTimeout

\* RepoLock::poisoned, as one call finds it.
Poisoned == poisoned \/ elapsed > PoisonAfter

\* poll_smb_lock: a poisoned lock stops the server, and then is dropped.
Poll ==
  /\ share = "serving"
  /\ poisoned' = Poisoned
  /\ due' = FALSE
  /\ share' = IF Poisoned THEN "stopping" ELSE "serving"
  /\ UNCHANGED <<lockVars, elapsed, opened, overtaken, slept>>

\* The user leaves the screen (stop_smb_share), or too many logons were
\* refused (poll_smb_logons): the server stops.
StopServing ==
  /\ share = "serving"
  /\ share' = "stopping"
  /\ due' = FALSE
  /\ UNCHANGED <<lockVars, elapsed, poisoned, opened, overtaken, slept>>

\* Mutant of DropLock: Drop does not join the refresher.
DropLockUnjoined ==
  /\ share = "stopping"
  /\ share' = "off"
  /\ live' = FALSE /\ poisoned' = FALSE /\ overtaken' = FALSE
  /\ stamp' = 0 /\ wait' = 0 /\ elapsed' = 0
  /\ opened' = 0 /\ failed' = 0 /\ slept' = 0
  /\ UNCHANGED <<ref, nstamp, nlive, due>>

\* Drop has joined the refresher and removes the lock file; the lock's state
\* goes with it.
DropLock ==
  /\ share = "stopping"
  /\ ref = "timer"
  /\ share' = "off"
  /\ live' = FALSE /\ poisoned' = FALSE /\ overtaken' = FALSE
  /\ stamp' = 0 /\ wait' = 0 /\ elapsed' = 0
  /\ opened' = 0 /\ failed' = 0 /\ slept' = 0
  /\ UNCHANGED <<ref, nstamp, nlive, due>>

----------------------------------------------------------------------------
(* The refresher thread. *)

\* Mutant of RefreshStart: the refresher does not look at the stop flag.
RefreshStartUnstopped ==
  /\ Held
  /\ ref = "timer"
  /\ wait = RefreshInterval
  /\ ref' = "write"
  /\ nstamp' = 0
  /\ UNCHANGED <<share, stamp, live, nlive, wait, elapsed, poisoned, due,
                 opened, failed, overtaken, slept>>

\* The interval is over and nobody asked to stop: a lock is stamped now.
RefreshStart ==
  /\ share \in {"opening", "serving"}
  /\ ref = "timer"
  /\ wait = RefreshInterval
  /\ ref' = "write"
  /\ nstamp' = 0
  /\ UNCHANGED <<share, stamp, live, nlive, wait, elapsed, poisoned, due,
                 opened, failed, overtaken, slept>>

RefreshWrite ==
  /\ ref = "write"
  /\ ref' = "remove"
  /\ nlive' = TRUE
  /\ UNCHANGED <<share, stamp, live, nstamp, wait, elapsed, poisoned, due,
                 opened, failed, overtaken, slept>>

\* The write fails: the next try is a full interval away.
RefreshFails ==
  /\ ref = "write"
  /\ ref' = "timer"
  /\ wait' = 0
  /\ nstamp' = 0
  /\ failed' = UpTo(failed + 1, 2)
  /\ UNCHANGED <<share, stamp, live, nlive, elapsed, poisoned, due,
                 opened, overtaken, slept>>

\* Mutant of RefreshDone: last_refresh is not updated.
RefreshDoneUnnoted ==
  /\ ref = "remove"
  /\ ref' = "timer"
  /\ stamp' = nstamp
  /\ live' = nlive
  /\ nstamp' = 0
  /\ nlive' = FALSE
  /\ wait' = 0
  /\ failed' = 0
  /\ UNCHANGED <<share, elapsed, poisoned, due, opened, overtaken, slept>>

\* The old file is removed; the new one is current and last_refresh is now.
RefreshDone ==
  /\ ref = "remove"
  /\ ref' = "timer"
  /\ stamp' = nstamp
  /\ live' = nlive
  /\ nstamp' = 0
  /\ nlive' = FALSE
  /\ wait' = 0
  /\ elapsed' = 0
  /\ failed' = 0
  /\ UNCHANGED <<share, poisoned, due, opened, overtaken, slept>>

----------------------------------------------------------------------------
(* Everyone else, and time. *)

\* An unlock elsewhere finds a lock file older than StaleTimeout.
RemoveStale ==
  /\ \/ live /\ stamp > StaleTimeout /\ live' = FALSE /\ UNCHANGED nlive
     \/ nlive /\ nstamp > StaleTimeout /\ nlive' = FALSE /\ UNCHANGED live
  /\ UNCHANGED <<share, stamp, ref, nstamp, wait, elapsed, poisoned, due,
                 opened, failed, overtaken, slept>>

\* A process that wants an exclusive lock finds no lock file of the share.
\* What it then deletes may be what the share serves.
Overtake ==
  /\ Held /\ ~live /\ ~nlive
  /\ overtaken' = TRUE
  /\ UNCHANGED <<share, lockVars, elapsed, poisoned, due, opened, slept>>

\* A tick passes on both clocks.  In it the main loop polls a served share
\* (once a second), a due timer fires, and the bounds on writes and opening
\* are kept.
Tick ==
  /\ Held
  /\ ~due
  /\ share \in {"opening", "serving"} /\ ref = "timer" => wait < RefreshInterval
  /\ ref # "timer" => nstamp < MaxLag
  /\ share = "opening" => opened < MaxOpen
  /\ stamp' = WallAge(stamp, 1)
  /\ nstamp' = IF ref = "timer" THEN 0 ELSE WallAge(nstamp, 1)
  /\ wait' = UpTo(wait + 1, RefreshInterval)
  /\ elapsed' = UpTo(elapsed + 1, PoisonAfter + 1)
  /\ opened' = IF share = "opening" THEN opened + 1 ELSE opened
  /\ due' = (share = "serving")
  /\ UNCHANGED <<share, live, ref, nlive, poisoned, failed, overtaken, slept>>

\* The machine is suspended for d ticks: only the wall clock goes on.  The loop
\* polls within a second of resuming.
Suspend(d) ==
  /\ Held
  /\ slept + d <= MaxSuspend
  /\ slept' = slept + d
  /\ stamp' = WallAge(stamp, d)
  /\ nstamp' = IF ref = "timer" THEN 0 ELSE WallAge(nstamp, d)
  /\ due' = (share = "serving")
  /\ UNCHANGED <<share, live, ref, nlive, wait, elapsed, poisoned,
                 opened, failed, overtaken>>

Main == Acquire \/ OpenFails \/ StartServing \/ Poll \/ StopServing \/ DropLock
Refresher == RefreshStart \/ RefreshWrite \/ RefreshFails \/ RefreshDone

Next ==
  \/ Main
  \/ Refresher
  \/ RemoveStale
  \/ Overtake
  \/ Tick
  \/ \E d \in 1..MaxSuspend : Suspend(d)

Spec == Init /\ [][Next]_vars

\* Time passes; the main loop polls; the refresher is scheduled and its
\* writes end; a drop completes.
FairSpec ==
  /\ Spec
  /\ WF_vars(Tick)
  /\ WF_vars(Poll)
  /\ WF_vars(Refresher)
  /\ WF_vars(DropLock)

----------------------------------------------------------------------------
(* Properties. *)

\* What opening and suspensions took under this lock leaves enough of its life:
\* a lock refreshed too late is noticed, and one whose index was loading is
\* young enough, before it can be taken for stale.
InTime ==
  /\ PoisonAfter + 1 + MaxLag + slept <= StaleTimeout
  /\ opened + MaxLag + slept <= StaleTimeout

\* The share is never served once another process could have taken an
\* exclusive lock under it ("the repository is never served unlocked",
\* SmbHandle), unless opening it or suspensions took too long: by the time the
\* lock file can be taken for stale the main loop has polled a poisoned lock
\* and stopped the server.
NeverServedUnlocked == share = "serving" /\ InTime => ~overtaken

\* A share that was polled since time last passed, awake or suspended, and goes
\* on serving is not overtaken.
ServedAfterPoll == share = "serving" /\ ~due => ~overtaken

\* A single failed refresh never costs the user the share: a lock gets
\* poisoned only when at least the last two refreshes failed.
NoSpuriousStop == [][~poisoned /\ poisoned' => failed = 2]_vars

\* A served share is refreshed again and again, or stops.
RefreshedOrStopped == []<>(share # "serving" \/ elapsed = 0)

\* Stopping ends: the refresher never keeps Drop waiting for ever.
StopEnds == share = "stopping" ~> share = "off"

\* So a share is refreshed, or it stops and is gone.
LeaseProgress == RefreshedOrStopped /\ StopEnds
=============================================================================
