------------------------------ MODULE PruneRun ------------------------------
(***************************************************************************)
(* The prune screen: the main loop (src/main.rs), the worker it starts     *)
(* (src/restic.rs, run_unsticking_locks_streaming), the restic child the   *)
(* worker runs, and Ctrl+C.                                                *)
(*                                                                         *)
(* One worker runs up to two children, one after the other: `restic        *)
(* unlock` when a lock is in the way, then `restic prune`.  They share the *)
(* ChildTracker (latch, slot) with the main loop.                          *)
(***************************************************************************)
EXTENDS Naturals

CONSTANTS
  Cap,    \* what a pipe holds
  MaxOut  \* bound: what a child prints

ASSUME PipeConstants == Cap \in Nat \ {0} /\ MaxOut \in Nat

VARIABLES
  screen,     \* what is shown; of an outcome, what it says
  main,       \* where the main loop is while a prune runs
  asked,      \* prune_cancel_requested
  rx,         \* prune_rx: no channel, an empty one, or what the worker sent
  latch,      \* ChildTracker.cancel_requested
  slot,       \* ChildTracker.pid: the child registered, or "none"
  wpc,        \* where the worker is
  cmd,        \* the command it runs
  result,     \* what the command came to
  child,      \* child[c]: the process of command c
  code,       \* code[c]: how it exited
  signalled,  \* signalled[c]: it was sent a signal
  want,       \* what the running child is about to print to, if anything
  left,       \* how much more it may print
  pipe,       \* pipe["out"], pipe["err"]: what waits in its pipes
  helper,     \* the thread that drains stderr
  repo,       \* who holds the repository's lock
  met         \* another process held it at some time during this run

tui == <<screen, main, asked>>
tracker == <<latch, slot>>
worker == <<wpc, cmd, result, helper>>
procs == <<child, code, signalled, want, left>>
vars == <<tui, rx, tracker, worker, procs, pipe, repo, met>>

Cmd == {"unlock", "prune"}
Stream == {"out", "err"}
Outcome == {"ok", "failed", "locked", "refused"}
Shown == {"done", "cancelled", "failed", "locked", "refused"}

\* Between its registration and the end of its output the worker's child is
\* on the tracker.
Tracked == {"recheck", "deliver", "password", "read", "clear", "drop"}
\* There is a child to wait for.
Attended == Tracked \cup {"register", "wait", "kill"}

Ranges ==
  /\ screen \in Shown \cup {"snapshots", "confirm", "running"}
  /\ main \in {"loop", "poll", "signal"}
  /\ asked \in BOOLEAN
  /\ rx \in Outcome \cup {"none", "empty", "gone"}
  /\ latch \in BOOLEAN
  /\ slot \in Cmd \cup {"none"}
  /\ wpc \in Attended \cup {"none", "detect", "gate", "check", "start", "spawn", "join", "again"}
  /\ cmd \in Cmd
  /\ result \in Outcome
  /\ helper \in {"none", "drain", "done"}
  /\ child \in [Cmd -> {"none", "running", "exited", "reaped"}]
  /\ code \in [Cmd -> {"none", "ok", "failed", "locked"}]
  /\ signalled \in [Cmd -> BOOLEAN]
  /\ want \in Stream \cup {"none"}
  /\ left \in 0..MaxOut
  /\ pipe \in [Stream -> 0..Cap]
  /\ repo \in {"free", "other", "stale", "restic"}
  /\ met \in BOOLEAN

\* What goes with what.
Links ==
  /\ rx = "empty" <=> wpc # "none"
  /\ rx # "none" => screen = "running"
  /\ main # "loop" => rx # "none"
  /\ asked \/ main = "signal" => latch
  /\ slot = IF wpc \in Tracked THEN cmd ELSE "none"
  /\ child[cmd] \in {"running", "exited"} <=> wpc \in Attended
  /\ \A c \in Cmd \ {cmd} : child[c] \in {"none", "reaped"}
  /\ \A c \in Cmd : child[c] = "exited" => code[c] # "none"

\* Types, and: a worker runs exactly while its channel is empty, and the
\* tracker has its child between registration and the end of its output.
TypeOK == Ranges /\ Links

Nobody == [c \in Cmd |-> "none"]
Empty == [s \in Stream |-> 0]

Init ==
  /\ screen = "snapshots" /\ main = "loop" /\ asked = FALSE
  /\ rx = "none"
  /\ latch = FALSE /\ slot = "none"
  /\ wpc = "none" /\ cmd = "prune" /\ result = "ok" /\ helper = "none"
  /\ child = Nobody /\ code = Nobody
  /\ signalled = [c \in Cmd |-> FALSE]
  /\ want = "none" /\ left = 0 /\ pipe = Empty
  /\ repo \in {"free", "other", "stale"}
  /\ met = FALSE

----------------------------------------------------------------------------
(* The main loop. *)

\* `p` in the list, then the answer; any key leaves an outcome.
Key ==
  /\ \/ screen = "snapshots" /\ screen' = "confirm"
     \/ screen = "confirm" /\ screen' \in {"running", "snapshots"}
     \/ screen \in Shown /\ screen' = "snapshots"
  /\ UNCHANGED <<main, asked, rx, tracker, worker, procs, pipe, repo, met>>

\* The worker is started the first time the loop sees the screen, with a
\* tracker of its own.  (The profile is there: it was when the list was
\* shown, and nothing in between changes the profiles.)
StartWorker ==
  /\ screen = "running" /\ rx = "none"
  /\ rx' = "empty"
  /\ asked' = FALSE
  /\ latch' = FALSE /\ slot' = "none"
  /\ wpc' = "detect"
  /\ child' = Nobody /\ code' = Nobody
  /\ signalled' = [c \in Cmd |-> FALSE]
  /\ met' = (repo = "other")
  /\ UNCHANGED <<screen, main, cmd, result, helper, want, left, pipe, repo>>

\* try_recv finds nothing: the loop waits for a key for 150 ms.
Wait ==
  /\ screen = "running" /\ main = "loop" /\ rx = "empty"
  /\ main' = "poll"
  /\ UNCHANGED <<screen, asked, rx, tracker, worker, procs, pipe, repo, met>>

\* No key, or another than Ctrl+C.
Timeout ==
  /\ main = "poll"
  /\ main' = "loop"
  /\ UNCHANGED <<screen, asked, rx, tracker, worker, procs, pipe, repo, met>>

\* Ctrl+C: ChildTracker::interrupt latches the request first.
Press ==
  /\ main = "poll"
  /\ main' = "signal"
  /\ latch' = TRUE
  /\ UNCHANGED <<screen, asked, rx, slot, worker, procs, pipe, repo, met>>

\* ChildTracker::signal, under the lock of the slot.
SendSignal ==
  signalled' = [c \in Cmd |-> signalled[c] \/ c = slot]

\* Then it signals, and the loop notes that the user asked.
Interrupt ==
  /\ main = "signal"
  /\ main' = "loop"
  /\ SendSignal
  /\ asked' = TRUE
  /\ UNCHANGED <<screen, rx, tracker, worker, child, code, want, left, pipe, repo, met>>

\* try_recv finds the outcome, or that the worker died.
Receive ==
  /\ screen = "running" /\ main = "loop" /\ rx \in Outcome \cup {"gone"}
  /\ screen' = IF rx = "ok" THEN "done"
                ELSE IF rx = "gone" THEN "failed"
                ELSE IF asked THEN "cancelled" ELSE rx
  /\ rx' = "none"
  /\ asked' = (asked /\ rx = "gone")
  /\ UNCHANGED <<main, tracker, worker, procs, pipe, repo, met>>

----------------------------------------------------------------------------
(* The worker. *)

Goto(step) == wpc' = step

Report(r) == rx' = r /\ Goto("none")

\* The command r is for has ended: its result goes to the main loop, unless
\* it was an unlock that went well.
EndRun(r) ==
  IF cmd = "unlock" /\ r = "ok" THEN Goto("again") /\ UNCHANGED rx ELSE Report(r)

\* restic::detect.
Detect ==
  /\ wpc = "detect"
  /\ \/ Goto("gate") /\ UNCHANGED rx
     \/ Report("failed")
  /\ UNCHANGED <<tui, tracker, cmd, result, helper, procs, pipe, repo, met>>

\* unstick_if_blocked refuses after a cancel, before it opens the repository.
Gate ==
  /\ wpc = "gate"
  /\ IF latch THEN Report("refused") ELSE Goto("check") /\ UNCHANGED rx
  /\ UNCHANGED <<tui, tracker, cmd, result, helper, procs, pipe, repo, met>>

\* Mutant of Check: restic runs whatever locks there are.
CheckNothing ==
  /\ wpc = "check"
  /\ Goto("start") /\ cmd' = "prune"
  /\ UNCHANGED <<tui, rx, tracker, result, helper, procs, pipe, repo, met>>

\* lock_context and check_blocking_locks.  A check that fails for another
\* reason than a lock is treated like a lock.
Check ==
  /\ wpc = "check"
  /\ \/ repo = "free" /\ Goto("start") /\ cmd' = "prune" /\ UNCHANGED rx
     \/ Goto("start") /\ cmd' = "unlock" /\ UNCHANGED rx
     \/ Report("failed") /\ UNCHANGED cmd
     \/ rx' = "gone" /\ Goto("none") /\ UNCHANGED cmd  \* the library panics
  /\ UNCHANGED <<tui, tracker, result, helper, procs, pipe, repo, met>>

\* The check after the unlock.
Again ==
  /\ wpc = "again"
  /\ \/ repo = "free" /\ Goto("start") /\ cmd' = "prune" /\ UNCHANGED rx
     \/ repo # "free" /\ Report("locked") /\ UNCHANGED cmd
     \/ Report("failed") /\ UNCHANGED cmd
     \/ rx' = "gone" /\ Goto("none") /\ UNCHANGED cmd
  /\ UNCHANGED <<tui, tracker, result, helper, procs, pipe, repo, met>>

\* run_streaming refuses after a cancel.
Start ==
  /\ wpc = "start"
  /\ IF latch THEN Report("refused") ELSE Goto("spawn") /\ UNCHANGED rx
  /\ UNCHANGED <<tui, tracker, cmd, result, helper, procs, pipe, repo, met>>

Spawn ==
  /\ wpc = "spawn"
  /\ child' = [child EXCEPT ![cmd] = "running"]
  /\ want' = "none" /\ left' = MaxOut
  /\ pipe' = Empty
  /\ helper' = "none"
  /\ Goto("register")
  /\ UNCHANGED <<tui, rx, tracker, cmd, result, code, signalled, repo, met>>

SpawnFails ==
  /\ wpc = "spawn"
  /\ Report("failed")
  /\ UNCHANGED <<tui, tracker, cmd, result, helper, procs, pipe, repo, met>>

\* Mutant of Register: the pid is not noted.
RegisterNobody ==
  /\ wpc = "register"
  /\ Goto("recheck")
  /\ UNCHANGED <<tui, rx, tracker, cmd, result, helper, procs, pipe, repo, met>>

Register ==
  /\ wpc = "register"
  /\ slot' = cmd
  /\ Goto("recheck")
  /\ UNCHANGED <<tui, rx, latch, cmd, result, helper, procs, pipe, repo, met>>

\* Mutant of Recheck: the latch is not looked at again.
RecheckNothing ==
  /\ wpc = "recheck"
  /\ Goto("password")
  /\ UNCHANGED <<tui, rx, tracker, cmd, result, helper, procs, pipe, repo, met>>

\* A cancel that came between Start and Register found nobody to signal.
Recheck ==
  /\ wpc = "recheck"
  /\ Goto(IF latch THEN "deliver" ELSE "password")
  /\ UNCHANGED <<tui, rx, tracker, cmd, result, helper, procs, pipe, repo, met>>

Deliver ==
  /\ wpc = "deliver"
  /\ SendSignal
  /\ Goto("password")
  /\ UNCHANGED <<tui, rx, tracker, cmd, result, helper, child, code, want, left,
                 pipe, repo, met>>

\* Mutant of Password: a thread for stderr is not started.
PasswordUndrained ==
  /\ wpc = "password"
  /\ \/ helper' = "done" /\ Goto("read") /\ UNCHANGED result
     \/ result' = "failed" /\ Goto("drop") /\ UNCHANGED helper
  /\ UNCHANGED <<tui, rx, tracker, cmd, procs, pipe, repo, met>>

\* write_password, then the thread that drains stderr is started.
Password ==
  /\ wpc = "password"
  /\ \/ helper' = "drain" /\ Goto("read") /\ UNCHANGED result
     \/ result' = "failed" /\ Goto("drop") /\ UNCHANGED helper
  /\ UNCHANGED <<tui, rx, tracker, cmd, procs, pipe, repo, met>>

Closed == child[cmd] # "running"

\* A chunk of stdout, or its end.
Read ==
  /\ wpc = "read"
  /\ \/ /\ pipe["out"] > 0
        /\ pipe' = [pipe EXCEPT !["out"] = @ - 1]
        /\ UNCHANGED wpc
     \/ /\ pipe["out"] = 0 /\ Closed
        /\ Goto("clear")
        /\ UNCHANGED pipe
  /\ UNCHANGED <<tui, rx, tracker, cmd, result, helper, procs, repo, met>>

ReadFails ==
  /\ wpc = "read"
  /\ result' = "failed" /\ Goto("drop")
  /\ UNCHANGED <<tui, rx, tracker, cmd, helper, procs, pipe, repo, met>>

\* Mutant of Clear: the child is reaped first and forgotten then.
ClearLate ==
  /\ wpc = "clear"
  /\ Goto("wait")
  /\ UNCHANGED <<tui, rx, tracker, cmd, result, helper, procs, pipe, repo, met>>

\* tracker.clear, then wait.
Clear ==
  /\ wpc = "clear"
  /\ slot' = "none"
  /\ Goto("wait")
  /\ UNCHANGED <<tui, rx, latch, cmd, result, helper, procs, pipe, repo, met>>

WaitChild ==
  /\ wpc = "wait"
  /\ Closed
  /\ child' = [child EXCEPT ![cmd] = "reaped"]
  /\ result' = code[cmd]
  /\ Goto("join")
  /\ UNCHANGED <<tui, rx, tracker, cmd, helper, code, signalled, want, left, pipe, repo, met>>

WaitFails ==
  /\ wpc = "wait"
  /\ result' = "failed" /\ Goto("kill")
  /\ UNCHANGED <<tui, rx, tracker, cmd, helper, procs, pipe, repo, met>>

\* The closure `reap`: tracker.clear, kill, wait.
Drop ==
  /\ wpc = "drop"
  /\ slot' = "none"
  /\ Goto("kill")
  /\ UNCHANGED <<tui, rx, latch, cmd, result, helper, procs, pipe, repo, met>>

\* What a process leaves behind that dies with the lock.
Orphaned == IF cmd = "prune" /\ repo = "restic" THEN "stale" ELSE repo

Kill ==
  /\ wpc = "kill"
  /\ child' = [child EXCEPT ![cmd] = "reaped"]
  /\ IF Closed THEN UNCHANGED <<code, repo>>
               ELSE code' = [code EXCEPT ![cmd] = "failed"] /\ repo' = Orphaned
  /\ Goto("join")
  /\ UNCHANGED <<tui, rx, tracker, cmd, result, helper, signalled, want, left, pipe, met>>

\* Mutant of Join: an unlock that went well ends the run like a prune.
JoinUnlockEnds ==
  /\ wpc = "join"
  /\ helper # "drain"
  /\ slot' = "none"
  /\ Report(result)
  /\ UNCHANGED <<tui, latch, cmd, result, helper, procs, pipe, repo, met>>

\* The thread is joined (if there is one) and the tracker cleared once more.
Join ==
  /\ wpc = "join"
  /\ helper # "drain"
  /\ slot' = "none"
  /\ EndRun(result)
  /\ UNCHANGED <<tui, latch, cmd, result, helper, procs, pipe, repo, met>>

\* The thread reads stderr to its end.
Drain ==
  /\ helper = "drain"
  /\ \/ /\ pipe["err"] > 0
        /\ pipe' = [pipe EXCEPT !["err"] = @ - 1]
        /\ UNCHANGED helper
     \/ /\ pipe["err"] = 0 /\ Closed
        /\ helper' = "done"
        /\ UNCHANGED pipe
  /\ UNCHANGED <<tui, rx, tracker, wpc, cmd, result, procs, repo, met>>

----------------------------------------------------------------------------
(* restic, as far as the harness can tell. *)

\* It is going to print something, to stdout or stderr.
Want(s) ==
  /\ child[cmd] = "running" /\ want = "none" /\ left > 0
  /\ want' = s /\ left' = left - 1
  /\ UNCHANGED <<tui, rx, tracker, worker, child, code, signalled, pipe, repo, met>>

\* It waits until there is room.
Emit ==
  /\ child[cmd] = "running" /\ want # "none" /\ pipe[want] < Cap
  /\ pipe' = [pipe EXCEPT ![want] = @ + 1]
  /\ want' = "none"
  /\ UNCHANGED <<tui, rx, tracker, worker, child, code, signalled, left, repo, met>>

Exit(how) ==
  /\ child' = [child EXCEPT ![cmd] = "exited"]
  /\ code' = [code EXCEPT ![cmd] = how]
  /\ want' = "none"
  /\ UNCHANGED <<tui, rx, tracker, worker, signalled, left, pipe, met>>

\* prune takes the repository's lock first.
TakeLock ==
  /\ child["prune"] = "running" /\ want = "none" /\ repo = "free"
  /\ repo' = "restic"
  /\ UNCHANGED <<tui, rx, tracker, worker, procs, pipe, met>>

FindLocked ==
  /\ child["prune"] = "running" /\ want = "none" /\ repo \in {"other", "stale"}
  /\ Exit("locked") /\ UNCHANGED repo

\* It finishes its work; unlock removes locks of dead processes.
Finish ==
  /\ child[cmd] = "running" /\ want = "none"
  /\ \/ cmd = "prune" /\ repo = "restic" /\ repo' = "free"
     \/ cmd = "unlock" /\ repo' = IF repo = "stale" THEN "free" ELSE repo
  /\ Exit("ok")

\* It gives up, cleaning up: by itself, or on a signal wherever it is.
GiveUp ==
  /\ child[cmd] = "running"
  /\ want = "none" \/ signalled[cmd]
  /\ repo' = IF cmd = "prune" /\ repo = "restic" THEN "free" ELSE repo
  /\ Exit("failed")

\* The signal ends it on the spot (TerminateProcess; SIGINT before the
\* handler is installed).
Die ==
  /\ child[cmd] = "running" /\ signalled[cmd]
  /\ repo' = Orphaned
  /\ Exit("failed")

\* Other processes lock the repository, and unlock it or die.
Other ==
  /\ \/ repo = "free" /\ repo' = "other" /\ met' = TRUE
     \/ repo = "other" /\ repo' \in {"free", "stale"} /\ UNCHANGED met
  /\ UNCHANGED <<tui, rx, tracker, worker, procs, pipe>>

----------------------------------------------------------------------------
Screen == StartWorker \/ Wait \/ Timeout \/ Interrupt \/ Receive

Before == Detect \/ Gate \/ Check \/ Again \/ Start

Run ==
  \/ Spawn \/ SpawnFails \/ Register \/ Recheck \/ Deliver \/ Password \/ Read \/ Clear
  \/ WaitChild \/ Drop \/ Kill \/ Join

Printing == Emit \/ \E s \in Stream : Want(s)

Ending == FindLocked \/ Finish \/ GiveUp \/ Die

Next ==
  \/ Key \/ Press \/ Screen
  \/ Before \/ Run \/ Drain \/ ReadFails \/ WaitFails
  \/ Printing \/ TakeLock \/ Ending
  \/ Other

\* The main loop and the worker's threads go on, and a call of theirs ends.
\* restic may take for ever, but not once it was signalled.
Progress ==
  /\ WF_vars(Screen)
  /\ WF_vars(Before \/ Run)
  /\ WF_vars(Drain)
  /\ WF_vars(Ending /\ signalled[cmd])

Spec == Init /\ [][Next]_vars /\ Progress

----------------------------------------------------------------------------
(* Properties. *)

\* No cancel is lost between the latch and the signal: once Ctrl+C was
\* handled, a child that runs and is registered has the signal or gets it next.
CancelDelivered ==
  asked /\ wpc \in {"password", "read"} => signalled[cmd]

\* A signal can only hit a child that was not reaped, so never another
\* process that got its pid.
TrackedUnreaped == slot # "none" => child[slot] \in {"running", "exited"}

\* On every path, also failing ones, no child runs on or stays a zombie once
\* the worker has ended.
NoChildLeft == wpc = "none" => \A c \in Cmd : child[c] \in {"none", "reaped"}

\* So the children are ours while signals can reach them, and gone afterwards.
ChildrenHeld == TrackedUnreaped /\ NoChildLeft

\* The report is about the prune of this run, and a run that was refused
\* because of a cancel is shown as cancelled.
ReportTrue == (screen = "done" => code["prune"] = "ok") /\ screen # "refused"

\* A lock a killed prune left behind never makes a later prune report that
\* the repository is locked: only other processes do.
NotStuck == screen = "locked" => met

\* A prune comes to an end if restic does, which ends when it is not kept from
\* printing.
PruneEnds ==
  WF_vars(Printing) /\ WF_vars(Ending) => ((screen = "running") ~> (screen # "running"))

\* So does a cancelled one, also when restic would not end by itself.
CancelEnds == (main = "signal") ~> (screen # "running")

\* So a run ends.
RunEnds == PruneEnds /\ CancelEnds
=============================================================================
