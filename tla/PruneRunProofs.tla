--------------------------- MODULE PruneRunProofs ---------------------------
(* Proofs about PruneRun, for any pipe capacity and any amount of output. *)
EXTENDS PruneRun, TLAPS

LEMMA InitType == Init => TypeOK
<1>1. ASSUME Init PROVE Ranges
  <2>1. asked \in BOOLEAN /\ latch \in BOOLEAN /\ met \in BOOLEAN
    BY <1>1, Zenon DEF Init
  <2>2. pipe \in [Stream -> 0..Cap] /\ left \in 0..MaxOut
    BY <1>1, PipeConstants DEF Init, Empty
  <2> QED
    BY <1>1, <2>1, <2>2 DEF Init, Ranges, Outcome, Cmd, Nobody
<1>2. Init => Links
  BY DEF Init, Links, Attended, Tracked, Cmd, Nobody
<1> QED
  BY <1>1, <1>2 DEF TypeOK

LEMMA RangesStep == TypeOK /\ [Next]_vars => Ranges'
<1> USE DEF tui, tracker, worker, procs, TypeOK, Links, Ranges, Attended, Tracked,
  Outcome, Shown, Cmd, Stream
<1>1. ASSUME TypeOK, Key PROVE Ranges'
  BY <1>1, PipeConstants DEF Key
<1>2. ASSUME TypeOK, StartWorker PROVE Ranges'
  BY <1>2, PipeConstants DEF StartWorker, Nobody
<1>3. ASSUME TypeOK, Wait PROVE Ranges'
  BY <1>3, PipeConstants DEF Wait
<1>4. ASSUME TypeOK, Timeout PROVE Ranges'
  BY <1>4, PipeConstants DEF Timeout
<1>5. ASSUME TypeOK, Press PROVE Ranges'
  BY <1>5, PipeConstants DEF Press
<1>6. ASSUME TypeOK, Interrupt PROVE Ranges'
  BY <1>6, PipeConstants DEF Interrupt, SendSignal
<1>7. ASSUME TypeOK, Receive PROVE Ranges'
  BY <1>7, PipeConstants DEF Receive
<1>8. ASSUME TypeOK, Detect PROVE Ranges'
  BY <1>8, PipeConstants DEF Detect, Goto, Report
<1>9. ASSUME TypeOK, Gate PROVE Ranges'
  BY <1>9, PipeConstants DEF Gate, Goto, Report
<1>10. ASSUME TypeOK, Check PROVE Ranges'
  BY <1>10, PipeConstants DEF Check, Goto, Report
<1>11. ASSUME TypeOK, Again PROVE Ranges'
  BY <1>11, PipeConstants DEF Again, Goto, Report
<1>12. ASSUME TypeOK, Start PROVE Ranges'
  BY <1>12, PipeConstants DEF Start, Goto, Report
<1>13. ASSUME TypeOK, Spawn PROVE Ranges'
  BY <1>13, PipeConstants DEF Spawn, Goto, Empty
<1>14. ASSUME TypeOK, SpawnFails PROVE Ranges'
  BY <1>14, PipeConstants DEF SpawnFails, Goto, Report
<1>15. ASSUME TypeOK, Register PROVE Ranges'
  BY <1>15, PipeConstants DEF Register, Goto
<1>16. ASSUME TypeOK, Recheck PROVE Ranges'
  BY <1>16, PipeConstants DEF Recheck, Goto
<1>17. ASSUME TypeOK, Deliver PROVE Ranges'
  BY <1>17, PipeConstants DEF Deliver, Goto, SendSignal
<1>18. ASSUME TypeOK, Password PROVE Ranges'
  BY <1>18, PipeConstants DEF Password, Goto
<1>19. ASSUME TypeOK, Read PROVE Ranges'
  BY <1>19, PipeConstants DEF Read, Goto, Closed
<1>20. ASSUME TypeOK, ReadFails PROVE Ranges'
  BY <1>20, PipeConstants DEF ReadFails, Goto
<1>21. ASSUME TypeOK, Clear PROVE Ranges'
  BY <1>21, PipeConstants DEF Clear, Goto
<1>22. ASSUME TypeOK, WaitChild PROVE Ranges'
  BY <1>22, PipeConstants DEF WaitChild, Goto, Closed
<1>23. ASSUME TypeOK, WaitFails PROVE Ranges'
  BY <1>23, PipeConstants DEF WaitFails, Goto
<1>24. ASSUME TypeOK, Drop PROVE Ranges'
  BY <1>24, PipeConstants DEF Drop, Goto
<1>25. ASSUME TypeOK, Kill PROVE Ranges'
  BY <1>25, PipeConstants DEF Kill, Goto, Closed, Orphaned
<1>26. ASSUME TypeOK, Join PROVE Ranges'
  BY <1>26, PipeConstants DEF Join, Goto, Report, EndRun
<1>27. ASSUME TypeOK, Drain PROVE Ranges'
  BY <1>27, PipeConstants DEF Drain, Closed
<1>28. ASSUME TypeOK, Emit PROVE Ranges'
  BY <1>28, PipeConstants DEF Emit
<1>29. ASSUME TypeOK, TakeLock PROVE Ranges'
  BY <1>29, PipeConstants DEF TakeLock
<1>30. ASSUME TypeOK, FindLocked PROVE Ranges'
  BY <1>30, PipeConstants DEF FindLocked, Exit
<1>31. ASSUME TypeOK, Finish PROVE Ranges'
  BY <1>31, PipeConstants DEF Finish, Exit
<1>32. ASSUME TypeOK, GiveUp PROVE Ranges'
  BY <1>32, PipeConstants DEF GiveUp, Exit
<1>33. ASSUME TypeOK, Die PROVE Ranges'
  BY <1>33, PipeConstants DEF Die, Exit, Orphaned
<1>34. ASSUME TypeOK, Other PROVE Ranges'
  <2>1. met' \in BOOLEAN
    BY <1>34, Zenon DEF Other
  <2>2. repo' \in {"free", "other", "stale", "restic"}
    BY <1>34 DEF Other
  <2>3. UNCHANGED <<tui, rx, tracker, worker, procs, pipe>>
    BY <1>34 DEF Other
  <2> QED
    BY <1>34, <2>1, <2>2, <2>3
<1>35. ASSUME TypeOK, NEW s \in Stream, Want(s) PROVE Ranges'
  BY <1>35, PipeConstants DEF Want
<1>36. ASSUME TypeOK, UNCHANGED vars PROVE Ranges'
  BY <1>36 DEF vars
<1> QED
  BY <1>1, <1>2, <1>3, <1>4, <1>5, <1>6, <1>7, <1>8, <1>9, <1>10, <1>11, <1>12, <1>13,
    <1>14, <1>15, <1>16, <1>17, <1>18, <1>19, <1>20, <1>21, <1>22, <1>23, <1>24,
    <1>25, <1>26, <1>27, <1>28, <1>29, <1>30, <1>31, <1>32, <1>33, <1>34, <1>35, <1>36
    DEF Next, Screen, Before, Run, Printing, Ending

LEMMA LinksStep == TypeOK /\ [Next]_vars => Links'
<1> USE DEF tui, tracker, worker, procs, TypeOK, Links, Ranges, Attended, Tracked,
  Outcome, Shown, Cmd, Stream
<1>1. ASSUME TypeOK, Key PROVE Links'
  BY <1>1 DEF Key
<1>2. ASSUME TypeOK, StartWorker PROVE Links'
  BY <1>2 DEF StartWorker, Nobody
<1>3. ASSUME TypeOK, Wait PROVE Links'
  BY <1>3 DEF Wait
<1>4. ASSUME TypeOK, Timeout PROVE Links'
  BY <1>4 DEF Timeout
<1>5. ASSUME TypeOK, Press PROVE Links'
  BY <1>5 DEF Press
<1>6. ASSUME TypeOK, Interrupt PROVE Links'
  BY <1>6 DEF Interrupt, SendSignal
<1>7. ASSUME TypeOK, Receive PROVE Links'
  BY <1>7 DEF Receive
<1>8. ASSUME TypeOK, Detect PROVE Links'
  BY <1>8 DEF Detect, Goto, Report
<1>9. ASSUME TypeOK, Gate PROVE Links'
  BY <1>9 DEF Gate, Goto, Report
<1>10. ASSUME TypeOK, Check PROVE Links'
  BY <1>10 DEF Check, Goto, Report
<1>11. ASSUME TypeOK, Again PROVE Links'
  BY <1>11 DEF Again, Goto, Report
<1>12. ASSUME TypeOK, Start PROVE Links'
  BY <1>12 DEF Start, Goto, Report
<1>13. ASSUME TypeOK, Spawn PROVE Links'
  BY <1>13 DEF Spawn, Goto, Empty
<1>14. ASSUME TypeOK, SpawnFails PROVE Links'
  BY <1>14 DEF SpawnFails, Goto, Report
<1>15. ASSUME TypeOK, Register PROVE Links'
  BY <1>15 DEF Register, Goto
<1>16. ASSUME TypeOK, Recheck PROVE Links'
  BY <1>16 DEF Recheck, Goto
<1>17. ASSUME TypeOK, Deliver PROVE Links'
  BY <1>17 DEF Deliver, Goto, SendSignal
<1>18. ASSUME TypeOK, Password PROVE Links'
  BY <1>18 DEF Password, Goto
<1>19. ASSUME TypeOK, Read PROVE Links'
  BY <1>19 DEF Read, Goto, Closed
<1>20. ASSUME TypeOK, ReadFails PROVE Links'
  BY <1>20 DEF ReadFails, Goto
<1>21. ASSUME TypeOK, Clear PROVE Links'
  BY <1>21 DEF Clear, Goto
<1>22. ASSUME TypeOK, WaitChild PROVE Links'
  BY <1>22 DEF WaitChild, Goto, Closed
<1>23. ASSUME TypeOK, WaitFails PROVE Links'
  BY <1>23 DEF WaitFails, Goto
<1>24. ASSUME TypeOK, Drop PROVE Links'
  BY <1>24 DEF Drop, Goto
<1>25. ASSUME TypeOK, Kill PROVE Links'
  BY <1>25 DEF Kill, Goto, Closed, Orphaned
<1>26. ASSUME TypeOK, Join PROVE Links'
  BY <1>26 DEF Join, Goto, Report, EndRun
<1>27. ASSUME TypeOK, Drain PROVE Links'
  BY <1>27 DEF Drain, Closed
<1>28. ASSUME TypeOK, Emit PROVE Links'
  BY <1>28 DEF Emit
<1>29. ASSUME TypeOK, TakeLock PROVE Links'
  BY <1>29 DEF TakeLock
<1>30. ASSUME TypeOK, FindLocked PROVE Links'
  BY <1>30 DEF FindLocked, Exit
<1>31. ASSUME TypeOK, Finish PROVE Links'
  BY <1>31 DEF Finish, Exit
<1>32. ASSUME TypeOK, GiveUp PROVE Links'
  BY <1>32 DEF GiveUp, Exit
<1>33. ASSUME TypeOK, Die PROVE Links'
  BY <1>33 DEF Die, Exit, Orphaned
<1>34. ASSUME TypeOK, Other PROVE Links'
  BY <1>34 DEF Other
<1>35. ASSUME TypeOK, NEW s \in Stream, Want(s) PROVE Links'
  BY <1>35 DEF Want
<1>36. ASSUME TypeOK, UNCHANGED vars PROVE Links'
  BY <1>36 DEF vars
<1> QED
  BY <1>1, <1>2, <1>3, <1>4, <1>5, <1>6, <1>7, <1>8, <1>9, <1>10, <1>11, <1>12, <1>13,
    <1>14, <1>15, <1>16, <1>17, <1>18, <1>19, <1>20, <1>21, <1>22, <1>23, <1>24,
    <1>25, <1>26, <1>27, <1>28, <1>29, <1>30, <1>31, <1>32, <1>33, <1>34, <1>35, <1>36
    DEF Next, Screen, Before, Run, Printing, Ending

\* The worker, its channel, its child and the tracker stay in step.
THEOREM TypeCorrect == Spec => []TypeOK
<1>1. TypeOK /\ [Next]_vars => TypeOK'
  BY RangesStep, LinksStep DEF TypeOK
<1> QED
  BY <1>1, InitType, PTL DEF Spec

\* No signal is ever sent to the pid of a child that was reaped.
THEOREM OnlyOurChildren == Spec => []TrackedUnreaped
<1>1. TypeOK => TrackedUnreaped
  BY DEF TypeOK, Links, TrackedUnreaped, Attended
<1> QED
  BY <1>1, TypeCorrect, PTL

\* However a run ends, its children are gone.
THEOREM ChildrenGone == Spec => []NoChildLeft
<1>1. TypeOK => NoChildLeft
  BY DEF TypeOK, Ranges, Links, NoChildLeft, Attended, Tracked, Cmd
<1> QED
  BY <1>1, TypeCorrect, PTL

\* Signals reach our children only, and none is left behind.
THEOREM ChildrenAreHeld == Spec => []ChildrenHeld
<1>1. TrackedUnreaped /\ NoChildLeft => ChildrenHeld
  BY DEF ChildrenHeld
<1> QED
  BY <1>1, OnlyOurChildren, ChildrenGone, PTL

----------------------------------------------------------------------------
(* A cancel is not lost. *)

LEMMA CancelStep == TypeOK /\ CancelDelivered /\ [Next]_vars => CancelDelivered'
<1> USE DEF tui, tracker, worker, procs, CancelDelivered, TypeOK, Links, Ranges,
  Attended, Tracked, Outcome, Shown, Cmd, Stream
<1>1. ASSUME TypeOK, CancelDelivered, Key PROVE CancelDelivered'
  BY <1>1 DEF Key
<1>2. ASSUME TypeOK, CancelDelivered, StartWorker PROVE CancelDelivered'
  BY <1>2 DEF StartWorker, Nobody
<1>3. ASSUME TypeOK, CancelDelivered, Wait PROVE CancelDelivered'
  BY <1>3 DEF Wait
<1>4. ASSUME TypeOK, CancelDelivered, Timeout PROVE CancelDelivered'
  BY <1>4 DEF Timeout
<1>5. ASSUME TypeOK, CancelDelivered, Press PROVE CancelDelivered'
  BY <1>5 DEF Press
<1>6. ASSUME TypeOK, CancelDelivered, Interrupt PROVE CancelDelivered'
  BY <1>6 DEF Interrupt, SendSignal
<1>7. ASSUME TypeOK, CancelDelivered, Receive PROVE CancelDelivered'
  BY <1>7 DEF Receive
<1>8. ASSUME TypeOK, CancelDelivered, Detect PROVE CancelDelivered'
  BY <1>8 DEF Detect, Goto, Report
<1>9. ASSUME TypeOK, CancelDelivered, Gate PROVE CancelDelivered'
  BY <1>9 DEF Gate, Goto, Report
<1>10. ASSUME TypeOK, CancelDelivered, Check PROVE CancelDelivered'
  BY <1>10 DEF Check, Goto, Report
<1>11. ASSUME TypeOK, CancelDelivered, Again PROVE CancelDelivered'
  BY <1>11 DEF Again, Goto, Report
<1>12. ASSUME TypeOK, CancelDelivered, Start PROVE CancelDelivered'
  BY <1>12 DEF Start, Goto, Report
<1>13. ASSUME TypeOK, CancelDelivered, Spawn PROVE CancelDelivered'
  BY <1>13 DEF Spawn, Goto, Empty
<1>14. ASSUME TypeOK, CancelDelivered, SpawnFails PROVE CancelDelivered'
  BY <1>14 DEF SpawnFails, Goto, Report
<1>15. ASSUME TypeOK, CancelDelivered, Register PROVE CancelDelivered'
  BY <1>15 DEF Register, Goto
<1>16. ASSUME TypeOK, CancelDelivered, Recheck PROVE CancelDelivered'
  BY <1>16 DEF Recheck, Goto
<1>17. ASSUME TypeOK, CancelDelivered, Deliver PROVE CancelDelivered'
  BY <1>17 DEF Deliver, Goto, SendSignal
<1>18. ASSUME TypeOK, CancelDelivered, Password PROVE CancelDelivered'
  BY <1>18 DEF Password, Goto
<1>19. ASSUME TypeOK, CancelDelivered, Read PROVE CancelDelivered'
  BY <1>19 DEF Read, Goto, Closed
<1>20. ASSUME TypeOK, CancelDelivered, ReadFails PROVE CancelDelivered'
  BY <1>20 DEF ReadFails, Goto
<1>21. ASSUME TypeOK, CancelDelivered, Clear PROVE CancelDelivered'
  BY <1>21 DEF Clear, Goto
<1>22. ASSUME TypeOK, CancelDelivered, WaitChild PROVE CancelDelivered'
  BY <1>22 DEF WaitChild, Goto, Closed
<1>23. ASSUME TypeOK, CancelDelivered, WaitFails PROVE CancelDelivered'
  BY <1>23 DEF WaitFails, Goto
<1>24. ASSUME TypeOK, CancelDelivered, Drop PROVE CancelDelivered'
  BY <1>24 DEF Drop, Goto
<1>25. ASSUME TypeOK, CancelDelivered, Kill PROVE CancelDelivered'
  BY <1>25 DEF Kill, Goto, Closed, Orphaned
<1>26. ASSUME TypeOK, CancelDelivered, Join PROVE CancelDelivered'
  BY <1>26 DEF Join, Goto, Report, EndRun
<1>27. ASSUME TypeOK, CancelDelivered, Drain PROVE CancelDelivered'
  BY <1>27 DEF Drain, Closed
<1>28. ASSUME TypeOK, CancelDelivered, Emit PROVE CancelDelivered'
  BY <1>28 DEF Emit
<1>29. ASSUME TypeOK, CancelDelivered, TakeLock PROVE CancelDelivered'
  BY <1>29 DEF TakeLock
<1>30. ASSUME TypeOK, CancelDelivered, FindLocked PROVE CancelDelivered'
  BY <1>30 DEF FindLocked, Exit
<1>31. ASSUME TypeOK, CancelDelivered, Finish PROVE CancelDelivered'
  BY <1>31 DEF Finish, Exit
<1>32. ASSUME TypeOK, CancelDelivered, GiveUp PROVE CancelDelivered'
  BY <1>32 DEF GiveUp, Exit
<1>33. ASSUME TypeOK, CancelDelivered, Die PROVE CancelDelivered'
  BY <1>33 DEF Die, Exit, Orphaned
<1>34. ASSUME TypeOK, CancelDelivered, Other PROVE CancelDelivered'
  BY <1>34 DEF Other
<1>35. ASSUME TypeOK, CancelDelivered, NEW s \in Stream, Want(s) PROVE CancelDelivered'
  BY <1>35 DEF Want
<1>36. ASSUME TypeOK, CancelDelivered, UNCHANGED vars PROVE CancelDelivered'
  BY <1>36 DEF vars
<1> QED
  BY <1>1, <1>2, <1>3, <1>4, <1>5, <1>6, <1>7, <1>8, <1>9, <1>10, <1>11, <1>12, <1>13,
    <1>14, <1>15, <1>16, <1>17, <1>18, <1>19, <1>20, <1>21, <1>22, <1>23, <1>24,
    <1>25, <1>26, <1>27, <1>28, <1>29, <1>30, <1>31, <1>32, <1>33, <1>34, <1>35, <1>36
    DEF Next, Screen, Before, Run, Printing, Ending

\* Once the user's Ctrl+C was handled, every restic that goes on was signalled.
THEOREM CancelsArrive == Spec => []CancelDelivered
<1>1. Init => CancelDelivered
  BY DEF Init, CancelDelivered
<1> QED
  BY <1>1, CancelStep, TypeCorrect, PTL DEF Spec

----------------------------------------------------------------------------
(* What is shown is what happened. *)

\* The outcome on its way from the child to the screen.
ReportInv ==
  /\ wpc = "join" /\ result \in {"ok", "locked"} => code[cmd] = result
  /\ wpc \in {"drop", "kill"} => result = "failed"
  /\ result # "refused"
  /\ rx = "ok" => code["prune"] = "ok"
  /\ rx = "refused" => latch
  /\ latch /\ rx # "none" => asked \/ main = "signal"
  /\ ReportTrue

LEMMA ReportStep == TypeOK /\ ReportInv /\ [Next]_vars => ReportInv'
<1> USE DEF tui, tracker, worker, procs, ReportInv, ReportTrue, TypeOK, Links, Ranges,
  Attended, Tracked, Outcome, Shown, Cmd, Stream
<1>1. ASSUME TypeOK, ReportInv, Key PROVE ReportInv'
  BY <1>1 DEF Key
<1>2. ASSUME TypeOK, ReportInv, StartWorker PROVE ReportInv'
  BY <1>2 DEF StartWorker, Nobody
<1>3. ASSUME TypeOK, ReportInv, Wait PROVE ReportInv'
  BY <1>3 DEF Wait
<1>4. ASSUME TypeOK, ReportInv, Timeout PROVE ReportInv'
  BY <1>4 DEF Timeout
<1>5. ASSUME TypeOK, ReportInv, Press PROVE ReportInv'
  BY <1>5 DEF Press
<1>6. ASSUME TypeOK, ReportInv, Interrupt PROVE ReportInv'
  BY <1>6 DEF Interrupt, SendSignal
<1>7. ASSUME TypeOK, ReportInv, Receive PROVE ReportInv'
  BY <1>7 DEF Receive
<1>8. ASSUME TypeOK, ReportInv, Detect PROVE ReportInv'
  BY <1>8 DEF Detect, Goto, Report
<1>9. ASSUME TypeOK, ReportInv, Gate PROVE ReportInv'
  BY <1>9 DEF Gate, Goto, Report
<1>10. ASSUME TypeOK, ReportInv, Check PROVE ReportInv'
  BY <1>10 DEF Check, Goto, Report
<1>11. ASSUME TypeOK, ReportInv, Again PROVE ReportInv'
  BY <1>11 DEF Again, Goto, Report
<1>12. ASSUME TypeOK, ReportInv, Start PROVE ReportInv'
  BY <1>12 DEF Start, Goto, Report
<1>13. ASSUME TypeOK, ReportInv, Spawn PROVE ReportInv'
  BY <1>13 DEF Spawn, Goto, Empty
<1>14. ASSUME TypeOK, ReportInv, SpawnFails PROVE ReportInv'
  BY <1>14 DEF SpawnFails, Goto, Report
<1>15. ASSUME TypeOK, ReportInv, Register PROVE ReportInv'
  BY <1>15 DEF Register, Goto
<1>16. ASSUME TypeOK, ReportInv, Recheck PROVE ReportInv'
  BY <1>16 DEF Recheck, Goto
<1>17. ASSUME TypeOK, ReportInv, Deliver PROVE ReportInv'
  BY <1>17 DEF Deliver, Goto, SendSignal
<1>18. ASSUME TypeOK, ReportInv, Password PROVE ReportInv'
  BY <1>18 DEF Password, Goto
<1>19. ASSUME TypeOK, ReportInv, Read PROVE ReportInv'
  BY <1>19 DEF Read, Goto, Closed
<1>20. ASSUME TypeOK, ReportInv, ReadFails PROVE ReportInv'
  BY <1>20 DEF ReadFails, Goto
<1>21. ASSUME TypeOK, ReportInv, Clear PROVE ReportInv'
  BY <1>21 DEF Clear, Goto
<1>22. ASSUME TypeOK, ReportInv, WaitChild PROVE ReportInv'
  BY <1>22 DEF WaitChild, Goto, Closed
<1>23. ASSUME TypeOK, ReportInv, WaitFails PROVE ReportInv'
  BY <1>23 DEF WaitFails, Goto
<1>24. ASSUME TypeOK, ReportInv, Drop PROVE ReportInv'
  BY <1>24 DEF Drop, Goto
<1>25. ASSUME TypeOK, ReportInv, Kill PROVE ReportInv'
  BY <1>25 DEF Kill, Goto, Closed, Orphaned
<1>26. ASSUME TypeOK, ReportInv, Join PROVE ReportInv'
  BY <1>26 DEF Join, Goto, Report, EndRun
<1>27. ASSUME TypeOK, ReportInv, Drain PROVE ReportInv'
  BY <1>27 DEF Drain, Closed
<1>28. ASSUME TypeOK, ReportInv, Emit PROVE ReportInv'
  BY <1>28 DEF Emit
<1>29. ASSUME TypeOK, ReportInv, TakeLock PROVE ReportInv'
  BY <1>29 DEF TakeLock
<1>30. ASSUME TypeOK, ReportInv, FindLocked PROVE ReportInv'
  BY <1>30 DEF FindLocked, Exit
<1>31. ASSUME TypeOK, ReportInv, Finish PROVE ReportInv'
  BY <1>31 DEF Finish, Exit
<1>32. ASSUME TypeOK, ReportInv, GiveUp PROVE ReportInv'
  BY <1>32 DEF GiveUp, Exit
<1>33. ASSUME TypeOK, ReportInv, Die PROVE ReportInv'
  BY <1>33 DEF Die, Exit, Orphaned
<1>34. ASSUME TypeOK, ReportInv, Other PROVE ReportInv'
  BY <1>34 DEF Other
<1>35. ASSUME TypeOK, ReportInv, NEW s \in Stream, Want(s) PROVE ReportInv'
  BY <1>35 DEF Want
<1>36. ASSUME TypeOK, ReportInv, UNCHANGED vars PROVE ReportInv'
  BY <1>36 DEF vars
<1> QED
  BY <1>1, <1>2, <1>3, <1>4, <1>5, <1>6, <1>7, <1>8, <1>9, <1>10, <1>11, <1>12, <1>13,
    <1>14, <1>15, <1>16, <1>17, <1>18, <1>19, <1>20, <1>21, <1>22, <1>23, <1>24,
    <1>25, <1>26, <1>27, <1>28, <1>29, <1>30, <1>31, <1>32, <1>33, <1>34, <1>35, <1>36
    DEF Next, Screen, Before, Run, Printing, Ending

\* A report shown as done is that of a prune that went well in this run.
THEOREM ReportsTrue == Spec => []ReportTrue
<1>1. Init => ReportInv
  BY DEF Init, ReportInv, ReportTrue, Nobody, Cmd
<1>2. ReportInv => ReportTrue
  BY DEF ReportInv
<1> QED
  BY <1>1, <1>2, ReportStep, TypeCorrect, PTL DEF Spec

----------------------------------------------------------------------------
(* Locks of dead processes. *)

\* From the check that passed, or the unlock that went well, to the prune's
\* own acquisition no lock is there but one others took in this run.
StuckInv ==
  /\ wpc # "none" /\ repo = "other" => met
  /\ repo = "restic" => child["prune"] = "running"
  /\ cmd = "prune" /\ (wpc \in {"start", "spawn"} \/ child["prune"] = "running")
       => repo # "stale" \/ met
  /\ cmd = "unlock" /\ code["unlock"] = "ok" /\ wpc # "none" => repo # "stale" \/ met
  /\ wpc \in {"detect", "gate", "check"} => \A c \in Cmd : code[c] = "none"
  /\ wpc = "again" => cmd = "unlock" /\ code["unlock"] = "ok"
  /\ \A c \in Cmd : code[c] = "locked" => met
  /\ rx = "locked" => met
  /\ NotStuck

LEMMA StuckStep == TypeOK /\ ReportInv /\ StuckInv /\ [Next]_vars => StuckInv'
<1> USE DEF tui, tracker, worker, procs, ReportInv, StuckInv, NotStuck, TypeOK, Links,
  Ranges, Attended, Tracked, Outcome, Shown, Cmd, Stream
<1>1. ASSUME TypeOK, ReportInv, StuckInv, Key PROVE StuckInv'
  BY <1>1 DEF Key
<1>2. ASSUME TypeOK, ReportInv, StuckInv, StartWorker PROVE StuckInv'
  BY <1>2 DEF StartWorker, Nobody
<1>3. ASSUME TypeOK, ReportInv, StuckInv, Wait PROVE StuckInv'
  BY <1>3 DEF Wait
<1>4. ASSUME TypeOK, ReportInv, StuckInv, Timeout PROVE StuckInv'
  BY <1>4 DEF Timeout
<1>5. ASSUME TypeOK, ReportInv, StuckInv, Press PROVE StuckInv'
  BY <1>5 DEF Press
<1>6. ASSUME TypeOK, ReportInv, StuckInv, Interrupt PROVE StuckInv'
  BY <1>6 DEF Interrupt, SendSignal
<1>7. ASSUME TypeOK, ReportInv, StuckInv, Receive PROVE StuckInv'
  BY <1>7 DEF Receive
<1>8. ASSUME TypeOK, ReportInv, StuckInv, Detect PROVE StuckInv'
  BY <1>8 DEF Detect, Goto, Report
<1>9. ASSUME TypeOK, ReportInv, StuckInv, Gate PROVE StuckInv'
  BY <1>9 DEF Gate, Goto, Report
<1>10. ASSUME TypeOK, ReportInv, StuckInv, Check PROVE StuckInv'
  BY <1>10 DEF Check, Goto, Report
<1>11. ASSUME TypeOK, ReportInv, StuckInv, Again PROVE StuckInv'
  BY <1>11 DEF Again, Goto, Report
<1>12. ASSUME TypeOK, ReportInv, StuckInv, Start PROVE StuckInv'
  BY <1>12 DEF Start, Goto, Report
<1>13. ASSUME TypeOK, ReportInv, StuckInv, Spawn PROVE StuckInv'
  BY <1>13 DEF Spawn, Goto, Empty
<1>14. ASSUME TypeOK, ReportInv, StuckInv, SpawnFails PROVE StuckInv'
  BY <1>14 DEF SpawnFails, Goto, Report
<1>15. ASSUME TypeOK, ReportInv, StuckInv, Register PROVE StuckInv'
  BY <1>15 DEF Register, Goto
<1>16. ASSUME TypeOK, ReportInv, StuckInv, Recheck PROVE StuckInv'
  BY <1>16 DEF Recheck, Goto
<1>17. ASSUME TypeOK, ReportInv, StuckInv, Deliver PROVE StuckInv'
  BY <1>17 DEF Deliver, Goto, SendSignal
<1>18. ASSUME TypeOK, ReportInv, StuckInv, Password PROVE StuckInv'
  BY <1>18 DEF Password, Goto
<1>19. ASSUME TypeOK, ReportInv, StuckInv, Read PROVE StuckInv'
  BY <1>19 DEF Read, Goto, Closed
<1>20. ASSUME TypeOK, ReportInv, StuckInv, ReadFails PROVE StuckInv'
  BY <1>20 DEF ReadFails, Goto
<1>21. ASSUME TypeOK, ReportInv, StuckInv, Clear PROVE StuckInv'
  BY <1>21 DEF Clear, Goto
<1>22. ASSUME TypeOK, ReportInv, StuckInv, WaitChild PROVE StuckInv'
  BY <1>22 DEF WaitChild, Goto, Closed
<1>23. ASSUME TypeOK, ReportInv, StuckInv, WaitFails PROVE StuckInv'
  BY <1>23 DEF WaitFails, Goto
<1>24. ASSUME TypeOK, ReportInv, StuckInv, Drop PROVE StuckInv'
  BY <1>24 DEF Drop, Goto
<1>25. ASSUME TypeOK, ReportInv, StuckInv, Kill PROVE StuckInv'
  BY <1>25 DEF Kill, Goto, Closed, Orphaned
<1>26. ASSUME TypeOK, ReportInv, StuckInv, Join PROVE StuckInv'
  BY <1>26 DEF Join, Goto, Report, EndRun
<1>27. ASSUME TypeOK, ReportInv, StuckInv, Drain PROVE StuckInv'
  BY <1>27 DEF Drain, Closed
<1>28. ASSUME TypeOK, ReportInv, StuckInv, Emit PROVE StuckInv'
  BY <1>28 DEF Emit
<1>29. ASSUME TypeOK, ReportInv, StuckInv, TakeLock PROVE StuckInv'
  BY <1>29 DEF TakeLock
<1>30. ASSUME TypeOK, ReportInv, StuckInv, FindLocked PROVE StuckInv'
  BY <1>30 DEF FindLocked, Exit
<1>31. ASSUME TypeOK, ReportInv, StuckInv, Finish PROVE StuckInv'
  BY <1>31 DEF Finish, Exit
<1>32. ASSUME TypeOK, ReportInv, StuckInv, GiveUp PROVE StuckInv'
  BY <1>32 DEF GiveUp, Exit
<1>33. ASSUME TypeOK, ReportInv, StuckInv, Die PROVE StuckInv'
  BY <1>33 DEF Die, Exit, Orphaned
<1>34. ASSUME TypeOK, ReportInv, StuckInv, Other PROVE StuckInv'
  BY <1>34 DEF Other
<1>35. ASSUME TypeOK, ReportInv, StuckInv, NEW s \in Stream, Want(s) PROVE StuckInv'
  BY <1>35 DEF Want
<1>36. ASSUME TypeOK, ReportInv, StuckInv, UNCHANGED vars PROVE StuckInv'
  BY <1>36 DEF vars
<1> QED
  BY <1>1, <1>2, <1>3, <1>4, <1>5, <1>6, <1>7, <1>8, <1>9, <1>10, <1>11, <1>12, <1>13,
    <1>14, <1>15, <1>16, <1>17, <1>18, <1>19, <1>20, <1>21, <1>22, <1>23, <1>24,
    <1>25, <1>26, <1>27, <1>28, <1>29, <1>30, <1>31, <1>32, <1>33, <1>34, <1>35, <1>36
    DEF Next, Screen, Before, Run, Printing, Ending

\* A prune is refused as locked only if another process held the lock meanwhile.
THEOREM LeftoversCleared == Spec => []NotStuck
<1>1. Init => ReportInv /\ StuckInv
  BY DEF Init, ReportInv, ReportTrue, StuckInv, NotStuck, Nobody, Cmd
<1>2. StuckInv => NotStuck
  BY DEF StuckInv
<1> QED
  BY <1>1, <1>2, ReportStep, StuckStep, TypeCorrect, PTL DEF Spec
=============================================================================
