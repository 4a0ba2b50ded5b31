--------------------------- MODULE RepoLockProofs ---------------------------
(* Proofs about RepoLock. *)
EXTENDS RepoLock, TLAPS

\* Every file an attempt or an unlapsed lock relies on is on disk as written.
FilesInv ==
  \A p \in Proc : ~lapsed[p] =>
    /\ own[p] # None => dir[own[p]] = NewFile(p, "lock")
    /\ next[p] # None => dir[next[p]] = NewFile(p, "lock")

\* Bookkeeping: only held locks lapse; only attempts remember timers, and a
\* process whose refresh is under way armed no timer during any of them.
TimerInv ==
  \A p \in Proc :
    /\ lapsed[p] => Holding(p)
    /\ own[p] = next[p] => own[p] = None
    /\ ~Attempting(p) => rearmed[p] = {}
    /\ ref[p] # "timer" => \A q \in Proc : Attempting(q) => p \notin rearmed[q]

\* p's lock stands in the way of q's attempt.
Faces(p, q) == p # q /\ ~lapsed[p] /\ Clash(want[p], want[q])

\* q's first check either still has to read p's lock or raced with p's timer.
FirstCheckInv ==
  \A p, q \in Proc :
    Faces(p, q) /\ Holding(p) /\ pc[q] = "check1" =>
      p \in rearmed[q] \/ own[p] \in pend[q]

\* Past the first check, a clashing holder has armed its timer meanwhile, and
\* so does not refresh again before the attempt is over.
PastFirstInv ==
  \A p, q \in Proc :
    Faces(p, q) /\ Holding(p) /\ pc[q] \in {"write", "wait", "check2"} =>
      p \in rearmed[q]

\* Of two clashing processes past their writes, a running re-check sees the
\* other's lock.
RecheckInv ==
  \A p, q \in Proc :
    Faces(p, q) /\ pc[p] \in {"check2", "held", "stopping"} /\ pc[q] = "check2" =>
      own[p] \in pend[q] \/ (pc[p] = "check2" /\ own[q] \in pend[p])

IInv ==
  /\ TypeOK
  /\ FilesInv
  /\ TimerInv
  /\ FirstCheckInv
  /\ PastFirstInv
  /\ RecheckInv
  /\ MutualExclusion

----------------------------------------------------------------------------
\* The names of one process are names, and not those of another.
LEMMA Names ==
  /\ None \notin Name
  /\ \A p \in Proc : \A n \in {p} \X Slot : n \in Name /\ n[1] = p
  BY ConstantsOK DEF Name

LEMMA InitType == Init => TypeOK
  BY Names, ConstantsOK DEF Init, TypeOK, Phase, Mode, Holding

LEMMA NewFileType ==
  ASSUME TypeOK, NEW p \in Proc, NEW k \in Kind
  PROVE  NewFile(p, k) \in File
  BY DEF TypeOK, NewFile, File

LEMMA StaleType ==
  ASSUME NEW f \in File
  PROVE  [f EXCEPT !.stale = TRUE] \in File
  BY DEF File

LEMMA FailedWriteType ==
  ASSUME TypeOK, NEW p \in Proc, FailedWrite(p)
  PROVE  dir' \in [Name -> File \cup {None}] /\ faults' \in 0..MaxFaults
  BY Names, NewFileType, ConstantsOK DEF TypeOK, FailedWrite, FreshNames

LEMMA RemovalType ==
  ASSUME TypeOK, NEW n, TryRemove(n)
  PROVE  dir' \in [Name -> File \cup {None}] /\ faults' \in 0..MaxFaults
  BY ConstantsOK DEF TypeOK, TryRemove

LEMMA NextType == TypeOK /\ [Next]_vars => TypeOK'
<1> SUFFICES ASSUME TypeOK, [Next]_vars PROVE TypeOK'
  OBVIOUS
<1> USE DEF TypeOK, Phase, Mode, Holding, Attempting
<1>1. ASSUME NEW p \in Proc, NEW m \in Mode, Begin(p, m) PROVE TypeOK'
  BY <1>1 DEF Begin, Present
<1>2. ASSUME NEW p \in Proc, NEW n \in Name, ReadLock(p, n) PROVE TypeOK'
  BY <1>2 DEF ReadLock
<1>3. ASSUME NEW p \in Proc, FirstCheckFails(p) PROVE TypeOK'
  BY <1>3 DEF FirstCheckFails, Reset
<1>4. ASSUME NEW p \in Proc, FirstCheckPasses(p) PROVE TypeOK'
  BY <1>4 DEF FirstCheckPasses
<1>5. ASSUME NEW p \in Proc, WriteLock(p) PROVE TypeOK'
  BY <1>5, Names, NewFileType DEF WriteLock, FreshNames, Kind
<1>6. ASSUME NEW p \in Proc, WriteLockFails(p) PROVE TypeOK'
  BY <1>6, FailedWriteType DEF WriteLockFails, Reset
<1>7. ASSUME NEW p \in Proc, Recheck(p) PROVE TypeOK'
  BY <1>7 DEF Recheck, Present
<1>8. ASSUME NEW p \in Proc, RecheckFails(p) PROVE TypeOK'
  BY <1>8 DEF RecheckFails
<1>9. ASSUME NEW p \in Proc, Backoff(p) PROVE TypeOK'
  BY <1>9, ConstantsOK DEF Backoff, TryRemove, Reset
<1>10. ASSUME NEW p \in Proc, RecheckPasses(p) PROVE TypeOK'
  BY <1>10 DEF RecheckPasses
<1>11. ASSUME NEW p \in Proc, RefreshStart(p) PROVE TypeOK'
  BY <1>11 DEF RefreshStart
<1>12. ASSUME NEW p \in Proc, RefreshWrite(p) PROVE TypeOK'
  <2>1. PICK n \in FreshNames(p) :
          /\ dir' = [dir EXCEPT ![n] = NewFile(p, "lock")]
          /\ next' = [next EXCEPT ![p] = n]
    BY <1>12 DEF RefreshWrite
  <2>2. n \in {p} \X Slot /\ n \in Name /\ n # None
    BY Names DEF FreshNames
  <2>3. dir' \in [Name -> File \cup {None}]
    BY <2>1, <2>2, NewFileType DEF Kind
  <2> QED
    BY <1>12, <2>1, <2>2, <2>3 DEF RefreshWrite
<1>13. ASSUME NEW p \in Proc, RefreshWriteFails(p) PROVE TypeOK'
  <2>1. dir' \in [Name -> File \cup {None}] /\ faults' \in 0..MaxFaults
    BY <1>13, FailedWriteType DEF RefreshWriteFails
  <2>2. rearmed' \in [Proc -> SUBSET Proc]
    BY <1>13 DEF RefreshWriteFails, Rearm
  <2>3. ref' = [ref EXCEPT ![p] = "timer"] /\ ref[p] = "write"
    BY <1>13 DEF RefreshWriteFails
  <2>4. UNCHANGED <<pc, want, pend, own, next, hup, lapsed>>
    BY <1>13 DEF RefreshWriteFails
  <2> QED
    BY <2>1, <2>2, <2>3, <2>4
<1>14. ASSUME NEW p \in Proc, RefreshRemove(p) PROVE TypeOK'
  BY <1>14, Names, ConstantsOK DEF RefreshRemove, TryRemove, Rearm
<1>15. ASSUME NEW p \in Proc, Stop(p) PROVE TypeOK'
  BY <1>15 DEF Stop
<1>16. ASSUME NEW p \in Proc, DropRemove(p) PROVE TypeOK'
  <2>1. dir' \in [Name -> File \cup {None}] /\ faults' \in 0..MaxFaults
    BY <1>16, RemovalType DEF DropRemove
  <2> QED
    BY <1>16, <2>1 DEF DropRemove, Reset
<1>17. ASSUME NEW p \in Proc, Crash(p) PROVE TypeOK'
  <2>1. dir' \in [Name -> File \cup {None}]
    <3>1. \A n \in Name : dir[n] # None => [dir[n] EXCEPT !.stale = TRUE] \in File
      BY StaleType
    <3> QED
      BY <1>17, <3>1 DEF Crash
  <2> QED
    BY <1>17, <2>1 DEF Crash, Reset
<1>18. ASSUME NEW n \in Name, Age(n) PROVE TypeOK'
  <2>1. dir' \in [Name -> File \cup {None}]
    <3>1. [dir[n] EXCEPT !.stale = TRUE] \in File
      BY <1>18, StaleType DEF Age
    <3> QED
      BY <1>18, <3>1 DEF Age
  <2> QED
    BY <1>18, <2>1 DEF Age
<1>19. ASSUME NEW n \in Name, RemoveStale(n) PROVE TypeOK'
  BY <1>19 DEF RemoveStale
<1>20. CASE UNCHANGED vars
  BY <1>20 DEF vars
<1> QED
  BY <1>1, <1>2, <1>3, <1>4, <1>5, <1>6, <1>7, <1>8, <1>9, <1>10, <1>11, <1>12,
     <1>13, <1>14, <1>15, <1>16, <1>17, <1>18, <1>19, <1>20
  DEF Next, Acquire, Hold

\* Every reachable state is well typed, with names, refresher and phase in
\* step (the conjunction of acquire, refresh_loop and Drop).
THEOREM TypeCorrect == Spec => []TypeOK
  BY InitType, NextType, PTL DEF Spec

----------------------------------------------------------------------------
\* The names two processes remember differ; a fresh name is remembered by
\* nobody.
LEMMA NamesApart ==
  ASSUME TypeOK, NEW p \in Proc, NEW q \in Proc, p # q
  PROVE  /\ own[p] # None => own[p] # own[q] /\ own[p] # next[q]
         /\ next[p] # None => next[p] # own[q] /\ next[p] # next[q]
  BY Names DEF TypeOK

LEMMA FreshApart ==
  ASSUME TypeOK, NEW p \in Proc, NEW n \in FreshNames(p), NEW q \in Proc
  PROVE  n \in Name /\ n # None /\ n # own[q] /\ n # next[q] /\ n \notin pend[q]
  BY Names DEF TypeOK, FreshNames

\* FilesInv for one process, as a step changes it.
Backed(p) ==
  ~lapsed[p] =>
    /\ own[p] # None => dir[own[p]] = NewFile(p, "lock")
    /\ next[p] # None => dir[next[p]] = NewFile(p, "lock")

\* A process keeps its files when a step leaves them and its memory alone.
LEMMA BackedFrame ==
  ASSUME NEW q \in Proc, Backed(q),
         own'[q] = own[q], next'[q] = next[q], want'[q] = want[q],
         lapsed[q] => lapsed'[q],
         own[q] # None => dir'[own[q]] = dir[own[q]],
         next[q] # None => dir'[next[q]] = dir[next[q]]
  PROVE  Backed(q)'
  BY DEF Backed, NewFile

LEMMA FilesStep ==
  ASSUME Prompt, TypeOK, FilesInv, TimerInv, [Next]_vars
  PROVE  FilesInv'
<1> SUFFICES ASSUME NEW q \in Proc PROVE Backed(q)'
  BY DEF FilesInv, Backed
<1>0. Backed(q)
  BY DEF FilesInv, Backed
<1> USE DEF TypeOK
<1>1. ASSUME NEW p \in Proc, NEW m \in Mode, Begin(p, m) PROVE Backed(q)'
  <2>1. CASE q = p
    BY <1>1, <2>1 DEF Begin, Backed, Holding
  <2>2. CASE q # p
    BY <1>0, <1>1, <2>2, BackedFrame DEF Begin
  <2> QED
    BY <2>1, <2>2
<1>2. ASSUME NEW p \in Proc, NEW n \in Name, ReadLock(p, n) PROVE Backed(q)'
  BY <1>0, <1>2, BackedFrame DEF ReadLock
<1>3. ASSUME NEW p \in Proc, FirstCheckFails(p) PROVE Backed(q)'
  <2>1. CASE q = p
    BY <1>3, <2>1 DEF FirstCheckFails, Reset, Backed, Holding
  <2>2. CASE q # p
    BY <1>0, <1>3, <2>2, BackedFrame DEF FirstCheckFails, Reset
  <2> QED
    BY <2>1, <2>2
<1>4. ASSUME NEW p \in Proc, FirstCheckPasses(p) PROVE Backed(q)'
  BY <1>0, <1>4, BackedFrame DEF FirstCheckPasses
<1>5. ASSUME NEW p \in Proc, WriteLock(p) PROVE Backed(q)'
  <2>1. PICK n \in FreshNames(p) :
          /\ dir' = [dir EXCEPT ![n] = NewFile(p, "lock")]
          /\ own' = [own EXCEPT ![p] = n]
    BY <1>5 DEF WriteLock
  <2>2. UNCHANGED <<want, next, lapsed>> /\ ref[p] = "timer"
    BY <1>5 DEF WriteLock, Holding
  <2>3. CASE q = p
    BY <2>1, <2>2, <2>3, FreshApart DEF Backed, NewFile
  <2>4. CASE q # p
    BY <1>0, <2>1, <2>2, <2>4, FreshApart, BackedFrame
  <2> QED
    BY <2>3, <2>4
<1>6. ASSUME NEW p \in Proc, WriteLockFails(p) PROVE Backed(q)'
  <2>1. \A n \in {own[q], next[q]} \ {None} : dir'[n] = dir[n]
    BY <1>6, FreshApart DEF WriteLockFails, FailedWrite
  <2>2. CASE q = p
    BY <1>6, <2>2 DEF WriteLockFails, Reset, Backed, Holding
  <2>3. CASE q # p
    BY <1>0, <1>6, <2>1, <2>3, BackedFrame DEF WriteLockFails, Reset
  <2> QED
    BY <2>2, <2>3
<1>7. ASSUME NEW p \in Proc, Recheck(p) PROVE Backed(q)'
  BY <1>0, <1>7, BackedFrame DEF Recheck
<1>8. ASSUME NEW p \in Proc, RecheckFails(p) PROVE Backed(q)'
  BY <1>0, <1>8, BackedFrame DEF RecheckFails
<1>9. ASSUME NEW p \in Proc, Backoff(p) PROVE Backed(q)'
  <2>1. CASE q = p
    BY <1>9, <2>1 DEF Backoff, Reset, Backed, Holding
  <2>2. CASE q # p
    <3>1. \A n \in {own[q], next[q]} \ {None} : dir'[n] = dir[n]
      BY <1>9, <2>2, NamesApart DEF Backoff, TryRemove
    <3> QED
      BY <1>0, <1>9, <2>2, <3>1, BackedFrame DEF Backoff, Reset
  <2> QED
    BY <2>1, <2>2
<1>10. ASSUME NEW p \in Proc, RecheckPasses(p) PROVE Backed(q)'
  BY <1>0, <1>10, BackedFrame DEF RecheckPasses
<1>11. ASSUME NEW p \in Proc, RefreshStart(p) PROVE Backed(q)'
  BY <1>0, <1>11, BackedFrame DEF RefreshStart
<1>12. ASSUME NEW p \in Proc, RefreshWrite(p) PROVE Backed(q)'
  <2>1. PICK n \in FreshNames(p) :
          /\ dir' = [dir EXCEPT ![n] = NewFile(p, "lock")]
          /\ next' = [next EXCEPT ![p] = n]
    BY <1>12 DEF RefreshWrite
  <2>2. UNCHANGED <<want, own, lapsed>>
    BY <1>12 DEF RefreshWrite
  <2>3. CASE q = p
    BY <1>0, <2>1, <2>2, <2>3, FreshApart DEF Backed, NewFile
  <2>4. CASE q # p
    BY <1>0, <2>1, <2>2, <2>4, FreshApart, BackedFrame
  <2> QED
    BY <2>3, <2>4
<1>13. ASSUME NEW p \in Proc, RefreshWriteFails(p) PROVE Backed(q)'
  <2>1. \A n \in {own[q], next[q]} \ {None} : dir'[n] = dir[n]
    BY <1>13, FreshApart DEF RefreshWriteFails, FailedWrite
  <2> QED
    BY <1>0, <1>13, <2>1, BackedFrame DEF RefreshWriteFails
<1>14. ASSUME NEW p \in Proc, RefreshRemove(p) PROVE Backed(q)'
  <2>1. CASE q = p
    <3>1. next[p] # None /\ next[p] # own[p] /\ next[p] \in Name
      BY <1>14, Names DEF RefreshRemove, TimerInv, Holding
    <3>2. dir'[next[p]] = dir[next[p]]
      BY <1>14, <3>1 DEF RefreshRemove, TryRemove
    <3>3. UNCHANGED <<want, lapsed>> /\ own'[p] = next[p] /\ next'[p] = None
      BY <1>14 DEF RefreshRemove
    <3> QED
      BY <1>0, <2>1, <3>1, <3>2, <3>3 DEF Backed, NewFile
  <2>2. CASE q # p
    <3>1. \A n \in {own[q], next[q]} \ {None} : dir'[n] = dir[n]
      BY <1>14, <2>2, NamesApart DEF RefreshRemove, TryRemove
    <3> QED
      BY <1>0, <1>14, <2>2, <3>1, BackedFrame DEF RefreshRemove
  <2> QED
    BY <2>1, <2>2
<1>15. ASSUME NEW p \in Proc, Stop(p) PROVE Backed(q)'
  BY <1>0, <1>15, BackedFrame DEF Stop
<1>16. ASSUME NEW p \in Proc, DropRemove(p) PROVE Backed(q)'
  <2>1. CASE q = p
    BY <1>16, <2>1 DEF DropRemove, Reset, Backed
  <2>2. CASE q # p
    <3>1. \A n \in {own[q], next[q]} \ {None} : dir'[n] = dir[n]
      BY <1>16, <2>2, NamesApart DEF DropRemove, TryRemove
    <3> QED
      BY <1>0, <1>16, <2>2, <3>1, BackedFrame DEF DropRemove, Reset
  <2> QED
    BY <2>1, <2>2
<1>17. ASSUME NEW p \in Proc, Crash(p) PROVE Backed(q)'
  <2>1. CASE q = p
    BY <1>17, <2>1 DEF Crash, Reset, Backed
  <2>2. CASE q # p
    <3>1. \A n \in {own[q], next[q]} \ {None} : dir'[n] = dir[n]
      BY <1>17, <2>2, Names DEF Crash
    <3>2. /\ own'[q] = own[q] /\ next'[q] = next[q]
          /\ want'[q] = want[q] /\ lapsed'[q] = lapsed[q]
      BY <1>17, <2>2 DEF Crash, Reset
    <3> QED
      BY <1>0, <3>1, <3>2, BackedFrame
  <2> QED
    BY <2>1, <2>2
<1>18. ASSUME NEW n \in Name, Age(n) PROVE Backed(q)'
  <2>1. CASE lapsed'[q]
    BY <2>1 DEF Backed
  <2>2. CASE ~lapsed'[q]
    <3>1. lapsed'[q] = lapsed[q] /\ ~(Holding(q) /\ n \in {own[q], next[q]})
      BY <1>18, <2>2 DEF Age
    <3>2. n # own[q] /\ n # next[q]
      BY <1>18, <3>1, Names DEF Age, Holding, Attempting
    <3> QED
      BY <1>0, <1>18, <3>1, <3>2, BackedFrame DEF Age
  <2> QED
    BY <2>1, <2>2
<1>19. ASSUME NEW n \in Name, RemoveStale(n) PROVE Backed(q)'
  <2>1. CASE lapsed[q]
    BY <1>19, <2>1 DEF RemoveStale, Backed
  <2>2. CASE ~lapsed[q]
    <3>1. (own[q] # None => n # own[q]) /\ (next[q] # None => n # next[q])
      BY <1>0, <1>19, <2>2 DEF RemoveStale, Backed, NewFile
    <3> QED
      BY <1>0, <1>19, <3>1, BackedFrame DEF RemoveStale
  <2> QED
    BY <2>1, <2>2
<1>20. CASE UNCHANGED vars
  BY <1>0, <1>20, BackedFrame DEF vars
<1> QED
  BY <1>1, <1>2, <1>3, <1>4, <1>5, <1>6, <1>7, <1>8, <1>9, <1>10, <1>11, <1>12,
     <1>13, <1>14, <1>15, <1>16, <1>17, <1>18, <1>19, <1>20
  DEF Next, Acquire, Hold

----------------------------------------------------------------------------
LEMMA TimerStep ==
  ASSUME Prompt, TypeOK, TimerInv, [Next]_vars
  PROVE  TimerInv'
<1> USE DEF TypeOK, TimerInv, Holding, Attempting
<1>1. ASSUME NEW p \in Proc, NEW m \in Mode, Begin(p, m) PROVE TimerInv'
  BY <1>1 DEF Begin
<1>2. ASSUME NEW p \in Proc, NEW n \in Name, ReadLock(p, n) PROVE TimerInv'
  BY <1>2 DEF ReadLock
<1>3. ASSUME NEW p \in Proc, FirstCheckFails(p) PROVE TimerInv'
  BY <1>3 DEF FirstCheckFails, Reset
<1>4. ASSUME NEW p \in Proc, FirstCheckPasses(p) PROVE TimerInv'
  BY <1>4 DEF FirstCheckPasses
<1>5. ASSUME NEW p \in Proc, WriteLock(p) PROVE TimerInv'
  BY <1>5, FreshApart DEF WriteLock
<1>6. ASSUME NEW p \in Proc, WriteLockFails(p) PROVE TimerInv'
  BY <1>6 DEF WriteLockFails, Reset
<1>7. ASSUME NEW p \in Proc, Recheck(p) PROVE TimerInv'
  BY <1>7 DEF Recheck
<1>8. ASSUME NEW p \in Proc, RecheckFails(p) PROVE TimerInv'
  BY <1>8 DEF RecheckFails
<1>9. ASSUME NEW p \in Proc, Backoff(p) PROVE TimerInv'
  BY <1>9 DEF Backoff, Reset
<1>10. ASSUME NEW p \in Proc, RecheckPasses(p) PROVE TimerInv'
  BY <1>10 DEF RecheckPasses
<1>11. ASSUME NEW p \in Proc, RefreshStart(p) PROVE TimerInv'
  BY <1>11 DEF RefreshStart
<1>12. ASSUME NEW p \in Proc, RefreshWrite(p) PROVE TimerInv'
  BY <1>12, FreshApart DEF RefreshWrite
<1>13. ASSUME NEW p \in Proc, RefreshWriteFails(p) PROVE TimerInv'
  BY <1>13 DEF RefreshWriteFails, Rearm
<1>14. ASSUME NEW p \in Proc, RefreshRemove(p) PROVE TimerInv'
  BY <1>14 DEF RefreshRemove, Rearm
<1>15. ASSUME NEW p \in Proc, Stop(p) PROVE TimerInv'
  BY <1>15 DEF Stop
<1>16. ASSUME NEW p \in Proc, DropRemove(p) PROVE TimerInv'
  BY <1>16 DEF DropRemove, Reset
<1>17. ASSUME NEW p \in Proc, Crash(p) PROVE TimerInv'
  BY <1>17 DEF Crash, Reset
<1>18. ASSUME NEW n \in Name, Age(n) PROVE TimerInv'
  BY <1>18 DEF Age
<1>19. ASSUME NEW n \in Name, RemoveStale(n) PROVE TimerInv'
  BY <1>19 DEF RemoveStale
<1>20. CASE UNCHANGED vars
  BY <1>20 DEF vars
<1> QED
  BY <1>1, <1>2, <1>3, <1>4, <1>5, <1>6, <1>7, <1>8, <1>9, <1>10, <1>11, <1>12, <1>13, <1>14, <1>15, <1>16, <1>17, <1>18, <1>19, <1>20
  DEF Next, Acquire, Hold

\* The file of an unlapsed lock is in the directory.
LEMMA PresentOwn ==
  ASSUME TypeOK, FilesInv, NEW p \in Proc, ~lapsed[p], own[p] # None
  PROVE  own[p] \in Present /\ dir[own[p]] = NewFile(p, "lock")
<1>1. dir[own[p]] = NewFile(p, "lock") /\ own[p] \in Name
  BY DEF FilesInv, TypeOK
<1>2. NewFile(p, "lock") # None
  BY NewFileType, ConstantsOK DEF Kind
<1> QED
  BY <1>1, <1>2 DEF Present

\* The unlapsed lock of one process stops the check of a clashing one.
LEMMA FacesBlocks ==
  ASSUME TypeOK, FilesInv, NEW p \in Proc, NEW q \in Proc,
         Faces(p, q), own[p] # None
  PROVE  own[p] \in Present /\ Blocks(own[p], q)
<1>1. own[p] \in Present /\ dir[own[p]] = NewFile(p, "lock")
  BY PresentOwn DEF Faces
<1>2. dir[own[p]].kind = "lock" /\ dir[own[p]].mode = want[p]
  BY <1>1 DEF NewFile
<1>3. Clash(dir[own[p]].mode, want[q])
  BY <1>2 DEF Faces
<1> QED
  BY <1>1, <1>2, <1>3 DEF Present, Blocks

LEMMA FirstCheckStep ==
  ASSUME Prompt, TypeOK, FilesInv, TimerInv, FirstCheckInv, [Next]_vars
  PROVE  FirstCheckInv'
<1> USE DEF TypeOK, FirstCheckInv, Faces, Holding, Attempting
<1>1. ASSUME NEW p \in Proc, NEW m \in Mode, Begin(p, m) PROVE FirstCheckInv'
  <2>1. SUFFICES ASSUME NEW r \in Proc, NEW q \in Proc,
                        Faces(r, q)', Holding(r)', (pc[q] = "check1")'
                 PROVE  (r \in rearmed[q] \/ own[r] \in pend[q])'
    BY DEF FirstCheckInv
  <2>2. r # p /\ Holding(r) /\ own'[r] = own[r] /\ want'[r] = want[r] /\ ~lapsed[r]
    BY <1>1, <2>1 DEF Begin
  <2>3. CASE q = p
    <3>1. own[r] \in Present
      BY <2>2, PresentOwn DEF FilesInv
    <3> QED
      BY <1>1, <2>2, <2>3, <3>1 DEF Begin
  <2>4. CASE q # p
    BY <1>1, <2>1, <2>2, <2>4 DEF Begin
  <2> QED
    BY <2>3, <2>4
<1>2. ASSUME NEW p \in Proc, NEW n \in Name, ReadLock(p, n) PROVE FirstCheckInv'
  <2>1. SUFFICES ASSUME NEW r \in Proc, NEW q \in Proc,
                        Faces(r, q), Holding(r), pc[q] = "check1"
                 PROVE  r \in rearmed[q] \/ own[r] \in pend'[q]
    BY <1>2 DEF ReadLock
  <2>2. own[r] # None
    BY <2>1
  <2>3. Blocks(own[r], q)
    BY <2>1, <2>2, FacesBlocks
  <2> QED
    BY <1>2, <2>1, <2>3 DEF ReadLock
<1>3. ASSUME NEW p \in Proc, FirstCheckFails(p) PROVE FirstCheckInv'
  BY <1>3 DEF FirstCheckFails, Reset
<1>4. ASSUME NEW p \in Proc, FirstCheckPasses(p) PROVE FirstCheckInv'
  BY <1>4 DEF FirstCheckPasses
<1>5. ASSUME NEW p \in Proc, WriteLock(p) PROVE FirstCheckInv'
  BY <1>5 DEF WriteLock
<1>6. ASSUME NEW p \in Proc, WriteLockFails(p) PROVE FirstCheckInv'
  BY <1>6 DEF WriteLockFails, Reset
<1>7. ASSUME NEW p \in Proc, Recheck(p) PROVE FirstCheckInv'
  BY <1>7 DEF Recheck
<1>8. ASSUME NEW p \in Proc, RecheckFails(p) PROVE FirstCheckInv'
  BY <1>8 DEF RecheckFails
<1>9. ASSUME NEW p \in Proc, Backoff(p) PROVE FirstCheckInv'
  BY <1>9 DEF Backoff, Reset
<1>10. ASSUME NEW p \in Proc, RecheckPasses(p) PROVE FirstCheckInv'
  BY <1>10 DEF RecheckPasses
<1>11. ASSUME NEW p \in Proc, RefreshStart(p) PROVE FirstCheckInv'
  BY <1>11 DEF RefreshStart
<1>12. ASSUME NEW p \in Proc, RefreshWrite(p) PROVE FirstCheckInv'
  BY <1>12 DEF RefreshWrite
<1>13. ASSUME NEW p \in Proc, RefreshWriteFails(p) PROVE FirstCheckInv'
  BY <1>13 DEF RefreshWriteFails, Rearm
<1>14. ASSUME NEW p \in Proc, RefreshRemove(p) PROVE FirstCheckInv'
  BY <1>14 DEF RefreshRemove, Rearm
<1>15. ASSUME NEW p \in Proc, Stop(p) PROVE FirstCheckInv'
  BY <1>15 DEF Stop
<1>16. ASSUME NEW p \in Proc, DropRemove(p) PROVE FirstCheckInv'
  BY <1>16 DEF DropRemove, Reset
<1>17. ASSUME NEW p \in Proc, Crash(p) PROVE FirstCheckInv'
  BY <1>17 DEF Crash, Reset
<1>18. ASSUME NEW n \in Name, Age(n) PROVE FirstCheckInv'
  BY <1>18 DEF Age
<1>19. ASSUME NEW n \in Name, RemoveStale(n) PROVE FirstCheckInv'
  BY <1>19 DEF RemoveStale
<1>20. CASE UNCHANGED vars
  BY <1>20 DEF vars
<1> QED
  BY <1>1, <1>2, <1>3, <1>4, <1>5, <1>6, <1>7, <1>8, <1>9, <1>10, <1>11, <1>12, <1>13, <1>14, <1>15, <1>16, <1>17, <1>18, <1>19, <1>20
  DEF Next, Acquire, Hold

LEMMA PastFirstStep ==
  ASSUME Prompt, TypeOK, TimerInv, FirstCheckInv, PastFirstInv, [Next]_vars
  PROVE  PastFirstInv'
<1> USE DEF TypeOK, PastFirstInv, Faces, Holding, Attempting
<1>1. ASSUME NEW p \in Proc, NEW m \in Mode, Begin(p, m) PROVE PastFirstInv'
  BY <1>1 DEF Begin
<1>2. ASSUME NEW p \in Proc, NEW n \in Name, ReadLock(p, n) PROVE PastFirstInv'
  BY <1>2 DEF ReadLock
<1>3. ASSUME NEW p \in Proc, FirstCheckFails(p) PROVE PastFirstInv'
  BY <1>3 DEF FirstCheckFails, Reset
<1>4. ASSUME NEW p \in Proc, FirstCheckPasses(p) PROVE PastFirstInv'
  BY <1>4 DEF FirstCheckPasses, FirstCheckInv
<1>5. ASSUME NEW p \in Proc, WriteLock(p) PROVE PastFirstInv'
  BY <1>5 DEF WriteLock
<1>6. ASSUME NEW p \in Proc, WriteLockFails(p) PROVE PastFirstInv'
  BY <1>6 DEF WriteLockFails, Reset
<1>7. ASSUME NEW p \in Proc, Recheck(p) PROVE PastFirstInv'
  BY <1>7 DEF Recheck
<1>8. ASSUME NEW p \in Proc, RecheckFails(p) PROVE PastFirstInv'
  BY <1>8 DEF RecheckFails
<1>9. ASSUME NEW p \in Proc, Backoff(p) PROVE PastFirstInv'
  BY <1>9 DEF Backoff, Reset
<1>10. ASSUME NEW p \in Proc, RecheckPasses(p) PROVE PastFirstInv'
  BY <1>10 DEF RecheckPasses
<1>11. ASSUME NEW p \in Proc, RefreshStart(p) PROVE PastFirstInv'
  BY <1>11 DEF RefreshStart
<1>12. ASSUME NEW p \in Proc, RefreshWrite(p) PROVE PastFirstInv'
  BY <1>12 DEF RefreshWrite
<1>13. ASSUME NEW p \in Proc, RefreshWriteFails(p) PROVE PastFirstInv'
  BY <1>13 DEF RefreshWriteFails, Rearm
<1>14. ASSUME NEW p \in Proc, RefreshRemove(p) PROVE PastFirstInv'
  BY <1>14 DEF RefreshRemove, Rearm
<1>15. ASSUME NEW p \in Proc, Stop(p) PROVE PastFirstInv'
  BY <1>15 DEF Stop
<1>16. ASSUME NEW p \in Proc, DropRemove(p) PROVE PastFirstInv'
  BY <1>16 DEF DropRemove, Reset
<1>17. ASSUME NEW p \in Proc, Crash(p) PROVE PastFirstInv'
  BY <1>17 DEF Crash, Reset
<1>18. ASSUME NEW n \in Name, Age(n) PROVE PastFirstInv'
  BY <1>18 DEF Age
<1>19. ASSUME NEW n \in Name, RemoveStale(n) PROVE PastFirstInv'
  BY <1>19 DEF RemoveStale
<1>20. CASE UNCHANGED vars
  BY <1>20 DEF vars
<1> QED
  BY <1>1, <1>2, <1>3, <1>4, <1>5, <1>6, <1>7, <1>8, <1>9, <1>10, <1>11, <1>12,
     <1>13, <1>14, <1>15, <1>16, <1>17, <1>18, <1>19, <1>20
  DEF Next, Acquire, Hold

LEMMA ClashSym ==
  ASSUME NEW k, NEW l
  PROVE  Clash(k, l) <=> Clash(l, k)
  BY DEF Clash

LEMMA RecheckStep ==
  ASSUME Prompt, TypeOK, FilesInv, TimerInv, PastFirstInv, RecheckInv, [Next]_vars
  PROVE  RecheckInv'
<1> USE DEF TypeOK, RecheckInv, Faces, Holding, Attempting
<1>1. ASSUME NEW p \in Proc, NEW m \in Mode, Begin(p, m) PROVE RecheckInv'
  BY <1>1 DEF Begin
<1>2. ASSUME NEW p \in Proc, NEW n \in Name, ReadLock(p, n) PROVE RecheckInv'
  <2>1. SUFFICES ASSUME NEW r \in Proc, NEW q \in Proc, Faces(r, q),
                        pc[r] \in {"check2", "held", "stopping"}, pc[q] = "check2"
                 PROVE  own[r] \in pend'[q] \/ (pc[r] = "check2" /\ own[q] \in pend'[r])
    BY <1>2 DEF ReadLock
  <2>2. CASE own[r] \in pend[q]
    <3>1. Blocks(own[r], q)
      BY <2>1, FacesBlocks
    <3> QED
      BY <1>2, <2>1, <2>2, <3>1 DEF ReadLock
  <2>3. CASE pc[r] = "check2" /\ own[q] \in pend[r]
    <3>1. Faces(q, r)
      BY <2>1, ClashSym DEF TimerInv
    <3>2. Blocks(own[q], r)
      BY <2>1, <3>1, FacesBlocks
    <3> QED
      BY <1>2, <2>1, <2>3, <3>2 DEF ReadLock
  <2> QED
    BY <2>1, <2>2, <2>3
<1>3. ASSUME NEW p \in Proc, FirstCheckFails(p) PROVE RecheckInv'
  BY <1>3 DEF FirstCheckFails, Reset
<1>4. ASSUME NEW p \in Proc, FirstCheckPasses(p) PROVE RecheckInv'
  BY <1>4 DEF FirstCheckPasses
<1>5. ASSUME NEW p \in Proc, WriteLock(p) PROVE RecheckInv'
  BY <1>5 DEF WriteLock
<1>6. ASSUME NEW p \in Proc, WriteLockFails(p) PROVE RecheckInv'
  BY <1>6 DEF WriteLockFails, Reset
<1>7. ASSUME NEW p \in Proc, Recheck(p) PROVE RecheckInv'
  <2>1. SUFFICES ASSUME NEW r \in Proc, NEW q \in Proc, Faces(r, q),
                        pc'[r] \in {"check2", "held", "stopping"}, pc'[q] = "check2"
                 PROVE  own[r] \in pend'[q] \/ (pc'[r] = "check2" /\ own[q] \in pend'[r])
    BY <1>7 DEF Recheck
  <2>2. CASE q = p
    <3>1. own[r] \in Present /\ own[r] # own[p]
      BY <1>7, <2>1, <2>2, PresentOwn, NamesApart DEF Recheck
    <3> QED
      BY <1>7, <2>2, <3>1 DEF Recheck
  <2>3. CASE q # p /\ r = p
    <3>1. pc[q] = "check2" /\ ~lapsed[q] /\ own[q] # None
      BY <1>7, <2>1, <2>3 DEF Recheck, TimerInv
    <3>2. own[q] \in Present /\ own[q] # own[p]
      BY <2>3, <3>1, PresentOwn, NamesApart
    <3> QED
      BY <1>7, <2>1, <2>3, <3>2 DEF Recheck
  <2>4. CASE q # p /\ r # p
    BY <1>7, <2>1, <2>4 DEF Recheck
  <2> QED
    BY <2>2, <2>3, <2>4
<1>8. ASSUME NEW p \in Proc, RecheckFails(p) PROVE RecheckInv'
  BY <1>8 DEF RecheckFails
<1>9. ASSUME NEW p \in Proc, Backoff(p) PROVE RecheckInv'
  BY <1>9 DEF Backoff, Reset
<1>10. ASSUME NEW p \in Proc, RecheckPasses(p) PROVE RecheckInv'
  BY <1>10 DEF RecheckPasses
<1>11. ASSUME NEW p \in Proc, RefreshStart(p) PROVE RecheckInv'
  BY <1>11 DEF RefreshStart
<1>12. ASSUME NEW p \in Proc, RefreshWrite(p) PROVE RecheckInv'
  BY <1>12 DEF RefreshWrite
<1>13. ASSUME NEW p \in Proc, RefreshWriteFails(p) PROVE RecheckInv'
  BY <1>13 DEF RefreshWriteFails, Rearm
<1>14. ASSUME NEW p \in Proc, RefreshRemove(p) PROVE RecheckInv'
  <2>1. SUFFICES ASSUME NEW r \in Proc, NEW q \in Proc, Faces(r, q),
                        pc[r] \in {"check2", "held", "stopping"}, pc[q] = "check2"
                 PROVE  own'[r] \in pend[q] \/ (pc[r] = "check2" /\ own'[q] \in pend[r])
    BY <1>14 DEF RefreshRemove
  <2>2. Holding(p) /\ q # p /\ own'[q] = own[q]
    BY <1>14, <2>1 DEF RefreshRemove
  <2>3. r # p
    BY <1>14, <2>1, <2>2 DEF RefreshRemove, PastFirstInv, TimerInv
  <2> QED
    BY <1>14, <2>1, <2>2, <2>3 DEF RefreshRemove
<1>15. ASSUME NEW p \in Proc, Stop(p) PROVE RecheckInv'
  BY <1>15 DEF Stop
<1>16. ASSUME NEW p \in Proc, DropRemove(p) PROVE RecheckInv'
  BY <1>16 DEF DropRemove, Reset
<1>17. ASSUME NEW p \in Proc, Crash(p) PROVE RecheckInv'
  BY <1>17 DEF Crash, Reset
<1>18. ASSUME NEW n \in Name, Age(n) PROVE RecheckInv'
  BY <1>18 DEF Age
<1>19. ASSUME NEW n \in Name, RemoveStale(n) PROVE RecheckInv'
  BY <1>19 DEF RemoveStale
<1>20. CASE UNCHANGED vars
  BY <1>20 DEF vars
<1> QED
  BY <1>1, <1>2, <1>3, <1>4, <1>5, <1>6, <1>7, <1>8, <1>9, <1>10, <1>11, <1>12,
     <1>13, <1>14, <1>15, <1>16, <1>17, <1>18, <1>19, <1>20
  DEF Next, Acquire, Hold

LEMMA MutexStep ==
  ASSUME Prompt, TypeOK, RecheckInv, MutualExclusion, [Next]_vars
  PROVE  MutualExclusion'
<1> USE DEF TypeOK, MutualExclusion, Holding
<1>1. ASSUME NEW p \in Proc, NEW m \in Mode, Begin(p, m) PROVE MutualExclusion'
  BY <1>1 DEF Begin
<1>2. ASSUME NEW p \in Proc, NEW n \in Name, ReadLock(p, n) PROVE MutualExclusion'
  BY <1>2 DEF ReadLock
<1>3. ASSUME NEW p \in Proc, FirstCheckFails(p) PROVE MutualExclusion'
  BY <1>3 DEF FirstCheckFails, Reset
<1>4. ASSUME NEW p \in Proc, FirstCheckPasses(p) PROVE MutualExclusion'
  BY <1>4 DEF FirstCheckPasses
<1>5. ASSUME NEW p \in Proc, WriteLock(p) PROVE MutualExclusion'
  BY <1>5 DEF WriteLock
<1>6. ASSUME NEW p \in Proc, WriteLockFails(p) PROVE MutualExclusion'
  BY <1>6 DEF WriteLockFails, Reset
<1>7. ASSUME NEW p \in Proc, Recheck(p) PROVE MutualExclusion'
  BY <1>7 DEF Recheck
<1>8. ASSUME NEW p \in Proc, RecheckFails(p) PROVE MutualExclusion'
  BY <1>8 DEF RecheckFails
<1>9. ASSUME NEW p \in Proc, Backoff(p) PROVE MutualExclusion'
  BY <1>9 DEF Backoff, Reset
<1>10. ASSUME NEW p \in Proc, RecheckPasses(p) PROVE MutualExclusion'
  <2>1. SUFFICES ASSUME NEW r \in Proc, NEW q \in Proc, r # q, Holding(r)', Holding(q)',
                        Clash(want[r], want[q]), ~lapsed[r], ~lapsed[q]
                 PROVE  FALSE
    BY <1>10 DEF RecheckPasses
  <2>2. ASSUME NEW s \in Proc, s # p, Holding(s), ~lapsed[s], Clash(want[s], want[p])
        PROVE  FALSE
    BY <1>10, <2>2 DEF RecheckPasses, RecheckInv, Faces
  <2>3. CASE q = p
    BY <1>10, <2>1, <2>2, <2>3 DEF RecheckPasses
  <2>4. CASE r = p
    BY <1>10, <2>1, <2>2, <2>4, ClashSym DEF RecheckPasses
  <2>5. CASE q # p /\ r # p
    BY <1>10, <2>1, <2>5 DEF RecheckPasses
  <2> QED
    BY <2>3, <2>4, <2>5
<1>11. ASSUME NEW p \in Proc, RefreshStart(p) PROVE MutualExclusion'
  BY <1>11 DEF RefreshStart
<1>12. ASSUME NEW p \in Proc, RefreshWrite(p) PROVE MutualExclusion'
  BY <1>12 DEF RefreshWrite
<1>13. ASSUME NEW p \in Proc, RefreshWriteFails(p) PROVE MutualExclusion'
  BY <1>13 DEF RefreshWriteFails, Rearm
<1>14. ASSUME NEW p \in Proc, RefreshRemove(p) PROVE MutualExclusion'
  BY <1>14 DEF RefreshRemove, Rearm
<1>15. ASSUME NEW p \in Proc, Stop(p) PROVE MutualExclusion'
  BY <1>15 DEF Stop
<1>16. ASSUME NEW p \in Proc, DropRemove(p) PROVE MutualExclusion'
  BY <1>16 DEF DropRemove, Reset
<1>17. ASSUME NEW p \in Proc, Crash(p) PROVE MutualExclusion'
  BY <1>17 DEF Crash, Reset
<1>18. ASSUME NEW n \in Name, Age(n) PROVE MutualExclusion'
  BY <1>18 DEF Age
<1>19. ASSUME NEW n \in Name, RemoveStale(n) PROVE MutualExclusion'
  BY <1>19 DEF RemoveStale
<1>20. CASE UNCHANGED vars
  BY <1>20 DEF vars
<1> QED
  BY <1>1, <1>2, <1>3, <1>4, <1>5, <1>6, <1>7, <1>8, <1>9, <1>10, <1>11, <1>12,
     <1>13, <1>14, <1>15, <1>16, <1>17, <1>18, <1>19, <1>20
  DEF Next, Acquire, Hold

----------------------------------------------------------------------------
LEMMA InitIInv == Init => IInv
<1> SUFFICES ASSUME Init PROVE IInv
  OBVIOUS
<1>1. TypeOK
  BY InitType
<1>2. FilesInv /\ TimerInv /\ FirstCheckInv /\ PastFirstInv /\ RecheckInv /\ MutualExclusion
  BY DEF Init, FilesInv, TimerInv, FirstCheckInv, PastFirstInv, RecheckInv,
         MutualExclusion, Holding, Attempting
<1> QED
  BY <1>1, <1>2 DEF IInv

LEMMA NextIInv ==
  ASSUME Prompt
  PROVE  IInv /\ [Next]_vars => IInv'
  BY NextType, FilesStep, TimerStep, FirstCheckStep, PastFirstStep, RecheckStep,
     MutexStep DEF IInv

LEMMA Invariance ==
  ASSUME Prompt
  PROVE  Spec => []IInv
  BY InitIInv, NextIInv, PTL DEF Spec

\* For any number of processes: as long as acquisition attempts finish within
\* one refresh interval, the write-wait-recheck protocol of acquire keeps
\* clashing locks apart, whatever refreshes, failures, crashes and unlocks
\* do meanwhile.
THEOREM Exclusion ==
  ASSUME Prompt
  PROVE  Spec => []MutualExclusion
<1>1. IInv => MutualExclusion
  BY DEF IInv
<1> QED
  BY <1>1, Invariance, PTL

\* A held lock that has not lapsed always has its file in locks/, in the
\* middle of refresh_loop's replacement too.
THEOREM OnDisk ==
  ASSUME Prompt
  PROVE  Spec => []HeldLockOnDisk
<1>1. IInv => HeldLockOnDisk
  BY DEF IInv, TypeOK, FilesInv, HeldLockOnDisk, Holding
<1> QED
  BY <1>1, Invariance, PTL

----------------------------------------------------------------------------
\* SIGHUP is ignored from before the lock file is written until it is gone.
HupInv ==
  \A p \in Proc :
    pc[p] \in {"write", "wait", "check2", "backoff", "held", "stopping"} => hup[p]

LEMMA HupStep ==
  ASSUME TypeOK, HupInv, [Next]_vars
  PROVE  HupInv'
<1> USE DEF TypeOK, HupInv, Holding
<1>1. ASSUME NEW p \in Proc, NEW m \in Mode, Begin(p, m) PROVE HupInv'
  BY <1>1 DEF Begin
<1>2. ASSUME NEW p \in Proc, NEW n \in Name, ReadLock(p, n) PROVE HupInv'
  BY <1>2 DEF ReadLock
<1>3. ASSUME NEW p \in Proc, FirstCheckFails(p) PROVE HupInv'
  BY <1>3 DEF FirstCheckFails, Reset
<1>4. ASSUME NEW p \in Proc, FirstCheckPasses(p) PROVE HupInv'
  BY <1>4 DEF FirstCheckPasses
<1>5. ASSUME NEW p \in Proc, WriteLock(p) PROVE HupInv'
  BY <1>5 DEF WriteLock
<1>6. ASSUME NEW p \in Proc, WriteLockFails(p) PROVE HupInv'
  BY <1>6 DEF WriteLockFails, Reset
<1>7. ASSUME NEW p \in Proc, Recheck(p) PROVE HupInv'
  BY <1>7 DEF Recheck
<1>8. ASSUME NEW p \in Proc, RecheckFails(p) PROVE HupInv'
  BY <1>8 DEF RecheckFails
<1>9. ASSUME NEW p \in Proc, Backoff(p) PROVE HupInv'
  BY <1>9 DEF Backoff, Reset
<1>10. ASSUME NEW p \in Proc, RecheckPasses(p) PROVE HupInv'
  BY <1>10 DEF RecheckPasses
<1>11. ASSUME NEW p \in Proc, RefreshStart(p) PROVE HupInv'
  BY <1>11 DEF RefreshStart
<1>12. ASSUME NEW p \in Proc, RefreshWrite(p) PROVE HupInv'
  BY <1>12 DEF RefreshWrite
<1>13. ASSUME NEW p \in Proc, RefreshWriteFails(p) PROVE HupInv'
  BY <1>13 DEF RefreshWriteFails, Rearm
<1>14. ASSUME NEW p \in Proc, RefreshRemove(p) PROVE HupInv'
  BY <1>14 DEF RefreshRemove, Rearm
<1>15. ASSUME NEW p \in Proc, Stop(p) PROVE HupInv'
  BY <1>15 DEF Stop
<1>16. ASSUME NEW p \in Proc, DropRemove(p) PROVE HupInv'
  BY <1>16 DEF DropRemove, Reset
<1>17. ASSUME NEW p \in Proc, Crash(p) PROVE HupInv'
  BY <1>17 DEF Crash, Reset
<1>18. ASSUME NEW n \in Name, Age(n) PROVE HupInv'
  BY <1>18 DEF Age
<1>19. ASSUME NEW n \in Name, RemoveStale(n) PROVE HupInv'
  BY <1>19 DEF RemoveStale
<1>20. CASE UNCHANGED vars
  BY <1>20 DEF vars
<1> QED
  BY <1>1, <1>2, <1>3, <1>4, <1>5, <1>6, <1>7, <1>8, <1>9, <1>10, <1>11, <1>12,
     <1>13, <1>14, <1>15, <1>16, <1>17, <1>18, <1>19, <1>20
  DEF Next, Acquire, Hold

\* A process with a lock file of its own in locks/ ignores SIGHUP: a restic
\* unlock on the same host never kills it by probing.
THEOREM Probed == Spec => []ProbeSpares
<1>1. Init => TypeOK /\ HupInv
  BY InitType DEF Init, HupInv
<1>2. TypeOK /\ HupInv /\ [Next]_vars => (TypeOK /\ HupInv)'
  BY NextType, HupStep
<1>3. TypeOK /\ HupInv => ProbeSpares
  BY DEF TypeOK, HupInv, ProbeSpares
<1> QED
  BY <1>1, <1>2, <1>3, PTL DEF Spec

----------------------------------------------------------------------------
\* NoOrphans is inductive with the types: as long as nothing went wrong, the only
\* live files of a process are its own and the one a refresh has just written.
LEMMA OrphansStep ==
  ASSUME TypeOK, NoOrphans, [Next]_vars
  PROVE  NoOrphans'
<1> SUFFICES ASSUME faults' = 0, NEW n \in Name, dir'[n] # None, ~dir'[n].stale
             PROVE  n \in {own'[n[1]], next'[n[1]]}
  BY DEF NoOrphans
<1>0. n[1] \in Proc /\ (faults = 0 /\ dir[n] # None /\ ~dir[n].stale
                          => n \in {own[n[1]], next[n[1]]})
  BY DEF Name, NoOrphans
<1> USE <1>0, Names DEF TypeOK, Holding
<1>1. ASSUME NEW p \in Proc, NEW m \in Mode, Begin(p, m) PROVE n \in {own'[n[1]], next'[n[1]]}
  BY <1>1 DEF Begin
<1>2. ASSUME NEW p \in Proc, NEW k \in Name, ReadLock(p, k) PROVE n \in {own'[n[1]], next'[n[1]]}
  BY <1>2 DEF ReadLock
<1>3. ASSUME NEW p \in Proc, FirstCheckFails(p) PROVE n \in {own'[n[1]], next'[n[1]]}
  BY <1>3 DEF FirstCheckFails, Reset
<1>4. ASSUME NEW p \in Proc, FirstCheckPasses(p) PROVE n \in {own'[n[1]], next'[n[1]]}
  BY <1>4 DEF FirstCheckPasses
<1>5. ASSUME NEW p \in Proc, WriteLock(p) PROVE n \in {own'[n[1]], next'[n[1]]}
  BY <1>5 DEF WriteLock, FreshNames
<1>6. ASSUME NEW p \in Proc, WriteLockFails(p) PROVE n \in {own'[n[1]], next'[n[1]]}
  BY <1>6 DEF WriteLockFails, FailedWrite, Reset
<1>7. ASSUME NEW p \in Proc, Recheck(p) PROVE n \in {own'[n[1]], next'[n[1]]}
  BY <1>7 DEF Recheck
<1>8. ASSUME NEW p \in Proc, RecheckFails(p) PROVE n \in {own'[n[1]], next'[n[1]]}
  BY <1>8 DEF RecheckFails
<1>9. ASSUME NEW p \in Proc, Backoff(p) PROVE n \in {own'[n[1]], next'[n[1]]}
  BY <1>9 DEF Backoff, TryRemove, Reset
<1>10. ASSUME NEW p \in Proc, RecheckPasses(p) PROVE n \in {own'[n[1]], next'[n[1]]}
  BY <1>10 DEF RecheckPasses
<1>11. ASSUME NEW p \in Proc, RefreshStart(p) PROVE n \in {own'[n[1]], next'[n[1]]}
  BY <1>11 DEF RefreshStart
<1>12. ASSUME NEW p \in Proc, RefreshWrite(p) PROVE n \in {own'[n[1]], next'[n[1]]}
  BY <1>12 DEF RefreshWrite, FreshNames
<1>13. ASSUME NEW p \in Proc, RefreshWriteFails(p) PROVE n \in {own'[n[1]], next'[n[1]]}
  BY <1>13 DEF RefreshWriteFails, FailedWrite
<1>14. ASSUME NEW p \in Proc, RefreshRemove(p) PROVE n \in {own'[n[1]], next'[n[1]]}
  BY <1>14 DEF RefreshRemove, TryRemove
<1>15. ASSUME NEW p \in Proc, Stop(p) PROVE n \in {own'[n[1]], next'[n[1]]}
  BY <1>15 DEF Stop
<1>16. ASSUME NEW p \in Proc, DropRemove(p) PROVE n \in {own'[n[1]], next'[n[1]]}
  BY <1>16 DEF DropRemove, TryRemove, Reset
<1>17. ASSUME NEW p \in Proc, Crash(p) PROVE n \in {own'[n[1]], next'[n[1]]}
  BY <1>17 DEF Crash, Reset
<1>18. ASSUME NEW k \in Name, Age(k) PROVE n \in {own'[n[1]], next'[n[1]]}
  BY <1>18 DEF Age
<1>19. ASSUME NEW k \in Name, RemoveStale(k) PROVE n \in {own'[n[1]], next'[n[1]]}
  BY <1>19 DEF RemoveStale
<1>20. CASE UNCHANGED vars
  BY <1>20 DEF vars
<1> QED
  BY <1>1, <1>2, <1>3, <1>4, <1>5, <1>6, <1>7, <1>8, <1>9, <1>10, <1>11, <1>12, <1>13, <1>14, <1>15, <1>16, <1>17, <1>18, <1>19, <1>20
  DEF Next, Acquire, Hold

\* As long as no write or removal goes wrong, whoever loses the race, drops its
\* lock or gives up leaves no live lock file behind (write_then_recheck, Drop).
THEOREM LeavesNothing == Spec => []NoOrphans
<1>1. Init => NoOrphans
  BY DEF Init, NoOrphans
<1>2. TypeOK /\ NoOrphans /\ [Next]_vars => NoOrphans'
  BY OrphansStep
<1> QED
  BY <1>1, <1>2, TypeCorrect, PTL DEF Spec

----------------------------------------------------------------------------
(* Refinement of LockService. *)

Granted == [p \in Proc |-> IF Holding(p) THEN want[p] ELSE "none"]

\* What a step that neither grants nor ends nor lapses a lock leaves alone.
LEMMA Stutter ==
  ASSUME TypeOK, TypeOK',
         \A q \in Proc : /\ Holding(q)' <=> Holding(q)
                         /\ Holding(q) => want'[q] = want[q]
                         /\ lapsed'[q] <=> lapsed[q]
  PROVE  Granted' = Granted /\ lapsed' = lapsed
<1>1. Granted' = Granted
  BY DEF Granted
<1>2. \A q \in Proc : lapsed'[q] = lapsed[q]
  <2>1. \A q \in Proc : lapsed[q] \in BOOLEAN /\ lapsed'[q] \in BOOLEAN
    BY DEF TypeOK
  <2> QED
    BY <2>1
<1>3. lapsed' = lapsed
  BY <1>2 DEF TypeOK
<1> QED
  BY <1>1, <1>3

\* The end of a held lock.
LEMMA SurrenderStep ==
  ASSUME TypeOK, NEW p \in Proc, Holding(p), Reset(p)
  PROVE  Service!Surrender(p)
<1>1. Granted[p] # "none"
  BY DEF Granted, TypeOK, Mode
<1>2. Granted' = [Granted EXCEPT ![p] = "none"]
  BY DEF Granted, Reset, Holding, TypeOK
<1> QED
  BY <1>1, <1>2 DEF Service!Surrender, Granted, Reset

LEMMA GrantStep ==
  ASSUME TypeOK, TimerInv, MutualExclusion', NEW p \in Proc, RecheckPasses(p),
         NEW k, k = want[p]
  PROVE  Service!Grant(p, k)
<1>1. ~Holding(p) /\ Holding(p)' /\ ~lapsed[p] /\ want' = want /\ lapsed' = lapsed
  BY DEF RecheckPasses, TimerInv, Holding, TypeOK
<1>2. \A q \in Proc \ {p} : Holding(q)' <=> Holding(q)
  BY DEF RecheckPasses, Holding, TypeOK
<1>3. Granted[p] = "none"
  BY <1>1 DEF Granted
<1>4. ASSUME NEW q \in Proc \ {p}, Service!Clash(k, Granted[q])
      PROVE  lapsed[q]
  <2>1. Holding(q) /\ Clash(want[p], want[q])
    BY <1>4 DEF Service!Clash, Granted, Clash
  <2> QED
    BY <1>1, <1>2, <2>1 DEF MutualExclusion
<1>5. Granted' = [Granted EXCEPT ![p] = k]
  BY <1>1, <1>2 DEF Granted
<1>6. lapsed' = [lapsed EXCEPT ![p] = FALSE]
  BY <1>1 DEF TypeOK
<1> QED
  BY <1>3, <1>4, <1>5, <1>6 DEF Service!Grant, Granted

LEMMA LapseStep ==
  ASSUME TypeOK, NEW n \in Name, Age(n)
  PROVE  Service!Lapse(n[1]) \/ (Granted' = Granted /\ lapsed' = lapsed)
<1> DEFINE p == n[1]
<1>1. p \in Proc /\ n # None
  BY Names DEF Name
<1>2. \A q \in Proc \ {p} : n \notin {own[q], next[q]}
  BY <1>1, Names DEF TypeOK
<1>3. Granted' = Granted
  BY DEF Age, Granted, Holding
<1>4. CASE Holding(p) /\ n \in {own[p], next[p]}
  <2>1. lapsed' = [lapsed EXCEPT ![p] = TRUE]
    <3>1. \A q \in Proc : lapsed'[q] = IF q = p THEN TRUE ELSE lapsed[q]
      BY <1>1, <1>2, <1>4 DEF Age, Holding
    <3>2. lapsed' \in [Proc -> BOOLEAN] /\ lapsed \in [Proc -> BOOLEAN]
      BY DEF Age, TypeOK
    <3> QED
      BY <3>1, <3>2
  <2>2. Granted[p] # "none"
    BY <1>1, <1>4 DEF Granted, TypeOK, Mode
  <2> QED
    BY <1>1, <1>3, <2>1, <2>2 DEF Service!Lapse, Granted
<1>5. CASE ~(Holding(p) /\ n \in {own[p], next[p]})
  <2>1. lapsed' = lapsed
    <3>1. \A q \in Proc : lapsed'[q] = lapsed[q]
      BY <1>2, <1>5 DEF Age, Holding, TypeOK
    <3>2. lapsed' \in [Proc -> BOOLEAN] /\ lapsed \in [Proc -> BOOLEAN]
      BY DEF Age, TypeOK
    <3> QED
      BY <3>1, <3>2
  <2> QED
    BY <1>3, <2>1
<1> QED
  BY <1>4, <1>5

LEMMA ServiceStep ==
  ASSUME TypeOK, TypeOK', TimerInv, MutualExclusion', [Next]_vars
  PROVE  [Service!ServiceNext]_<<Granted, lapsed>>
<1> DEFINE Step == [Service!ServiceNext]_<<Granted, lapsed>>
           Quiet == \A q \in Proc : /\ Holding(q)' <=> Holding(q)
                                    /\ Holding(q) => want'[q] = want[q]
                                    /\ lapsed'[q] <=> lapsed[q]
<1>0. Quiet => Step
  BY Stutter
<1> HIDE DEF Step
<1>1. ASSUME NEW p \in Proc, NEW m \in Mode, Begin(p, m) PROVE Step
  <2>1. Quiet
    BY <1>1 DEF Begin, TypeOK, TimerInv, Holding
  <2> QED
    BY <1>0, <2>1
<1>2. ASSUME NEW p \in Proc, NEW n \in Name, ReadLock(p, n) PROVE Step
  <2>1. Quiet
    BY <1>2 DEF ReadLock, TypeOK, TimerInv, Holding
  <2> QED
    BY <1>0, <2>1
<1>3. ASSUME NEW p \in Proc, FirstCheckFails(p) PROVE Step
  <2>1. Quiet
    BY <1>3 DEF FirstCheckFails, Reset, TypeOK, TimerInv, Holding
  <2> QED
    BY <1>0, <2>1
<1>4. ASSUME NEW p \in Proc, FirstCheckPasses(p) PROVE Step
  <2>1. Quiet
    BY <1>4 DEF FirstCheckPasses, TypeOK, TimerInv, Holding
  <2> QED
    BY <1>0, <2>1
<1>5. ASSUME NEW p \in Proc, WriteLock(p) PROVE Step
  <2>1. Quiet
    BY <1>5 DEF WriteLock, TypeOK, TimerInv, Holding
  <2> QED
    BY <1>0, <2>1
<1>6. ASSUME NEW p \in Proc, WriteLockFails(p) PROVE Step
  <2>1. Quiet
    BY <1>6 DEF WriteLockFails, Reset, TypeOK, TimerInv, Holding
  <2> QED
    BY <1>0, <2>1
<1>7. ASSUME NEW p \in Proc, Recheck(p) PROVE Step
  <2>1. Quiet
    BY <1>7 DEF Recheck, TypeOK, TimerInv, Holding
  <2> QED
    BY <1>0, <2>1
<1>8. ASSUME NEW p \in Proc, RecheckFails(p) PROVE Step
  <2>1. Quiet
    BY <1>8 DEF RecheckFails, TypeOK, TimerInv, Holding
  <2> QED
    BY <1>0, <2>1
<1>9. ASSUME NEW p \in Proc, Backoff(p) PROVE Step
  <2>1. Quiet
    BY <1>9 DEF Backoff, Reset, TypeOK, TimerInv, Holding
  <2> QED
    BY <1>0, <2>1
<1>10. ASSUME NEW p \in Proc, RecheckPasses(p) PROVE Step
  <2>1. PICK k \in Service!Kinds : k = want[p]
    BY DEF Service!Kinds, TypeOK, Mode
  <2>2. Service!Grant(p, k)
    BY <1>10, <2>1, GrantStep
  <2>3. Service!ServiceNext
    BY <2>2 DEF Service!ServiceNext
  <2> QED
    BY <2>3 DEF Step
<1>11. ASSUME NEW p \in Proc, RefreshStart(p) PROVE Step
  <2>1. Quiet
    BY <1>11 DEF RefreshStart, TypeOK, TimerInv, Holding
  <2> QED
    BY <1>0, <2>1
<1>12. ASSUME NEW p \in Proc, RefreshWrite(p) PROVE Step
  <2>1. Quiet
    BY <1>12 DEF RefreshWrite, TypeOK, TimerInv, Holding
  <2> QED
    BY <1>0, <2>1
<1>13. ASSUME NEW p \in Proc, RefreshWriteFails(p) PROVE Step
  <2>1. Quiet
    BY <1>13 DEF RefreshWriteFails, Rearm, TypeOK, TimerInv, Holding
  <2> QED
    BY <1>0, <2>1
<1>14. ASSUME NEW p \in Proc, RefreshRemove(p) PROVE Step
  <2>1. Quiet
    BY <1>14 DEF RefreshRemove, Rearm, TypeOK, TimerInv, Holding
  <2> QED
    BY <1>0, <2>1
<1>15. ASSUME NEW p \in Proc, Stop(p) PROVE Step
  <2>1. Quiet
    BY <1>15 DEF Stop, TypeOK, TimerInv, Holding
  <2> QED
    BY <1>0, <2>1
<1>16. ASSUME NEW p \in Proc, DropRemove(p) PROVE Step
  BY <1>16, SurrenderStep DEF Step, Service!ServiceNext, DropRemove, Holding
<1>17. ASSUME NEW p \in Proc, Crash(p) PROVE Step
  <2>1. CASE Holding(p)
    BY <1>17, <2>1, SurrenderStep DEF Step, Service!ServiceNext, Crash
  <2>2. CASE ~Holding(p)
    <3>1. Quiet
      BY <1>17, <2>2 DEF Crash, Reset, TypeOK, TimerInv, Holding
    <3> QED
      BY <1>0, <3>1
  <2> QED
    BY <2>1, <2>2
<1>18. ASSUME NEW n \in Name, Age(n) PROVE Step
  BY <1>18, LapseStep, Names DEF Step, Service!ServiceNext, Name
<1>19. ASSUME NEW n \in Name, RemoveStale(n) PROVE Step
  <2>1. Quiet
    BY <1>19 DEF RemoveStale, TypeOK, TimerInv, Holding
  <2> QED
    BY <1>0, <2>1
<1>20. ASSUME UNCHANGED vars PROVE Step
  <2>1. Quiet
    BY <1>20 DEF vars, Holding
  <2> QED
    BY <1>0, <2>1
<1> QED
  BY <1>1, <1>2, <1>3, <1>4, <1>5, <1>6, <1>7, <1>8, <1>9, <1>10, <1>11, <1>12,
     <1>13, <1>14, <1>15, <1>16, <1>17, <1>18, <1>19, <1>20
  DEF Next, Acquire, Hold, Step

\* RepoLock implements the readers-writer lock with lapsing grants: an
\* operation that holds a RepoLock may rely on LockService alone.
THEOREM Implementation ==
  ASSUME Prompt
  PROVE  Spec => ImplementsService
<1>1. Init => Service!ServiceInit
  BY DEF Init, Service!ServiceInit, Holding
<1>2. IInv /\ IInv' /\ [Next]_vars => [Service!ServiceNext]_<<Granted, lapsed>>
  BY ServiceStep DEF IInv
<1> QED
  BY <1>1, <1>2, Invariance, PTL DEF Spec, ImplementsService, Service!ServiceSpec,
     Service!serviceVars, Granted
=============================================================================
