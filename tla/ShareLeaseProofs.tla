-------------------------- MODULE ShareLeaseProofs --------------------------
(* Proofs about ShareLease. *)
EXTENDS ShareLease, TLAPS

\* The lock protects a share that is being opened or served.
Covered == share \in {"opening", "serving"}

\* A refresh in flight: its file was stamped recently, and is there once
\* written.
InFlightInv ==
  /\ ref # "timer" => nstamp <= MaxLag + slept
  /\ ref = "remove" => nlive

\* The file is older than last_refresh by the lag and the time suspended.
AgeInv == elapsed <= PoisonAfter => stamp <= elapsed + MaxLag + slept

\* While the index loads the file ages with it; later the poll keeps up.
OpeningInv == share = "opening" => stamp <= opened + MaxLag + slept
ServingInv ==
  share = "serving" =>
    /\ ~due => elapsed <= PoisonAfter
    /\ \/ stamp <= opened + MaxLag + slept
       \/ stamp <= PoisonAfter + 1 + MaxLag + slept

LeaseInv ==
  Covered /\ InTime =>
    /\ live
    /\ ~overtaken
    /\ InFlightInv
    /\ AgeInv
    /\ OpeningInv
    /\ ServingInv

----------------------------------------------------------------------------
LEMMA PoisonType == PoisonAfter \in Nat
BY ConstantsOK DEF PoisonAfter

LEMMA InitType == Init => TypeOK
<1>1. Init => Ranges
  BY ConstantsOK, PoisonType DEF Init, Ranges
<1>2. Init => Flags /\ Links
  BY Zenon DEF Init, Flags, Links
<1> QED
  BY <1>1, <1>2 DEF TypeOK

LEMMA RangesStep == Ranges /\ [Next]_vars => Ranges'
<1> SUFFICES ASSUME Ranges, [Next]_vars PROVE Ranges'
  OBVIOUS
<1> USE ConstantsOK, PoisonType
<1>1. CASE Acquire
  BY <1>1 DEF Ranges, Acquire, UpTo, WallAge
<1>2. CASE OpenFails \/ StartServing \/ Poll \/ StopServing
  <2>1. /\ share' \in {"off", "opening", "serving", "stopping"}
        /\ UNCHANGED <<stamp, ref, nstamp, wait, elapsed, opened, failed, slept>>
    BY Zenon, <1>2 DEF OpenFails, StartServing, Poll, StopServing, lockVars
  <2> QED
    BY <2>1 DEF Ranges
<1>3. CASE DropLock
  BY <1>3 DEF Ranges, DropLock
<1>4. CASE RefreshStart \/ RefreshWrite
  BY <1>4 DEF Ranges, RefreshStart, RefreshWrite
<1>5. CASE RefreshFails
  BY <1>5 DEF Ranges, RefreshFails, UpTo
<1>6. CASE RefreshDone
  BY <1>6 DEF Ranges, RefreshDone
<1>7. CASE RemoveStale \/ Overtake
  BY <1>7 DEF Ranges, RemoveStale, Overtake, lockVars
<1>8. CASE Tick
  BY <1>8 DEF Ranges, Tick, UpTo, WallAge
<1>9. ASSUME NEW d \in 1..MaxSuspend, Suspend(d) PROVE Ranges'
  BY <1>9 DEF Ranges, Suspend, UpTo, WallAge
<1>10. CASE UNCHANGED vars
  BY <1>10 DEF Ranges, vars
<1> QED
  BY <1>1, <1>2, <1>3, <1>4, <1>5, <1>6, <1>7, <1>8, <1>9, <1>10
  DEF Next, Main, Refresher

LEMMA FlagsStep == Flags /\ [Next]_vars => Flags'
BY Zenon
DEF Flags, vars, lockVars, Next, Main, Refresher, Acquire, OpenFails,
    StartServing, Poll, Poisoned, StopServing, DropLock, RefreshStart,
    RefreshWrite, RefreshFails, RefreshDone, RemoveStale, Overtake, Tick, Suspend

LEMMA LinksStep == Links /\ [Next]_vars => Links'
<1> SUFFICES ASSUME Links, [Next]_vars PROVE Links'
  OBVIOUS
<1>1. CASE Acquire \/ OpenFails \/ StartServing
  BY <1>1 DEF Links, Held, Acquire, OpenFails, StartServing, lockVars
<1>2. CASE Poll \/ StopServing \/ DropLock
  BY <1>2 DEF Links, Held, Poll, StopServing, DropLock, lockVars
<1>3. CASE Refresher
  BY <1>3
  DEF Links, Held, Refresher, RefreshStart, RefreshWrite, RefreshFails, RefreshDone
<1>4. CASE RemoveStale \/ Overtake \/ UNCHANGED vars
  BY <1>4 DEF Links, Held, RemoveStale, Overtake, lockVars, vars
<1>5. CASE Tick
  BY <1>5, Zenon DEF Links, Held, Tick
<1>6. ASSUME NEW d \in 1..MaxSuspend, Suspend(d) PROVE Links'
  BY <1>6 DEF Links, Held, Suspend
<1> QED
  BY <1>1, <1>2, <1>3, <1>4, <1>5, <1>6 DEF Next, Main

LEMMA NextType == TypeOK /\ [Next]_vars => TypeOK'
BY RangesStep, FlagsStep, LinksStep DEF TypeOK

\* The variables keep their types: ages stay within what their comparisons
\* tell apart, and the refresher is idle once the lock is dropped.
THEOREM TypeCorrect == Spec => []TypeOK
BY InitType, NextType, PTL DEF Spec

----------------------------------------------------------------------------
\* Under one lock the time left only shrinks.
LEMMA InTimeBefore ==
  ASSUME Ranges, [Next]_vars, Covered, InTime'
  PROVE  InTime
<1> USE ConstantsOK, PoisonType DEF ConstantsOK
<1>1. slept <= slept' /\ opened <= opened' /\ {slept', opened'} \subseteq Nat
  <2>1. CASE Tick
    BY <2>1 DEF Ranges, Tick
  <2>2. ASSUME NEW d \in 1..MaxSuspend, Suspend(d) 
       PROVE  slept <= slept' /\ opened <= opened' /\ {slept', opened'} \subseteq Nat
    BY <2>2 DEF Ranges, Suspend
  <2>3. CASE UNCHANGED <<slept, opened>>
    BY <2>3 DEF Ranges
  <2> QED
    BY <2>1, <2>2, <2>3, Zenon
    DEF Next, Main, Refresher, vars, Covered, Acquire, OpenFails, StartServing, Poll,
        StopServing, DropLock, RefreshStart, RefreshWrite, RefreshFails, RefreshDone,
        RemoveStale, Overtake, lockVars
<1> QED
  BY <1>1 DEF InTime, Ranges

LEMMA NextLease == TypeOK /\ LeaseInv /\ [Next]_vars => LeaseInv'
<1> SUFFICES ASSUME Ranges, Links, LeaseInv, [Next]_vars, Covered', InTime'
             PROVE  /\ live'
                    /\ ~overtaken'
                    /\ InFlightInv'
                    /\ AgeInv'
                    /\ OpeningInv'
                    /\ ServingInv'
  BY DEF TypeOK, LeaseInv
<1> USE ConstantsOK, PoisonType DEF ConstantsOK
<1>1. CASE Acquire
  BY <1>1 DEF Ranges, Links, Acquire, Held, UpTo, WallAge,
      InFlightInv, AgeInv, OpeningInv, ServingInv
<1>2. ASSUME Covered
      PROVE  /\ live /\ ~overtaken
             /\ InFlightInv /\ AgeInv /\ OpeningInv /\ ServingInv
             /\ stamp <= StaleTimeout
             /\ ref # "timer" => nstamp <= StaleTimeout
  <2>0. InTime
    BY <1>2, InTimeBefore
  <2>1. live /\ ~overtaken /\ InFlightInv /\ AgeInv /\ OpeningInv /\ ServingInv
    BY <1>2, <2>0 DEF LeaseInv
  <2> QED
    BY <1>2, <2>0, <2>1
    DEF Ranges, InTime, Covered, InFlightInv, OpeningInv, ServingInv
<1>3. CASE OpenFails \/ DropLock
  BY <1>3 DEF OpenFails, DropLock, Covered
<1>4. CASE StartServing
  BY <1>2, <1>4
  DEF Ranges, StartServing, Covered, lockVars, InFlightInv, AgeInv, OpeningInv, ServingInv
<1>5. CASE Poll
  BY <1>2, <1>5
  DEF Ranges, Poll, Poisoned, Covered, lockVars, InFlightInv, AgeInv, OpeningInv, ServingInv
<1>6. CASE StopServing
  BY <1>6 DEF StopServing, Covered
<1>7. CASE RefreshStart
  BY <1>2, <1>7
  DEF Ranges, RefreshStart, Covered, InFlightInv, AgeInv, OpeningInv, ServingInv
<1>8. CASE RefreshWrite
  BY <1>2, <1>8
  DEF Ranges, RefreshWrite, Covered, InFlightInv, AgeInv, OpeningInv, ServingInv
<1>9. CASE RefreshFails
  BY <1>2, <1>9
  DEF Ranges, RefreshFails, Covered, InFlightInv, AgeInv, OpeningInv, ServingInv
<1>10. CASE RefreshDone
  BY <1>2, <1>10
  DEF Ranges, RefreshDone, Covered, InFlightInv, AgeInv, OpeningInv, ServingInv
<1>11. CASE RemoveStale
  <2>1. Covered
    BY <1>11 DEF RemoveStale, Covered
  <2>2. nlive => nstamp <= StaleTimeout
    BY <2>1, <1>2 DEF Links, Ranges
  <2>3. ref = "remove" => nlive
    BY <1>2, <2>1 DEF InFlightInv
  <2>4. /\ ~(live /\ stamp > StaleTimeout)
        /\ ~(nlive /\ nstamp > StaleTimeout)
    BY <1>2, <2>1, <2>2 DEF Ranges
  <2> QED
    BY <1>11, <2>4 DEF RemoveStale
<1>12. CASE Overtake
  BY <1>2, <1>12 DEF Overtake, Covered, lockVars
<1>13. CASE Tick
  <2>1. Covered /\ live' /\ ~overtaken'
    BY <1>2, <1>13 DEF Tick, Covered
  <2>2. InFlightInv'
    BY <2>1, <1>2, <1>13 DEF Ranges, Tick, InFlightInv, WallAge, UpTo
  <2>3. stamp' <= stamp + 1
    BY <1>13 DEF Ranges, Tick, WallAge, UpTo
  <2> DEFINE later == UpTo(elapsed + 1, PoisonAfter + 1)
  <2>4. elapsed' = later /\ slept' = slept /\ share' = share /\ ~due
    BY Zenon, <1>13 DEF Tick
  <2>5. stamp' \in Nat /\ stamp \in Nat /\ slept \in Nat /\ elapsed \in Nat
    BY <1>13 DEF Ranges, Tick, WallAge, UpTo
  <2>6. later <= PoisonAfter => later = elapsed + 1
    BY DEF Ranges, UpTo
  <2>7. AgeInv'
    BY <2>1, <2>3, <2>4, <2>5, <2>6, <1>2 DEF AgeInv
  <2>8. share = "opening" => opened' = opened + 1
    BY Zenon, <1>13 DEF Tick
  <2>9. share = "serving" => opened' = opened /\ due'
    BY Zenon, <1>13 DEF Tick
  <2>10. OpeningInv' /\ ServingInv'
    <3>1. OpeningInv'
      BY <2>1, <2>3, <2>4, <2>5, <2>8, <1>2 DEF Ranges, OpeningInv
    <3>2. share = "serving" => elapsed <= PoisonAfter
      BY <2>1, <2>4, <1>2 DEF ServingInv
    <3>3. share = "serving" => stamp' <= PoisonAfter + 1 + MaxLag + slept'
      BY <3>2, <2>1, <2>3, <2>4, <2>5, <1>2 DEF Ranges, AgeInv
    <3> QED
      BY <3>1, <3>3, <2>4, <2>9 DEF ServingInv
  <2> QED
    BY <2>1, <2>2, <2>7, <2>10
<1>14. ASSUME NEW d \in 1..MaxSuspend, Suspend(d)
       PROVE  /\ live' /\ ~overtaken'
              /\ InFlightInv' /\ AgeInv' /\ OpeningInv' /\ ServingInv'
  <2>1. Covered /\ live' /\ ~overtaken'
    BY <1>2, <1>14 DEF Suspend, Covered
  <2>2. stamp' <= stamp + d /\ nstamp' <= nstamp + d
    BY <1>14 DEF Ranges, Suspend, WallAge, UpTo
  <2>3. slept' = slept + d
    BY <1>14 DEF Suspend
  <2>4. UNCHANGED <<share, live, ref, nlive, elapsed, opened>> /\ (share = "serving" => due')
    BY Zenon, <1>14 DEF Suspend
  <2>5. {stamp, nstamp, stamp', nstamp', slept, elapsed, opened, d} \subseteq Nat
    BY <1>14 DEF Ranges, Suspend, WallAge, UpTo
  <2>6. InFlightInv' /\ AgeInv'
    BY <2>1, <2>2, <2>3, <2>4, <2>5, <1>2 DEF InFlightInv, AgeInv
  <2>7. OpeningInv'
    BY <2>1, <2>2, <2>3, <2>4, <2>5, <1>2 DEF OpeningInv
  <2>8. ServingInv'
    BY <2>1, <2>2, <2>3, <2>4, <2>5, <1>2 DEF ServingInv
  <2> QED
    BY <2>1, <2>6, <2>7, <2>8
<1>15. CASE UNCHANGED vars
  BY <1>2, <1>15
  DEF vars, Covered, InFlightInv, AgeInv, OpeningInv, ServingInv
<1> QED
  BY <1>1, <1>3, <1>4, <1>5, <1>6, <1>7, <1>8, <1>9, <1>10, <1>11, <1>12, <1>13,
     <1>14, <1>15
  DEF Next, Main, Refresher

\* Whatever the protocol's times are, a share that is in time is never served
\* once another process could have taken an exclusive lock under it.
THEOREM ServedLocked == Spec => []NeverServedUnlocked
<1>1. Init => LeaseInv
  BY DEF Init, LeaseInv, Covered
<1>2. LeaseInv => NeverServedUnlocked
  BY DEF LeaseInv, Covered, NeverServedUnlocked
<1> QED
  BY <1>1, <1>2, NextLease, TypeCorrect, PTL DEF Spec
----------------------------------------------------------------------------
(* The timers: one failed refresh is not enough to poison a lock. *)

\* Two refreshes, each an interval of waiting and a write, fit into the time
\* after which a lock is poisoned (refreshability_timeout, 4.5 intervals); the
\* second conjunct says that a write ends before its stamp has grown stale.
TwoTriesFit ==
  /\ 2 * (RefreshInterval + MaxLag) <= PoisonAfter
  /\ MaxLag <= StaleTimeout

\* What the failed refreshes took since the last success.
Lost == IF failed = 0 THEN 0 ELSE RefreshInterval + MaxLag

\* last_refresh is as old as what was lost, the timer and the write in flight.
PaceInv ==
  Covered /\ failed < 2 =>
    /\ ref = "timer" => elapsed <= Lost + wait
    /\ ref # "timer" =>
         /\ elapsed <= Lost + RefreshInterval + nstamp
         /\ elapsed <= Lost + RefreshInterval + MaxLag

LEMMA LostType == ASSUME Ranges PROVE Lost \in Nat
BY ConstantsOK DEF Ranges, Lost

LEMMA NextPace ==
  ASSUME TwoTriesFit, TypeOK, PaceInv, [Next]_vars
  PROVE  PaceInv'
<1> USE ConstantsOK, PoisonType DEF ConstantsOK
<1>0. Ranges /\ Links
  BY DEF TypeOK
<1> SUFFICES ASSUME Covered', failed' < 2
             PROVE  /\ ref' = "timer" => elapsed' <= Lost' + wait'
                    /\ ref' # "timer" =>
                         /\ elapsed' <= Lost' + RefreshInterval + nstamp'
                         /\ elapsed' <= Lost' + RefreshInterval + MaxLag
  BY DEF PaceInv
<1>1. CASE Acquire
  BY <1>0, <1>1 DEF Acquire, Links, Held, Lost
<1>2. CASE OpenFails \/ StopServing \/ DropLock
  BY <1>2 DEF OpenFails, StopServing, DropLock, Covered
<1>3. CASE StartServing \/ Poll
  BY <1>3 DEF StartServing, Poll, Covered, lockVars, PaceInv, Lost
<1>4. CASE RefreshStart
  BY <1>0, <1>4 DEF RefreshStart, Ranges, Covered, PaceInv, Lost
<1>5. CASE RefreshWrite
  BY <1>0, <1>5 DEF RefreshWrite, Ranges, Covered, PaceInv, Lost
<1>6. CASE RefreshFails
  <2>1. failed = 0 /\ failed' = 1 /\ Covered
    BY <1>0, <1>6 DEF RefreshFails, Ranges, UpTo, Covered
  <2> QED
    BY <1>0, <1>6, <2>1 DEF RefreshFails, Ranges, PaceInv, Lost
<1>7. CASE RefreshDone
  BY <1>0, <1>7 DEF RefreshDone, Ranges, Lost
<1>8. CASE RemoveStale \/ Overtake \/ UNCHANGED vars
  BY <1>8 DEF RemoveStale, Overtake, vars, lockVars, Covered, PaceInv, Lost
<1>9. CASE Tick
  <2>1. /\ UNCHANGED <<share, ref, failed>>
        /\ elapsed' = UpTo(elapsed + 1, PoisonAfter + 1)
        /\ wait' = UpTo(wait + 1, RefreshInterval)
        /\ Covered
    BY Zenon, <1>9 DEF Tick, Covered
  <2>2. Lost' = Lost /\ Lost \in Nat
    BY <1>0, <2>1, LostType DEF Lost
  <2>3. elapsed' <= elapsed + 1 /\ elapsed \in Nat /\ elapsed' \in Nat
    BY <1>0, <2>1 DEF Ranges, UpTo
  <2>4. CASE ref = "timer"
    <3>1. wait < RefreshInterval
      BY <1>9, <2>1, <2>4 DEF Tick, Covered
    <3>2. wait' = wait + 1 /\ wait \in Nat
      BY <1>0, <2>1, <3>1 DEF Ranges, UpTo
    <3> QED
      BY <2>1, <2>2, <2>3, <2>4, <3>2 DEF PaceInv
  <2>5. CASE ref # "timer"
    <3>1. nstamp < MaxLag /\ nstamp' = WallAge(nstamp, 1)
      BY <1>9, <2>5 DEF Tick
    <3>2. nstamp' = nstamp + 1 /\ nstamp \in Nat
      BY <1>0, <3>1 DEF Ranges, WallAge, UpTo, TwoTriesFit
    <3> QED
      BY <2>1, <2>2, <2>3, <2>5, <3>1, <3>2 DEF PaceInv
  <2> QED
    BY <2>4, <2>5
<1>10. ASSUME NEW d \in 1..MaxSuspend, Suspend(d)
       PROVE  /\ ref' = "timer" => elapsed' <= Lost' + wait'
              /\ ref' # "timer" =>
                   /\ elapsed' <= Lost' + RefreshInterval + nstamp'
                   /\ elapsed' <= Lost' + RefreshInterval + MaxLag
  <2>1. UNCHANGED <<share, ref, wait, elapsed, failed>> /\ Lost' = Lost
    BY Zenon, <1>10 DEF Suspend, Lost
  <2>2. ref # "timer" => nstamp' = WallAge(nstamp, d)
    BY <1>10 DEF Suspend
  <2>3. CASE ref # "timer"
    <3>1. elapsed <= Lost + RefreshInterval + nstamp
          /\ elapsed <= Lost + RefreshInterval + MaxLag
      BY <2>1, <2>3 DEF PaceInv, Covered
    <3>2. \/ nstamp' = nstamp + d
          \/ nstamp' = StaleTimeout + 1
      BY <2>2, <2>3 DEF WallAge, UpTo
    <3>3. d \in Nat /\ nstamp \in Nat /\ elapsed \in Nat /\ Lost \in Nat
      BY <1>0, LostType DEF Ranges
    <3>4. elapsed <= Lost + RefreshInterval + nstamp'
      BY <3>1, <3>2, <3>3 DEF TwoTriesFit
    <3> QED
      BY <2>1, <2>3, <3>1, <3>4
  <2> QED
    BY <2>1, <2>3 DEF PaceInv, Covered
<1> QED
  BY <1>1, <1>2, <1>3, <1>4, <1>5, <1>6, <1>7, <1>8, <1>9, <1>10
  DEF Next, Main, Refresher

\* While a write takes no more than one and a quarter of the refresh interval,
\* RepoLock::poisoned gives a lock up only after two failed refreshes.
THEOREM StopsForTwoFailures == TwoTriesFit => (Spec => NoSpuriousStop)
<1> SUFFICES ASSUME TwoTriesFit PROVE Spec => NoSpuriousStop
  OBVIOUS
<1>1. Init => PaceInv
  BY DEF Init, PaceInv, Covered
<1>2. TypeOK /\ PaceInv /\ [Next]_vars => PaceInv'
  BY NextPace
<1>3. TypeOK /\ PaceInv /\ [Next]_vars => [~poisoned /\ poisoned' => failed = 2]_vars
  <2> SUFFICES ASSUME TypeOK, PaceInv, Next, ~poisoned, poisoned' PROVE failed = 2
    OBVIOUS
  <2>1. Poll
    BY Zenon DEF Next, Main, Refresher, Acquire, OpenFails, StartServing, StopServing,
       DropLock, RefreshStart, RefreshWrite, RefreshFails, RefreshDone, RemoveStale,
       Overtake, Tick, Suspend, lockVars
  <2>2. elapsed > PoisonAfter /\ Covered
    BY <2>1 DEF Poll, Poisoned, Covered
  <2>3. Ranges
    BY DEF TypeOK
  <2>4. failed < 2 => elapsed <= 2 * (RefreshInterval + MaxLag)
    BY <2>2, <2>3, ConstantsOK, PoisonType DEF PaceInv, Lost, Ranges
  <2> QED
    BY <2>2, <2>3, <2>4, ConstantsOK, PoisonType DEF TwoTriesFit, Ranges
<1> QED
  BY <1>1, <1>2, <1>3, TypeCorrect, PTL DEF Spec, NoSpuriousStop
=============================================================================
