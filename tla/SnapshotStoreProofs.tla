------------------------ MODULE SnapshotStoreProofs ------------------------
(* Proofs about SnapshotStore, for any processes, tags, files and faults. *)
EXTENDS SnapshotStore, TLAPS

LEMMA NoJobType == NoJob \in Job
BY StoreConstants DEF NoJob, Job, Op, Id, Tags

LEMMA InitType == Init => TypeOK
<1> SUFFICES ASSUME Init PROVE TypeOK
  OBVIOUS
<1> USE StoreConstants, NoJobType
<1>1. content \in [Id -> Snapshot]
  BY DEF Init, Backup, Snapshot, Id, Tags
<1>2. Ranges
  BY <1>1 DEF Init, Ranges, Id, Step, Lock!ServiceInit
<1>3. \A p \in Proc : pc[p] = "idle" /\ granted[p] = "none" /\ job[p] = NoJob
  BY DEF Init, Lock!ServiceInit
<1>4. NoJob.id = 1 /\ last = Backups
  BY DEF Init, NoJob
<1>5. Links
  <2>1. 1 <= Backups
    OBVIOUS
  <2> QED
    BY <1>3, <1>4, <2>1 DEF Links, Link, Replacing
<1> QED
  BY <1>2, <1>5 DEF TypeOK, Init, Id

\* What the calls on the repository do to the files.
LEMMA StoreEffect ==
  ASSUME TypeOK, NEW p \in Proc, pc[p] = "write", NEW s \in BOOLEAN, Store(p, s)
  PROVE  /\ last' = last + 1 /\ last' \in Backups..MaxId /\ last + 1 \in Id
         /\ there' = there \cup {last + 1} /\ there' \subseteq 1..last'
         /\ content' \in [Id -> Snapshot]
         /\ content'[last + 1] = [tree |-> content[job[p].id].tree, tags |-> job[p].tags,
                                  original |-> Original(job[p].id), sound |-> s]
         /\ \A i \in 1..last : content'[i] = content[i]
         /\ job[p].id \in 1..last
<1> DEFINE j == job[p]
<1>1. j \in Job /\ j.id \in 1..last /\ last \in Nat /\ last \in Backups..MaxId
  BY StoreConstants DEF TypeOK, Ranges, Links, Link, Job, Id
<1>2. content[j.id] \in Snapshot
  BY <1>1, StoreConstants DEF TypeOK, Ranges, Id
<1>3. Original(j.id) \in Id \cup {0}
  BY <1>1, <1>2, StoreConstants DEF Original, Snapshot, Id
<1> DEFINE f == [tree |-> content[j.id].tree, tags |-> j.tags,
                 original |-> Original(j.id), sound |-> s]
<1>4. f \in Snapshot
  BY <1>1, <1>2, <1>3 DEF Snapshot, Job
<1>5. last + 1 \in Id /\ last' = last + 1 /\ there' = there \cup {last + 1}
      /\ content' = [content EXCEPT ![last + 1] = f]
  BY <1>1, StoreConstants DEF Store, Id
<1> HIDE DEF f
<1>6. content \in [Id -> Snapshot] /\ there \subseteq 1..last
  BY DEF TypeOK, Ranges
<1>7. content' \in [Id -> Snapshot] /\ content'[last + 1] = f
      /\ \A i \in 1..last : content'[i] = content[i]
  BY <1>1, <1>4, <1>5, <1>6
<1>8. last' \in Backups..MaxId
  BY <1>1, <1>5, StoreConstants DEF Id
<1>9. there' \subseteq 1..last'
  <2>1. 1..last \subseteq 1..last' /\ last + 1 \in 1..last'
    BY <1>1, <1>5
  <2> QED
    BY <1>5, <1>6, <2>1
<1> QED
  BY <1>1, <1>5, <1>7, <1>8, <1>9 DEF f

\* How a step moves a process on.
LEMMA GotoEffect ==
  ASSUME Ranges, NEW p \in Proc, NEW s \in Step, Goto(p, s)
  PROVE  /\ pc' \in [Proc -> Step]
         /\ pc'[p] = s
         /\ \A q \in Proc \ {p} : pc'[q] = pc[q]
BY DEF Ranges, Goto

LEMMA FaultEffect ==
  ASSUME Ranges, Fault
  PROVE  faults' \in 0..MaxFaults /\ faults' # 0
BY StoreConstants DEF Ranges, Fault

LEMMA BeginAcquires ==
  ASSUME TypeOK, NEW p \in Proc, Begin(p)
  PROVE  \E i \in Listed, op \in Op, ts \in Tags : Acquire(p, op, i, ts)
<1>1. {} \in Tags /\ {"delete", "retag", "prune"} = Op /\ 1 \in Listed
  BY StoreConstants DEF Tags, Op, Listed, TypeOK, Ranges
<1> QED
  BY <1>1 DEF Begin, Op

LEMMA Steps == [Next]_vars => UNCHANGED shared \/ \E p \in Proc : Work(p)
BY DEF Next, Show, vars

LEMMA CacheStep == TypeOK /\ [Next]_vars => cache' \in [Proc -> SUBSET Id]
<1> SUFFICES ASSUME TypeOK, [Next]_vars PROVE cache' \in [Proc -> SUBSET Id]
  OBVIOUS
<1>1. cache \in [Proc -> SUBSET Id] /\ Ranges
  BY DEF TypeOK
<1>2. ASSUME NEW p \in Proc, NEW s \in SUBSET Id, Cached(p, s)
      PROVE  cache' \in [Proc -> SUBSET Id]
  BY <1>1, <1>2 DEF Cached
<1>3. ASSUME NEW p \in Proc, Remove(p) \/ RemoveFails(p) PROVE cache' \in [Proc -> SUBSET Id]
  <2>1. {job[p].id} \cap there \in SUBSET Id
    BY <1>1 DEF Ranges, Job
  <2> QED
    BY <1>2, <1>3, <2>1 DEF Remove, RemoveFails
<1>4. ASSUME NEW p \in Proc, Show(p) PROVE cache' \in [Proc -> SUBSET Id]
  BY <1>1, <1>4 DEF Show
<1>5. ASSUME NEW p \in Proc, Work(p), ~Remove(p), ~RemoveFails(p) PROVE cache' = cache
  BY <1>5
  DEF Work, Begin, Acquire, Take, Open, OpenFails, Retag, Write, WriteFails, Verify,
      VerifyFails, Discard, Scan, Sweep, Release, Crash, Leave, Lapse, seen
<1> QED
  BY <1>1, <1>3, <1>4, <1>5 DEF Next, vars

LEMMA RangesStep == TypeOK /\ [Next]_vars => Ranges'
<1> SUFFICES ASSUME Ranges, TypeOK, [Next]_vars PROVE Ranges'
  BY DEF TypeOK
<1> USE StoreConstants, NoJobType DEF seen
<1>1. ASSUME NEW p \in Proc, Begin(p) PROVE Ranges'
  <2>1. PICK i \in Listed, op \in Op, ts \in Tags : Acquire(p, op, i, ts)
    BY <1>1, BeginAcquires
  <2>2. [op |-> op, id |-> i, tags |-> ts] \in Job
    BY DEF Ranges, Job, Listed, Id
  <2>3. job' \in [Proc -> Job]
    BY <2>1, <2>2 DEF Ranges, Acquire, Take
  <2>4. pc' \in [Proc -> Step]
    BY <2>1, GotoEffect DEF Step, Acquire, Take
  <2>5. granted' \in [Proc -> {"none", "exclusive"}] /\ lapsed' \in [Proc -> BOOLEAN]
    BY <2>1 DEF Ranges, Acquire, Lock!Grant
  <2> QED
    BY <2>1, <2>3, <2>4, <2>5 DEF Ranges, Acquire, Take, files
<1>2. ASSUME NEW p \in Proc, Open(p) \/ OpenFails(p) PROVE Ranges'
  <2>1. pc' \in [Proc -> Step]
    BY <1>2, GotoEffect DEF Step, Open, OpenFails
  <2>2. stale' \subseteq Id
    <3>1. content[job[p].id].tree \in Id
      BY DEF Ranges, Job, Snapshot
    <3> QED
      BY <1>2, <3>1 DEF Ranges, Open, OpenFails
  <2> QED
    BY <1>2, <2>1, <2>2 DEF Ranges, Open, OpenFails, files
<1>3. ASSUME NEW p \in Proc, Verify(p) \/ VerifyFails(p) \/ RemoveFails(p)
      PROVE  Ranges'
  <2>1. pc' \in [Proc -> Step]
    BY <1>3, GotoEffect DEF Step, Verify, VerifyFails, RemoveFails
  <2>2. faults' \in 0..MaxFaults
    BY <1>3, FaultEffect DEF Ranges, Verify, VerifyFails, RemoveFails
  <2> QED
    BY <1>3, <2>1, <2>2 DEF Ranges, Verify, VerifyFails, RemoveFails, files
<1>4. ASSUME NEW p \in Proc, Write(p) PROVE Ranges'
  <2>1. PICK s \in BOOLEAN : Store(p, s)
    BY <1>4 DEF Write
  <2>2. pc[p] = "write" /\ pc' \in [Proc -> Step]
    BY <1>4, GotoEffect DEF Step, Write
  <2>3. faults' \in 0..MaxFaults
    BY <1>4, FaultEffect DEF Ranges, Write
  <2>4. new' \in [Proc -> 0..last']
    <3>1. last \in Nat /\ last' = last + 1 /\ new \in [Proc -> 0..last]
      BY <2>1 DEF Ranges, Store
    <3>2. new' = [new EXCEPT ![p] = last + 1]
      BY <1>4 DEF Write
    <3> QED
      BY <3>1, <3>2
  <2> QED
    BY <1>4, <2>1, <2>2, <2>3, <2>4, StoreEffect DEF Ranges, Write
<1>5. ASSUME NEW p \in Proc, WriteFails(p) PROVE Ranges'
  <2>1. pc[p] = "write" /\ pc' \in [Proc -> Step]
    BY <1>5, GotoEffect DEF Step, WriteFails
  <2>2. faults' \in 0..MaxFaults
    BY <1>5, FaultEffect DEF Ranges, WriteFails
  <2>3. CASE UNCHANGED files
    BY <1>5, <2>1, <2>2, <2>3 DEF Ranges, WriteFails, files
  <2>4. ASSUME NEW s \in BOOLEAN, Store(p, s) PROVE Ranges'
    <3>1. last' = last + 1 /\ new' = new
      BY <1>5, <2>4 DEF WriteFails, Store
    <3>2. new' \in [Proc -> 0..last']
      BY <3>1 DEF Ranges
    <3> QED
      BY <1>5, <2>1, <2>2, <2>4, <3>2, StoreEffect DEF Ranges, WriteFails
  <2> QED
    BY <1>5, <2>3, <2>4 DEF WriteFails
<1>6. ASSUME NEW p \in Proc, Discard(p) \/ Sweep(p) PROVE Ranges'
  <2>1. pc' \in [Proc -> Step]
    BY <1>6, GotoEffect DEF Step, Discard, Sweep
  <2>2. faults' \in 0..MaxFaults
    BY <1>6, FaultEffect DEF Ranges, Discard, Sweep
  <2> QED
    BY <1>6, <2>1, <2>2 DEF Ranges, Discard, Sweep, files
<1>7. ASSUME NEW p \in Proc, Remove(p) PROVE Ranges'
  <2>1. content[job[p].id].tree \in Id
    BY DEF Ranges, Job, Snapshot
  <2>2. pc' \in [Proc -> Step]
    BY <1>7, GotoEffect DEF Step, Remove
  <2> QED
    BY <1>7, <2>1, <2>2 DEF Ranges, Remove
<1>8. ASSUME NEW p \in Proc, Scan(p) PROVE Ranges'
  <2>1. {content[i].tree : i \in there} \subseteq Id
    <3>1. \A i \in there : i \in Id
      BY DEF Ranges, Id
    <3> QED
      BY <3>1 DEF Ranges, Snapshot
  <2>2. pc' \in [Proc -> Step]
    BY <1>8, GotoEffect DEF Step, Scan
  <2> QED
    BY <1>8, <2>1, <2>2 DEF Ranges, Scan, files
<1>9. ASSUME NEW p \in Proc, Release(p) \/ Crash(p) PROVE Ranges'
  <2>1. Leave(p) /\ faults' \in 0..MaxFaults
    BY <1>9, FaultEffect DEF Ranges, Release, Crash
  <2>2. pc' \in [Proc -> Step]
    BY <2>1, GotoEffect DEF Step, Leave
  <2>3. new' \in [Proc -> 0..last]
    BY <2>1 DEF Ranges, Leave
  <2> QED
    BY <2>1, <2>2, <2>3 DEF Ranges, Leave, files, Lock!Surrender
<1>10. ASSUME NEW p \in Proc, Lapse(p) PROVE Ranges'
  BY <1>10 DEF Ranges, Lapse, files, work, Lock!Lapse
<1>11. CASE UNCHANGED shared
  BY <1>11 DEF Ranges, shared, files, work
<1> QED
  BY <1>1, <1>2, <1>3, <1>4, <1>5, <1>6, <1>7, <1>8, <1>9, <1>10, <1>11, Steps DEF Work, Retag

\* A step of p leaves the work of the others and what was written alone.
LEMMA Frame ==
  ASSUME TypeOK, NEW p \in Proc, Work(p)
  PROVE  /\ \A q \in Proc \ {p} :
              /\ pc'[q] = pc[q] /\ job'[q] = job[q] /\ new'[q] = new[q]
              /\ keep'[q] = keep[q] /\ granted'[q] = granted[q]
         /\ last <= last' /\ last' \in Nat
         /\ \A i \in 1..last : content'[i] = content[i]
<1> USE DEF Goto
<1>0. Ranges /\ last \in Nat
  BY StoreConstants DEF TypeOK, Ranges
<1>1. CASE Begin(p)
  <2>1. PICK i \in Listed, op \in Op, ts \in Tags : Acquire(p, op, i, ts)
    BY <1>1, BeginAcquires
  <2> QED
    BY <1>0, <2>1 DEF Ranges, Acquire, Take, files, Lock!Grant
<1>2. CASE Open(p) \/ OpenFails(p) \/ Verify(p) \/ VerifyFails(p) \/ RemoveFails(p)
  BY <1>0, <1>2 DEF Ranges, Open, OpenFails, Verify, VerifyFails, RemoveFails, files
<1>3. CASE Write(p)
  <2>1. PICK s \in BOOLEAN : Store(p, s)
    BY <1>3 DEF Write
  <2>2. last' = last + 1 /\ \A i \in 1..last : content'[i] = content[i]
    BY <1>3, <2>1, StoreEffect DEF Write
  <2> QED
    BY <1>0, <1>3, <2>2 DEF Ranges, Write
<1>4. CASE WriteFails(p)
  <2>1. last <= last' /\ last' \in Nat /\ \A i \in 1..last : content'[i] = content[i]
    <3>1. CASE UNCHANGED files
      BY <1>0, <3>1 DEF files
    <3>2. ASSUME NEW s \in BOOLEAN, Store(p, s)
          PROVE  last' = last + 1 /\ \A i \in 1..last : content'[i] = content[i]
      BY <1>4, <3>2, StoreEffect DEF WriteFails
    <3> QED
      BY <1>0, <1>4, <3>1, <3>2 DEF WriteFails
  <2> QED
    BY <1>0, <1>4, <2>1 DEF Ranges, WriteFails
<1>5. CASE Discard(p) \/ Remove(p) \/ Scan(p) \/ Sweep(p)
  BY <1>0, <1>5 DEF Ranges, Discard, Remove, Scan, Sweep, files
<1>6. CASE Release(p) \/ Crash(p)
  <2>1. Leave(p)
    BY <1>6 DEF Release, Crash
  <2> QED
    BY <1>0, <2>1 DEF Ranges, Leave, files, Lock!Surrender
<1>7. CASE Lapse(p)
  BY <1>0, <1>7 DEF Ranges, Lapse, files, work, Lock!Lapse
<1> QED
  BY <1>1, <1>2, <1>3, <1>4, <1>5, <1>6, <1>7 DEF Work, Retag

LEMMA LinksStep == TypeOK /\ [Next]_vars => Links'
<1>1. ASSUME TypeOK, UNCHANGED shared PROVE Links'
  BY <1>1 DEF TypeOK, Links, Link, Replacing, shared, files, work
<1>2. ASSUME TypeOK, NEW p \in Proc, Work(p) PROVE Links'
  <2>0. Ranges /\ Link(p) /\ last \in Nat /\ last' \in Nat /\ last <= last'
    <3>1. Ranges /\ Link(p) /\ last \in Nat
      BY <1>2, StoreConstants DEF TypeOK, Links, Ranges
    <3> QED
      BY <1>2, <3>1, Frame
  <2>1. \A q \in Proc : job[q].id \in 1..last /\ new[q] \in 0..last
    BY <1>2 DEF TypeOK, Ranges, Links, Link, Job, Id
  <2>2. ASSUME NEW q \in Proc \ {p} PROVE Link(q)'
    <3>1. /\ pc'[q] = pc[q] /\ job'[q] = job[q] /\ new'[q] = new[q]
          /\ granted'[q] = granted[q]
      BY <1>2, Frame
    <3>2. content'[job[q].id] = content[job[q].id]
      BY <1>2, <2>1, Frame
    <3>3. new[q] > job[q].id => content'[new[q]] = content[new[q]]
      BY <1>2, <2>1, Frame
    <3>4. Link(q)
      BY <1>2 DEF TypeOK, Links
    <3>5. job'[q].id <= last'
      BY <2>0, <2>1, <3>1
    <3>6. pc[q] = "discard" => new[q] > job[q].id
      BY <3>4 DEF Link
    <3> QED
      BY <3>1, <3>2, <3>3, <3>4, <3>5, <3>6 DEF Link, Replacing
  <2> SUFFICES Link(p)'
    BY <2>2 DEF Links
  <2>3. CASE Begin(p)
    <3>1. PICK i \in Listed, op \in Op, ts \in Tags : Acquire(p, op, i, ts)
      BY <1>2, <2>3, BeginAcquires
    <3>2. job'[p].id = i /\ i <= last /\ last' = last
      BY <2>0, <3>1 DEF Ranges, Acquire, Take, files, Listed
    <3>3. pc'[p] = "open" /\ granted'[p] = "exclusive"
      BY <2>0, <3>1 DEF Ranges, Acquire, Take, Goto, Lock!Grant
    <3> QED
      BY <3>2, <3>3 DEF Link, Replacing
  <2>4. CASE Open(p) \/ OpenFails(p)
    <3>1. /\ UNCHANGED <<files, job, new, granted>> /\ pc[p] = "open"
          /\ \/ pc'[p] = "release"
             \/ pc'[p] = "remove" /\ job[p].op = "delete"
             \/ pc'[p] = "write" /\ job[p].op = "retag"
      BY <2>0, <2>4 DEF Ranges, Open, OpenFails, Goto
    <3> QED
      BY <2>0, <3>1 DEF Link, Replacing, files
  <2>5. CASE Write(p)
    <3>1. PICK s \in BOOLEAN : Store(p, s)
      BY <2>5 DEF Write
    <3>2. /\ pc[p] = "write" /\ pc'[p] = "verify" /\ new'[p] = last + 1
          /\ UNCHANGED <<job, granted>>
      BY <2>0, <2>5 DEF Ranges, Write, Goto
    <3>3. last' = last + 1 /\ content'[last + 1].tree = content'[job[p].id].tree
      <4>1. /\ last' = last + 1
            /\ content'[last + 1].tree = content[job[p].id].tree
        <5>1. /\ last' = last + 1
              /\ content'[last + 1] =
                   [tree |-> content[job[p].id].tree, tags |-> job[p].tags,
                    original |-> Original(job[p].id), sound |-> s]
          BY <1>2, <3>1, <3>2, StoreEffect
        <5> QED
          BY <5>1
      <4>2. content'[job[p].id] = content[job[p].id]
        BY <1>2, <2>1, Frame
      <4> QED
        BY <4>1, <4>2
    <3> QED
      BY <2>0, <2>1, <3>2, <3>3 DEF Link, Replacing
  <2>6. CASE WriteFails(p)
    <3>1. pc[p] = "write" /\ pc'[p] = "release" /\ UNCHANGED <<job, granted>>
      BY <2>0, <2>6 DEF Ranges, WriteFails, Goto
    <3> QED
      BY <2>0, <2>1, <3>1 DEF Link, Replacing
  <2>7. CASE Verify(p)
    <3>1. /\ pc[p] = "verify" /\ UNCHANGED <<files, job, new, granted>>
          /\ \/ pc'[p] = "remove"
             \/ pc'[p] = "discard" /\ ~content[new[p]].sound
      BY <2>0, <2>7 DEF Ranges, Verify, Goto
    <3> QED
      BY <2>0, <3>1 DEF Link, Replacing, files
  <2>8. CASE VerifyFails(p) \/ Discard(p) \/ Remove(p) \/ RemoveFails(p) \/ Sweep(p)
    <3>1. /\ pc[p] # "idle" /\ pc'[p] = "release"
          /\ UNCHANGED <<content, last, job, new, granted>>
      BY <2>0, <2>8 DEF Ranges, VerifyFails, Discard, Remove, RemoveFails, Sweep, Goto, files
    <3> QED
      BY <2>0, <3>1 DEF Link, Replacing
  <2>9. CASE Scan(p)
    <3>1. /\ pc[p] = "open" /\ pc'[p] = "sweep" /\ job[p].op = "prune"
          /\ UNCHANGED <<content, last, job, new, granted>>
      BY <2>0, <2>9 DEF Ranges, Scan, Goto, files
    <3> QED
      BY <2>0, <3>1 DEF Link, Replacing
  <2>10. CASE Release(p) \/ Crash(p)
    <3>1. Leave(p)
      BY <2>10 DEF Release, Crash
    <3>2. pc'[p] = "idle" /\ job'[p] = NoJob /\ granted'[p] = "none" /\ last' = last
      BY <2>0, <3>1 DEF Ranges, Leave, Goto, files, Lock!Surrender
    <3>3. NoJob.id = 1 /\ 1 <= last
      BY <2>0, StoreConstants DEF NoJob, Ranges
    <3> QED
      BY <3>2, <3>3 DEF Link, Replacing
  <2>11. CASE Lapse(p)
    BY <2>0, <2>11 DEF Link, Replacing, Lapse, files, work, Lock!Lapse
  <2> QED
    BY <1>2, <2>3, <2>4, <2>5, <2>6, <2>7, <2>8, <2>9, <2>10, <2>11 DEF Work, Retag
<1> QED
  BY <1>1, <1>2, Steps

LEMMA NextType == TypeOK /\ [Next]_vars => TypeOK'
BY RangesStep, LinksStep, CacheStep DEF TypeOK, Next, vars, shared

\* The variables keep their types, and each step its links to lock and files.
THEOREM TypeCorrect == Spec => []TypeOK
BY InitType, NextType, PTL DEF Spec

----------------------------------------------------------------------------
(* Retags never lose a snapshot, whatever lapses and fails. *)

\* A sound file of tree t that no removal under way is going to remove: it is
\* the latest that any of them replaces its file by, or a later one.
Survives(t, i) ==
  /\ Readable(i)
  /\ content[i].tree = t
  /\ \A p \in Proc : Replacing(p) /\ content[job[p].id].tree = t => new[p] <= i

SurvivesInv == \A t \in 1..Backups : t \in doomed \/ \E i \in Id : Survives(t, i)

\* A step that removes no file and begins no removal changes no survivor.
LEMMA SurvivorStays ==
  ASSUME TypeOK, NEW p \in Proc, Work(p), NEW t, NEW i \in 1..last, Survives(t, i),
         i \in there', ~Replacing(p)'
  PROVE  Survives(t, i)'
<1>1. content'[i] = content[i]
  BY Frame
<1>2. ASSUME NEW q \in Proc \ {p}, Replacing(q)', content'[job'[q].id].tree = t
      PROVE  new'[q] <= i
  <2>1. job'[q] = job[q] /\ new'[q] = new[q] /\ Replacing(q)
    BY <1>2, Frame DEF Replacing
  <2>2. content'[job[q].id] = content[job[q].id]
    <3>1. job[q].id \in 1..last
      BY <2>1 DEF TypeOK, Links, Link, Replacing, Ranges, Job, Id
    <3> QED
      BY <3>1, Frame
  <2> QED
    BY <1>2, <2>1, <2>2 DEF Survives
<1> QED
  BY <1>1, <1>2 DEF Survives, Readable

LEMMA SurvivesStep == TypeOK /\ SurvivesInv /\ [Next]_vars => SurvivesInv'
<1>1. ASSUME TypeOK, SurvivesInv, UNCHANGED shared PROVE SurvivesInv'
  BY <1>1 DEF SurvivesInv, Survives, Readable, Replacing, shared, files, work
<1>2. ASSUME TypeOK, SurvivesInv, NEW p \in Proc, Work(p),
             NEW t \in 1..Backups, t \notin doomed'
      PROVE  \E i \in Id : Survives(t, i)'
  <2>1. t \notin doomed
    BY <1>2 DEF Work, Begin, Acquire, Take, Open, OpenFails, Retag, Write, WriteFails,
                Verify, VerifyFails, Discard, Remove, RemoveFails, Scan, Sweep, Release,
                Crash, Leave, Lapse
  <2>2. PICK i \in Id : Survives(t, i)
    BY <1>2, <2>1 DEF SurvivesInv
  <2>3. i \in 1..last /\ Ranges /\ Link(p) /\ job[p].id \in Id
    BY <1>2, <2>2 DEF Survives, Readable, TypeOK, Ranges, Links, Job
  <2>4. CASE Verify(p)
    <3>1. CASE pc'[p] = "remove" /\ content[job[p].id].tree = t /\ new[p] > i
      <4>1. /\ Readable(new[p]) /\ content[new[p]].tree = t
            /\ UNCHANGED <<files, job, new>>
        BY <2>3, <2>4, <3>1 DEF Verify, Goto, Link, Readable, Ranges
      <4>2. ASSUME NEW q \in Proc, Replacing(q)', content[job[q].id].tree = t
            PROVE  new[q] <= new[p]
        <5>1. new[q] \in Nat /\ new[p] \in Nat /\ i \in Nat
          BY <2>3 DEF Ranges, Id
        <5>2. CASE q = p
          BY <5>1, <5>2
        <5>3. CASE q # p
          <6>1. Replacing(q)
            BY <1>2, <4>1, <4>2, <5>3, Frame DEF Replacing
          <6> QED
            BY <2>2, <3>1, <4>2, <5>1, <6>1 DEF Survives
        <5> QED
          BY <5>2, <5>3
      <4>3. Survives(t, new[p])'
        BY <4>1, <4>2 DEF Survives, Readable, files
      <4>4. new[p] \in Id
        BY <1>2, <4>1, StoreConstants DEF Readable, TypeOK, Ranges, Id
      <4> QED
        BY <4>1, <4>3, <4>4
    <3>2. CASE ~(pc'[p] = "remove" /\ content[job[p].id].tree = t /\ new[p] > i)
      <4>1. UNCHANGED <<files, job, new>>
        BY <2>4 DEF Verify
      <4>2. ASSUME NEW q \in Proc, Replacing(q)', content[job[q].id].tree = t
            PROVE  new[q] <= i
        <5>1. new[q] \in Nat /\ i \in Nat
          BY <2>3 DEF Ranges, Id
        <5>2. CASE q = p
          BY <3>2, <4>2, <5>1, <5>2 DEF Replacing
        <5>3. CASE q # p
          <6>1. Replacing(q)
            BY <1>2, <4>1, <4>2, <5>3, Frame DEF Replacing
          <6> QED
            BY <2>2, <4>2, <6>1 DEF Survives
        <5> QED
          BY <5>2, <5>3
      <4> QED
        BY <2>2, <4>1, <4>2 DEF Survives, Readable, files
    <3> QED
      BY <3>1, <3>2
  <2>5. CASE Discard(p)
    <3>1. i # new[p] /\ ~Replacing(p)'
      BY <2>2, <2>3, <2>5 DEF Discard, Goto, Link, Survives, Readable, Ranges, Replacing
    <3>2. i \in there'
      BY <2>2, <2>5, <3>1 DEF Discard, Survives, Readable
    <3> QED
      BY <1>2, <2>2, <2>3, <3>1, <3>2, SurvivorStays
  <2>6. CASE Remove(p)
    <3>1. i # job[p].id
      <4>1. CASE job[p].op = "delete"
        BY <1>2, <2>2, <2>6, <4>1 DEF Remove, Survives, Readable
      <4>2. CASE job[p].op = "retag"
        <5>1. new[p] > job[p].id /\ Replacing(p)
          BY <2>3, <2>6, <4>2 DEF Remove, Link, Replacing
        <5>2. content[job[p].id].tree = t => new[p] <= i
          BY <2>2, <5>1 DEF Survives
        <5>3. i \in Nat /\ new[p] \in Nat /\ job[p].id \in Nat
          BY <2>3 DEF Ranges, Id
        <5> QED
          BY <2>2, <5>1, <5>2, <5>3 DEF Survives
      <4> QED
        BY <2>3, <2>6, <4>1, <4>2 DEF Remove, Link, Ranges, Job, Op
    <3>2. i \in there' /\ ~Replacing(p)'
      BY <2>2, <2>3, <2>6, <3>1 DEF Remove, Goto, Survives, Readable, Ranges, Replacing
    <3> QED
      BY <1>2, <2>2, <2>3, <3>2, SurvivorStays
  <2>7. CASE ~(Verify(p) \/ Discard(p) \/ Remove(p))
    <3>1. there \subseteq there'
      BY <1>2, <2>7 DEF Work, Begin, Acquire, Take, Open, OpenFails, Retag, Write,
                        WriteFails, Store, VerifyFails, RemoveFails, Scan, Sweep,
                        Release, Crash, Leave, Lapse, files
    <3>2. CASE Lapse(p)
      BY <2>2, <3>2 DEF Lapse, Survives, Readable, Replacing, files, work
    <3>3. CASE ~Lapse(p)
      <4>1. ~Replacing(p)'
        <5>1. CASE Open(p)
          BY <2>3, <5>1 DEF Open, Goto, Ranges, Replacing
        <5>2. CASE ~Open(p)
          <6>1. pc'[p] # "remove"
            BY <1>2, <2>3, <2>7, <3>3, <5>2
            DEF Work, Begin, Acquire, Take, OpenFails, Retag, Write, WriteFails,
                VerifyFails, RemoveFails, Scan, Sweep, Release, Crash, Leave, Goto, Ranges
          <6> QED
            BY <6>1 DEF Replacing
        <5> QED
          BY <5>1, <5>2
      <4>2. i \in there'
        BY <2>2, <3>1 DEF Survives, Readable
      <4> QED
        BY <1>2, <2>2, <2>3, <4>1, <4>2, SurvivorStays
    <3> QED
      BY <3>2, <3>3
  <2> QED
    BY <2>4, <2>5, <2>6, <2>7
<1> QED
  BY <1>1, <1>2, Steps DEF SurvivesInv

\* A backup nobody deleted can be read under some name at every moment,
\* whatever retags run at once, lapse, fail or crash.
THEOREM RetagsLoseNothing == Spec => []NeverLost
<1>1. Init => SurvivesInv
  <2> SUFFICES ASSUME Init, NEW t \in 1..Backups PROVE Survives(t, t) /\ t \in Id
    BY DEF SurvivesInv
  <2>1. t \in Id /\ t \in there /\ content[t].sound /\ content[t].tree = t
    BY StoreConstants DEF Init, Id, Backup
  <2> QED
    BY <2>1 DEF Init, Survives, Readable, Replacing
<1>2. SurvivesInv => NeverLost
  BY DEF SurvivesInv, Survives, Readable, NeverLost, Alive
<1> QED
  BY <1>1, <1>2, SurvivesStep, TypeCorrect, PTL DEF Spec

----------------------------------------------------------------------------
(* A snapshot names its first file. *)

OriginalInv ==
  \A i \in 1..last :
    IF i <= Backups THEN content[i].original = 0 /\ content[i].tree = i
                    ELSE content[i].original = content[i].tree

LEMMA OriginalStep == TypeOK /\ OriginalInv /\ [Next]_vars => OriginalInv'
<1>1. ASSUME TypeOK, OriginalInv, UNCHANGED shared PROVE OriginalInv'
  BY <1>1 DEF OriginalInv, shared, files
<1>2. ASSUME TypeOK, OriginalInv, NEW p \in Proc, Work(p) PROVE OriginalInv'
  <2>0. last \in Nat /\ Backups <= last /\ job[p].id \in 1..last /\ job[p].id \in Id
    BY <1>2, StoreConstants DEF TypeOK, Ranges, Links, Link, Job, Id
  <2>1. \A i \in 1..last : content'[i] = content[i]
    BY <1>2, Frame
  <2>2. CASE last' = last
    BY <1>2, <2>1, <2>2 DEF OriginalInv
  <2>3. CASE last' # last
    <3>1. pc[p] = "write" /\ \E s \in BOOLEAN : Store(p, s)
      BY <1>2, <2>3
      DEF Work, Begin, Acquire, Take, Open, OpenFails, Retag, Write, WriteFails,
          Verify, VerifyFails, Discard, Remove, RemoveFails, Scan, Sweep, Release,
          Crash, Leave, Lapse, files
    <3>2. PICK s \in BOOLEAN : Store(p, s)
      BY <3>1
    <3>3. /\ last' = last + 1
          /\ content'[last + 1] =
               [tree |-> content[job[p].id].tree, tags |-> job[p].tags,
                original |-> Original(job[p].id), sound |-> s]
      BY <1>2, <3>1, <3>2, StoreEffect
    <3>4. content[job[p].id].tree # 0
      BY <1>2, <2>0 DEF TypeOK, Ranges, Snapshot, Id
    <3>5. Original(job[p].id) = content[job[p].id].tree
      BY <1>2, <2>0, <3>4 DEF Original, OriginalInv
    <3> QED
      BY <1>2, <2>0, <2>1, <3>3, <3>5, StoreConstants DEF OriginalInv
  <2> QED
    BY <2>2, <2>3
<1> QED
  BY <1>1, <1>2, Steps

\* However often a snapshot was retagged, and by whom, original names the
\* backup it came from.
THEOREM OriginalsKept == Spec => []OriginalKept
<1>1. Init => OriginalInv
  BY StoreConstants DEF Init, OriginalInv, Backup, Id
<1>2. TypeOK /\ OriginalInv => OriginalKept
  BY DEF OriginalInv, OriginalKept, TypeOK, Ranges
<1> QED
  BY <1>1, <1>2, OriginalStep, TypeCorrect, PTL DEF Spec

\* A retag keeps the backup and where it comes from.
THEOREM RetagsKeep == Spec => []RetagKeeps
<1>1. NeverLost /\ OriginalKept => RetagKeeps
  BY DEF RetagKeeps
<1> QED
  BY <1>1, RetagsLoseNothing, OriginalsKept, PTL

----------------------------------------------------------------------------
(* While locks do not lapse: one operation at a time. *)

Alone == \A p, q \in Proc : p # q => pc[p] = "idle" \/ pc[q] = "idle"
NoLapse == \A p \in Proc : ~lapsed[p]

\* What a retag writes has the tree of a file that is still there, or was read
\* from a cache, and a prune keeps what every file needs.
HeldInv ==
  /\ NoLapse
  /\ Alone
  /\ \A p \in Proc :
       /\ pc[p] = "write" => job[p].id \in there \/ content[job[p].id].tree \in stale
       /\ pc[p] = "sweep" => Present \subseteq keep[p]
  /\ ListedHasData

\* Whoever works does so alone.
LEMMA OthersIdle ==
  ASSUME TypeOK, HeldInv, NEW p \in Proc, Work(p)
  PROVE  \A q \in Proc \ {p} : pc[q] = "idle" /\ pc'[q] = "idle"
<1>0. Ranges /\ Link(p)
  BY DEF TypeOK, Links
<1>1. \A q \in Proc \ {p} : pc[q] = "idle"
  <2>1. CASE Begin(p)
    <3>1. PICK i \in Listed, op \in Op, ts \in Tags : Acquire(p, op, i, ts)
      BY <2>1, BeginAcquires
    <3>2. \A q \in Proc \ {p} : granted[q] # "exclusive"
      BY <3>1 DEF Acquire, Lock!Grant, Lock!Clash, HeldInv, NoLapse
    <3> QED
      BY <3>2 DEF TypeOK, Ranges, Links, Link
  <2>2. CASE ~Begin(p)
    <3>1. pc[p] # "idle"
      BY <1>0, <2>2
      DEF Work, Open, OpenFails, Retag, Write, WriteFails, Verify, VerifyFails,
          Discard, Remove, RemoveFails, Scan, Sweep, Release, Crash, Lapse,
          Lock!Lapse, Link
    <3> QED
      BY <3>1 DEF HeldInv, Alone
  <2> QED
    BY <2>1, <2>2
<1> QED
  BY <1>1, Frame

\* What was edited from a cache once stays known as such.
LEMMA StaleGrows ==
  ASSUME NEW p \in Proc, Work(p)
  PROVE  stale \subseteq stale'
BY DEF Work, Begin, Acquire, Take, Open, OpenFails, Retag, Write, WriteFails, Verify,
       VerifyFails, Discard, Remove, RemoveFails, Scan, Sweep, Release, Crash, Leave,
       Lapse, seen

LEMMA HeldStep ==
  ASSUME TypeOK, HeldInv, ~overdue, [Next]_vars
  PROVE  HeldInv' /\ (Present' \subseteq Present \cup stale)
<1>1. CASE UNCHANGED shared
  BY <1>1 DEF HeldInv, NoLapse, Alone, ListedHasData, Present, shared, files, work
<1>2. ASSUME NEW p \in Proc, Work(p) PROVE HeldInv' /\ Present' \subseteq Present \cup stale
  <2>0. Ranges /\ Link(p)
    BY DEF TypeOK, Links
  <2>1. NoLapse'
    BY <1>2
    DEF HeldInv, NoLapse, Work, Begin, Acquire, Take, Open, OpenFails, Retag, Write,
        WriteFails, Verify, VerifyFails, Discard, Remove, RemoveFails, Scan, Sweep,
        Release, Crash, Leave, Lapse, TypeOK, Ranges, Lock!Grant, Lock!Surrender
  <2>2. \A q \in Proc \ {p} : pc[q] = "idle" /\ pc'[q] = "idle"
    BY <1>2, OthersIdle
  <2>3. \A q \in Proc \ {p} : pc'[q] = "idle"
    BY <2>2
  <2>4. Alone'
    BY <2>3 DEF Alone
  <2>5. /\ Present' \subseteq Present \cup stale
        /\ last' = last => Present' \subseteq Present
    <3>1. CASE last' # last
      <4>1. pc[p] = "write" /\ \E s \in BOOLEAN : Store(p, s)
        BY <1>2, <3>1
        DEF Work, Begin, Acquire, Take, Open, OpenFails, Retag, Write, WriteFails,
            Verify, VerifyFails, Discard, Remove, RemoveFails, Scan, Sweep, Release,
            Crash, Leave, Lapse, files
      <4>2. PICK s \in BOOLEAN : Store(p, s)
        BY <4>1
      <4>3. /\ there' = there \cup {last + 1}
            /\ content'[last + 1] =
                 [tree |-> content[job[p].id].tree, tags |-> job[p].tags,
                  original |-> Original(job[p].id), sound |-> s]
            /\ \A i \in 1..last : content'[i] = content[i]
        BY <4>1, <4>2, StoreEffect
      <4>4. job[p].id \in there \/ content[job[p].id].tree \in stale
        BY <4>1 DEF HeldInv
      <4>5. ASSUME NEW i \in there' PROVE content'[i].tree \in Present \cup stale
        <5>1. CASE i = last + 1
          <6>1. content'[i].tree = content[job[p].id].tree
            BY <4>3, <5>1
          <6> QED
            BY <4>4, <6>1 DEF Present
        <5>2. CASE i # last + 1
          <6>1. i \in there /\ i \in 1..last
            BY <2>0, <4>3, <4>5, <5>2 DEF Ranges
          <6> QED
            BY <4>3, <6>1 DEF Present
        <5> QED
          BY <5>1, <5>2
      <4> QED
        BY <3>1, <4>5 DEF Present
    <3>2. CASE last' = last
      <4>1. there' \subseteq there
        <5>1. ~\E s \in BOOLEAN : Store(p, s)
          <6>1. last + 1 # last
            BY <2>0, StoreConstants DEF Ranges
          <6> QED
            BY <3>2, <6>1 DEF Store
        <5> QED
          BY <1>2, <5>1
          DEF Work, Begin, Acquire, Take, Open, OpenFails, Retag, Write, WriteFails,
              Verify, VerifyFails, Discard, Remove, RemoveFails, Scan, Sweep, Release,
              Crash, Leave, Lapse, files
      <4>2. \A i \in 1..last : content'[i] = content[i]
        BY <1>2, Frame
      <4> QED
        BY <2>0, <4>1, <4>2 DEF Present, Ranges
    <3> QED
      BY <3>1, <3>2
  <2>6. pc'[p] = "write" => job'[p].id \in there' \/ content'[job'[p].id].tree \in stale'
    <3>1. CASE Open(p)
      <4>1. UNCHANGED <<there, content, job>>
        BY <3>1 DEF Open, files
      <4>2. pc'[p] = "write"
              => stale' = IF job[p].id \in there THEN stale
                                               ELSE stale \cup {content[job[p].id].tree}
        BY <2>0, <3>1 DEF Open, Goto, Ranges
      <4> QED
        BY <4>1, <4>2
    <3>2. CASE Lapse(p)
      BY <3>2 DEF Lapse
    <3>3. CASE ~Open(p) /\ ~Lapse(p)
      <4>1. pc'[p] # "write"
        BY <1>2, <2>0, <3>3
        DEF Work, Begin, Acquire, Take, OpenFails, Retag, Write, WriteFails, Verify,
            VerifyFails, Discard, Remove, RemoveFails, Scan, Sweep, Release, Crash,
            Leave, Goto, Ranges
      <4> QED
        BY <4>1
    <3> QED
      BY <3>1, <3>2, <3>3
  <2>7. pc'[p] = "sweep" => Present' \subseteq keep'[p]
    <3>1. CASE Scan(p)
      BY <2>0, <2>5, <3>1 DEF Scan, Present, Ranges, files
    <3>2. CASE Lapse(p)
      BY <3>2 DEF Lapse
    <3>3. CASE ~Scan(p) /\ ~Lapse(p)
      <4>1. pc'[p] # "sweep"
        BY <1>2, <2>0, <3>3
        DEF Work, Begin, Acquire, Take, Open, OpenFails, Retag, Write, WriteFails, Verify,
            VerifyFails, Discard, Remove, RemoveFails, Sweep, Release, Crash,
            Leave, Goto, Ranges
      <4> QED
        BY <4>1
    <3> QED
      BY <3>1, <3>2, <3>3
  <2>8. ListedHasData'
    <3>0. stale \subseteq stale' /\ ListedHasData
      BY <1>2, StaleGrows DEF HeldInv
    <3>1. CASE Sweep(p)
      <4>1. Present' \subseteq Present /\ Present \subseteq keep[p] /\ data' = data \cap keep[p]
        BY <2>5, <3>1 DEF Sweep, HeldInv, files
      <4> QED
        BY <3>0, <4>1 DEF ListedHasData
    <3>2. CASE ~Sweep(p)
      <4>1. data' = data
        BY <1>2, <3>2
        DEF Work, Begin, Acquire, Take, Open, OpenFails, Retag, Write, WriteFails,
            Verify, VerifyFails, Discard, Remove, RemoveFails, Scan, Release, Crash,
            Leave, Lapse
      <4> QED
        BY <2>5, <3>0, <4>1 DEF ListedHasData
    <3> QED
      BY <3>1, <3>2
  <2> QED
    BY <2>1, <2>3, <2>4, <2>5, <2>6, <2>7, <2>8 DEF HeldInv
<1> QED
  BY <1>1, <1>2, Steps

LEMMA OverdueStays == [Next]_vars => overdue' = overdue
  BY DEF Next, vars, shared

LEMMA Held == Spec => [](overdue \/ HeldInv)
<1>1. Init => HeldInv
  <2>1. Init => NoLapse /\ Alone /\ \A p \in Proc : pc[p] = "idle"
    BY DEF Init, NoLapse, Alone, Lock!ServiceInit
  <2>2. Init => ListedHasData
    BY StoreConstants DEF Init, ListedHasData, Present, Backup, Id
  <2> QED
    BY <2>1, <2>2 DEF HeldInv
<1>2. TypeOK /\ (overdue \/ HeldInv) /\ [Next]_vars => (overdue \/ HeldInv)'
  BY HeldStep, OverdueStays
<1> QED
  BY <1>1, <1>2, TypeCorrect, PTL DEF Spec

\* While no lock lapses, a deleted snapshot comes back only through an edit that
\* read it from a cache.
THEOREM DeletedStays == Spec => DeletedStaysDeleted
<1>1. TypeOK /\ (overdue \/ HeldInv) /\ [Next]_vars
        => [~overdue => Present' \subseteq Present \cup stale]_vars
  BY HeldStep
<1> QED
  BY <1>1, Held, TypeCorrect, PTL DEF Spec, DeletedStaysDeleted

\* What a prune is about to keep has every backup nobody deleted.
PruneInv ==
  /\ UndeletedHasData
  /\ \A p \in Proc : pc[p] = "sweep" => \A t \in 1..Backups : t \in doomed \/ t \in keep[p]

LEMMA PruneStep == TypeOK /\ NeverLost /\ PruneInv /\ [Next]_vars => PruneInv'
<1>1. ASSUME TypeOK, PruneInv, UNCHANGED shared PROVE PruneInv'
  BY <1>1 DEF PruneInv, UndeletedHasData, shared, work
<1>2. ASSUME TypeOK, NeverLost, PruneInv, NEW p \in Proc, Work(p) PROVE PruneInv'
  <2>0. Ranges /\ doomed \subseteq doomed'
    BY <1>2 DEF TypeOK, Work, Begin, Acquire, Take, Open, OpenFails, Retag, Write, WriteFails,
                Verify, VerifyFails, Discard, Remove, RemoveFails, Scan, Sweep, Release,
                Crash, Leave, Lapse
  <2>1. CASE Sweep(p)
    <3>1. /\ pc[p] = "sweep" /\ data' = data \cap keep[p] /\ keep' = keep
          /\ \A q \in Proc : pc'[q] = "sweep" => pc[q] = "sweep"
      BY <2>0, <2>1 DEF Sweep, Goto, Ranges
    <3> QED
      BY <1>2, <2>0, <3>1 DEF PruneInv, UndeletedHasData
  <2>2. CASE Scan(p)
    <3>1. /\ data' = data /\ doomed' = doomed /\ keep'[p] = Present
          /\ \A q \in Proc \ {p} : keep'[q] = keep[q] /\ pc'[q] = pc[q]
      BY <2>0, <2>2 DEF Scan, Goto, Present, Ranges
    <3>2. \A t \in 1..Backups : t \in doomed \/ t \in Present
      BY <1>2 DEF NeverLost, Alive, Present
    <3> QED
      BY <1>2, <3>1, <3>2 DEF PruneInv, UndeletedHasData
  <2>3. CASE ~Sweep(p) /\ ~Scan(p)
    <3>1. data' = data
      BY <1>2, <2>3
      DEF Work, Begin, Acquire, Take, Open, OpenFails, Retag, Write, WriteFails, Verify,
          VerifyFails, Discard, Remove, RemoveFails, Release, Crash, Leave, Lapse
    <3>2. \A q \in Proc : pc'[q] = "sweep" => pc[q] = "sweep" /\ keep'[q] = keep[q]
      <4>1. pc'[p] = "sweep" => pc[p] = "sweep" /\ keep'[p] = keep[p]
        BY <1>2, <2>0, <2>3
        DEF Work, Begin, Acquire, Take, Open, OpenFails, Retag, Write, WriteFails, Verify,
            VerifyFails, Discard, Remove, RemoveFails, Release, Crash, Leave, Lapse, Goto,
            Ranges, work
      <4> QED
        BY <1>2, <4>1, Frame
    <3> QED
      BY <1>2, <2>0, <3>1, <3>2 DEF PruneInv, UndeletedHasData
  <2> QED
    BY <2>1, <2>2, <2>3
<1> QED
  BY <1>1, <1>2, Steps

\* No prune removes the data of a backup nobody deleted, however many overlap;
\* and while no lock lapses every listed snapshot has its data, unless an edit
\* read it from a cache after it was gone.
THEOREM DataIsKept == Spec => []DataKept
<1>1. Init => PruneInv
  BY DEF Init, PruneInv, UndeletedHasData
<1>2. PruneInv /\ (overdue \/ HeldInv) => DataKept
  BY DEF PruneInv, HeldInv, DataKept
<1> QED
  BY <1>1, <1>2, PruneStep, RetagsLoseNothing, Held, TypeCorrect, PTL DEF Spec
----------------------------------------------------------------------------
(* Without failures, too: no two edits from one file. *)

\* A retag's new file is sound and listed until the old one is gone; and while it
\* is beside the old one, these are the only two files of one backup, unless a file
\* of it was edited from a cache.
Doubled(p) == pc[p] = "verify" \/ Replacing(p)
OnceInv ==
  /\ \A p \in Proc : /\ pc[p] # "discard"
                     /\ Doubled(p) => new[p] \in there /\ content[new[p]].sound
  /\ \A i, j \in there :
       content[i].tree = content[j].tree /\ i # j =>
         \/ content[i].tree \in stale
         \/ \E p \in Proc : Doubled(p) /\ {i, j} = {job[p].id, new[p]}

LEMMA OnceStep ==
  ASSUME TypeOK, HeldInv, ~overdue, OnceInv, [Next]_vars, faults' = 0
  PROVE  OnceInv'
<1>1. CASE UNCHANGED shared
  <2>1. UNCHANGED <<content, there, stale, pc, job, new>>
    BY <1>1 DEF shared, files, work
  <2>2. \A p \in Proc : Doubled(p)' <=> Doubled(p)
    BY <2>1 DEF Doubled, Replacing
  <2>3. ASSUME NEW p \in Proc
        PROVE  (pc[p] # "discard")' /\ (Doubled(p) => new[p] \in there /\ content[new[p]].sound)'
    BY <2>1, <2>2 DEF OnceInv
  <2>4. ASSUME NEW i \in there, NEW j \in there, content[i].tree = content[j].tree, i # j,
               content[i].tree \notin stale
        PROVE  \E p \in Proc : Doubled(p)' /\ {i, j} = {job'[p].id, new'[p]}
    <3>1. PICK p \in Proc : Doubled(p) /\ {i, j} = {job[p].id, new[p]}
      BY <2>4 DEF OnceInv
    <3> QED
      BY <2>1, <2>2, <3>1
  <2>5. \A i, j \in there' : content'[i].tree = content'[j].tree /\ i # j =>
          \/ content'[i].tree \in stale'
          \/ \E p \in Proc : Doubled(p)' /\ {i, j} = {job'[p].id, new'[p]}
    BY <2>1, <2>4
  <2> QED
    BY <2>3, <2>5 DEF OnceInv
<1>2. ASSUME NEW p \in Proc, Work(p) PROVE OnceInv'
  <2>0. Ranges /\ Link(p) /\ last \in Nat /\ there \subseteq 1..last /\ pc \in [Proc -> Step]
    BY StoreConstants DEF TypeOK, Links, Ranges
  <2>1. \A q \in Proc \ {p} : ~Doubled(q) /\ pc'[q] = "idle" /\ ~Doubled(q)'
    BY <1>2, OthersIdle DEF Doubled, Replacing
  <2>2. \* It is enough to look at p.
        ASSUME pc'[p] # "discard",
               Doubled(p)' => new'[p] \in there' /\ content'[new'[p]].sound,
               \A i, j \in there' : content'[i].tree = content'[j].tree /\ i # j =>
                 \/ content'[i].tree \in stale'
                 \/ Doubled(p)' /\ {i, j} = {job'[p].id, new'[p]}
        PROVE  OnceInv'
    BY <2>1, <2>2 DEF OnceInv
  <2>3. /\ Doubled(p) => new[p] \in there /\ content[new[p]].sound
        /\ \A i, j \in there : content[i].tree = content[j].tree /\ i # j =>
             \/ content[i].tree \in stale'
             \/ Doubled(p) /\ {i, j} = {job[p].id, new[p]}
        /\ pc[p] # "discard"
    BY <1>2, <2>1, StaleGrows DEF OnceInv
  <2>4. \* Where no file comes or goes and p is not halfway, nothing can double.
        ASSUME ~Doubled(p), ~Doubled(p)', pc'[p] # "discard", UNCHANGED <<content, there>>
        PROVE  OnceInv'
    BY <2>2, <2>3, <2>4
  <2>5. CASE Begin(p)
    <3>1. PICK i \in Listed, op \in Op, ts \in Tags : Acquire(p, op, i, ts)
      BY <2>5, BeginAcquires
    <3>2. pc[p] = "idle" /\ pc'[p] = "open" /\ UNCHANGED <<content, there>>
      BY <2>0, <3>1 DEF Acquire, Take, Goto, files
    <3> QED
      BY <2>4, <3>2 DEF Doubled, Replacing
  <2>6. CASE Open(p)
    <3>1. /\ pc[p] = "open" /\ UNCHANGED <<content, there, job>>
          /\ \/ pc'[p] = "remove" /\ job[p].op = "delete"
             \/ pc'[p] \in {"write", "release"}
      BY <2>0, <2>6 DEF Open, Goto, files
    <3> QED
      BY <2>4, <3>1 DEF Doubled, Replacing
  <2>7. CASE OpenFails(p) \/ Scan(p) \/ Sweep(p)
    <3>1. /\ pc[p] \in {"open", "sweep"} /\ UNCHANGED <<content, there>>
          /\ pc'[p] \in {"release", "sweep"}
      BY <2>0, <2>7 DEF OpenFails, Scan, Sweep, Goto, files
    <3> QED
      BY <2>4, <3>1 DEF Doubled, Replacing
  <2>8. CASE Write(p)
    <3>1. pc[p] = "write" /\ pc'[p] = "verify" /\ job' = job /\ new'[p] = last + 1
      BY <2>0, <2>8 DEF Write, Goto, Ranges
    <3>2. Store(p, TRUE)
      BY <2>0, <2>8, FaultEffect DEF Write
    <3>3. /\ there' = there \cup {last + 1}
          /\ content'[last + 1].tree = content[job[p].id].tree /\ content'[last + 1].sound
          /\ \A i \in there : content'[i] = content[i] /\ i # last + 1
          /\ job[p].id \in there \/ content[job[p].id].tree \in stale'
      <4>1. /\ there' = there \cup {last + 1}
            /\ content'[last + 1] = [tree |-> content[job[p].id].tree, tags |-> job[p].tags,
                                     original |-> Original(job[p].id), sound |-> TRUE]
            /\ \A i \in 1..last : content'[i] = content[i]
        BY <3>1, <3>2, StoreEffect
      <4>2. content'[last + 1].tree = content[job[p].id].tree /\ content'[last + 1].sound
        BY <4>1
      <4>3. \A i \in there : i \in 1..last /\ i # last + 1
        BY <2>0
      <4>4. job[p].id \in there \/ content[job[p].id].tree \in stale'
        BY <1>2, <3>1, StaleGrows DEF HeldInv
      <4> QED
        BY <4>1, <4>2, <4>3, <4>4
    <3>4. ~Doubled(p)
      BY <3>1 DEF Doubled, Replacing
    <3>5. ASSUME NEW i \in there', NEW j \in there', content'[i].tree = content'[j].tree, i # j
          PROVE  content'[i].tree \in stale' \/ {i, j} = {job'[p].id, new'[p]}
      BY <2>3, <3>1, <3>3, <3>4, <3>5
    <3> QED
      BY <2>2, <3>1, <3>3, <3>5 DEF Doubled
  <2>9. CASE WriteFails(p)
    <3>1. pc[p] = "write" /\ pc'[p] = "release" /\ UNCHANGED <<content, there>>
      BY <2>0, <2>9, FaultEffect DEF WriteFails, Goto, files
    <3> QED
      BY <2>4, <3>1 DEF Doubled, Replacing
  <2>10. CASE Verify(p)
    <3>1. pc[p] = "verify" /\ UNCHANGED <<content, there, job, new>>
      BY <2>10 DEF Verify, files
    <3>2. content[new[p]].sound /\ new[p] \in there
      BY <2>3, <3>1 DEF Doubled
    <3>3. pc'[p] = "remove" /\ job[p].op = "retag"
      BY <2>0, <2>10, <3>1, <3>2 DEF Verify, Goto, Link
    <3> QED
      BY <2>2, <2>3, <3>1, <3>2, <3>3 DEF Doubled, Replacing
  <2>11. CASE VerifyFails(p)
    <3>1. Readable(new[p])
      BY <2>3, <2>11 DEF VerifyFails, Doubled, Readable
    <3> QED
      BY <2>0, <2>11, <3>1, FaultEffect DEF VerifyFails
  <2>12. CASE Discard(p)
    BY <2>3, <2>12 DEF Discard
  <2>13. CASE Remove(p)
    <3>1. /\ pc[p] = "remove" /\ pc'[p] = "release" /\ content' = content
          /\ there' = there \ {job[p].id}
      BY <2>0, <2>13 DEF Remove, Goto
    <3>2. ASSUME NEW i \in there', NEW j \in there', content'[i].tree = content'[j].tree, i # j
          PROVE  content'[i].tree \in stale'
      BY <2>3, <3>1, <3>2
    <3> QED
      BY <2>2, <3>1, <3>2 DEF Doubled, Replacing
  <2>14. CASE RemoveFails(p) \/ Crash(p)
    BY <2>0, <2>14, FaultEffect DEF RemoveFails, Crash
  <2>15. CASE Release(p)
    <3>1. pc[p] = "release" /\ pc'[p] = "idle" /\ UNCHANGED <<content, there>>
      BY <2>0, <2>15 DEF Release, Leave, Goto, files
    <3> QED
      BY <2>4, <3>1 DEF Doubled, Replacing
  <2>16. CASE Lapse(p)
    BY <2>16, <2>1 DEF HeldInv, Lapse
  <2> QED
    BY <1>2, <2>5, <2>6, <2>7, <2>8, <2>9, <2>10, <2>11, <2>12, <2>13, <2>14, <2>15, <2>16
    DEF Work, Retag
<1> QED
  BY <1>1, <1>2, Steps

LEMMA FaultsStay == Ranges /\ [Next]_vars /\ faults' = 0 => faults = 0
<1> SUFFICES ASSUME Ranges, [Next]_vars PROVE faults' = faults \/ Fault
  BY FaultEffect
<1>1. CASE UNCHANGED shared
  BY <1>1 DEF shared
<1>2. ASSUME NEW p \in Proc, Work(p) PROVE faults' = faults \/ Fault
  <2>1. CASE Begin(p) \/ Open(p) \/ Retag(p)
    BY <2>1
    DEF Begin, Acquire, Take, Open, Retag, Write, WriteFails, Verify, VerifyFails, Discard,
        Remove, RemoveFails, Fault
  <2>2. CASE ~Begin(p) /\ ~Open(p) /\ ~Retag(p)
    BY <1>2, <2>2
    DEF Work, OpenFails, Retag, Remove, RemoveFails, Scan, Sweep, Release, Crash, Leave, Lapse
  <2> QED
    BY <2>1, <2>2
<1> QED
  BY <1>1, <1>2, Steps

\* While no lock lapses and nothing fails, a backup is listed once whenever no retag is
\* halfway, unless somebody edited a file of it that was gone: otherwise two edits never
\* start from the same file (edit_snapshot_tags under its lock).
THEOREM EachListedOnce == Spec => []ListedOnce
<1> DEFINE Inv == overdue \/ faults # 0 \/ OnceInv
<1>1. Init => Inv
  <2>1. Init => \A p \in Proc : pc[p] = "idle"
    BY DEF Init
  <2>2. Init => \A i, j \in there : content[i].tree = content[j].tree => i = j
    BY StoreConstants DEF Init, Backup, Id
  <2> QED
    BY <2>1, <2>2 DEF OnceInv, Doubled, Replacing
<1>2. TypeOK /\ (overdue \/ HeldInv) /\ Inv /\ [Next]_vars => Inv'
  BY OnceStep, FaultsStay, OverdueStays DEF TypeOK
<1>3. Inv => ListedOnce
  BY DEF OnceInv, ListedOnce, Doubled, Replacing
<1> HIDE DEF Inv
<1> QED
  BY <1>1, <1>2, <1>3, Held, TypeCorrect, PTL DEF Spec
=============================================================================
