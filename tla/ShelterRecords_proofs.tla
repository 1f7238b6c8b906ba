------------------------ MODULE ShelterRecords_proofs ------------------------
(***************************************************************************)
(* Proofs about ShelterRecords, for any number of shelters, administrators *)
(* and threads and any time a verification stays valid.                    *)
(***************************************************************************)
EXTENDS ShelterRecords, TLAPS

\* Who holds a row's lock is alone, and has read the row as it still is.
LockHeld ==
    /\ \A t \in Thread : task[t].pc = "locked" =>
          /\ task[t].old = shelter[task[t].id]
          /\ task[t].revision = task[t].old.revision
          /\ task[t].old.revision < MaxRevision
    /\ \A t, u \in Thread : task[t].pc = "locked" /\ task[u].pc = "locked" /\ t # u
          => task[t].id # task[u].id

\* Nobody has read a row without locking it.
FreshTasks == \A t \in Thread : task[t].pc # "locked" => task[t].old = None

\* A save of an existing shelter began after the revision its page showed was
\* written.
PageShown ==
    \A t \in Thread : task[t].id # None =>
        /\ task[t].revision \in DOMAIN trail[task[t].id]
        /\ trail[task[t].id][task[t].revision].at <= task[t].at

\* No time lies in the future.
NothingAhead ==
    /\ \A t \in Thread : task[t].at <= clock
    /\ \A s \in Shelter : \A i \in DOMAIN trail[s] : trail[s][i].at <= clock

\* An entry that opens or fills a shelter is its verification.
EntryVerifies(e) ==
    Verified(e.after) => /\ e.confirmed
                         /\ e.after.verifiedAt = e.at /\ e.after.verifiedBy = e.by
EntriesVerify == \A s \in Shelter : \A i \in DOMAIN trail[s] : EntryVerifies(trail[s][i])

IInv == /\ TypeOK /\ LockHeld /\ FreshTasks /\ PageShown /\ NothingAhead /\ EntriesVerify
        /\ TrailIsChain /\ HistoryInOrder /\ VerifierNamed

-----------------------------------------------------------------------------
(* What a save writes.                                                     *)

\* The row of a save has its shape, and the right revision.
LEMMA SavedType ==
    ASSUME NEW a \in Admin, NEW p \in Payload, NEW at \in 0..MaxClock,
           NEW old \in Row \cup {None}, mode \in Modes,
           old # None => old.revision < MaxRevision
    PROVE  /\ Saved(a, p, at, old) \in Row
           /\ Saved(a, p, at, old).revision = IF old = None THEN 1 ELSE old.revision + 1
<1>1. MaxRevision \in Nat \ {0}
  BY ShelterAssumption
<1>2. (IF old = None THEN 1 ELSE old.revision + 1) \in 1..MaxRevision
  BY <1>1 DEF Row
<1>3. /\ Verification(a, p, at, old).at \in 0..MaxClock \cup {None}
      /\ Verification(a, p, at, old).by \in Admin \cup {None}
  BY DEF Verification, Row
<1> QED
  BY <1>2, <1>3 DEF Saved, Row, Payload

\* A shelter that was opened or filled agrees with its occupancy and has the
\* verifier who saved it.
LEMMA SavedFits ==
    ASSUME NEW a \in Admin, NEW p \in Payload, NEW at \in 0..MaxClock,
           NEW old \in Row \cup {None}, Acceptable(p)
    PROVE  LET row == Saved(a, p, at, old) IN
           /\ row.status = "open" => row.facts \in WithRoom
           /\ row.status = "full" => row.facts \notin WithRoom
           /\ Verified(row) => p.confirmed /\ row.verifiedAt = at /\ row.verifiedBy = a
BY DEF Saved, Verification, Verified, Acceptable

\* A verification that is not of this save is the one of a row now closed.
LEMMA SavedInherits ==
    ASSUME NEW a \in Admin, NEW p \in Payload, NEW at \in 0..MaxClock,
           NEW old \in Row \cup {None},
           Saved(a, p, at, old).verifiedAt # None, ~Verified(p)
    PROVE  LET row == Saved(a, p, at, old) IN
           /\ old # None /\ row.status = "closed" /\ old.verifiedAt # None
           /\ row.verifiedAt = old.verifiedAt /\ row.verifiedBy = old.verifiedBy
BY DEF Saved, Verification

\* No administrator and no time is None.
LEMMA NotNone == \A a \in Admin : \A n \in 0..MaxClock : a # None /\ n # None
BY ShelterAssumption

\* A thread without a request has a task of the right shape.
LEMMA IdleType == Idle \in Task
<1>1. MaxClock \in Nat /\ MaxRevision \in Nat
  BY ShelterAssumption
<1> QED
  BY <1>1 DEF Idle, Task

\* The audit consists of entries.
LEMMA EntryType ==
    ASSUME TypeOK, NEW s \in Shelter, NEW i \in DOMAIN trail[s]
    PROVE  trail[s] \in Seq(Entry) /\ trail[s][i] \in Entry
<1>1. trail[s] \in Seq(Entry)
  BY DEF TypeOK
<1>2. DOMAIN trail[s] = 1..Len(trail[s])
  BY <1>1
<1> QED
  BY <1>1, <1>2

-----------------------------------------------------------------------------
\* No shelter has been saved at the start.
THEOREM InitInv == Init => IInv
<1> SUFFICES ASSUME Init PROVE IInv
  OBVIOUS
<1>1. MaxClock \in Nat
  BY ShelterAssumption
<1>2. TypeOK
  BY <1>1, IdleType DEF Init, TypeOK, Idle
<1>3. LockHeld /\ FreshTasks /\ PageShown /\ NothingAhead /\ EntriesVerify
  BY <1>1 DEF Init, LockHeld, FreshTasks, PageShown, NothingAhead, EntriesVerify, Idle
<1>4. TrailIsChain /\ HistoryInOrder /\ VerifierNamed
  BY DEF Init, TrailIsChain, HistoryInOrder, VerifierNamed
<1> QED
  BY <1>2, <1>3, <1>4 DEF IInv

\* Threads that end, the clock and restarts leave the rows alone.
LEMMA QuietSteps ==
    ASSUME IInv, UNCHANGED <<shelter, trail>>,
           clock' \in 0..MaxClock, clock <= clock', mode' \in Modes,
           \A t \in Thread : task'[t] \in {task[t], Idle},
           task' \in [Thread -> Task]
    PROVE  IInv'
<1> USE DEF IInv
<1>1. TypeOK'
  BY DEF TypeOK, Idle
<1>2. LockHeld' /\ FreshTasks'
  BY DEF LockHeld, FreshTasks, Idle
<1>3. PageShown'
  BY DEF PageShown, Idle
<1>4. \A n \in 0..MaxClock : n <= clock => n <= clock'
  BY ShelterAssumption DEF TypeOK
<1>5. NothingAhead'
  <2>1. \A t \in Thread : task'[t].at <= clock'
    BY <1>4, ShelterAssumption DEF NothingAhead, TypeOK, Idle, Task
  <2>2. \A s \in Shelter : \A i \in DOMAIN trail[s] : trail[s][i].at <= clock'
    <3>1. \A s \in Shelter : \A i \in DOMAIN trail[s] : trail[s][i].at \in 0..MaxClock
      BY EntryType DEF Entry
    <3> QED
      BY <1>4, <3>1 DEF NothingAhead
  <2> QED
    BY <2>1, <2>2 DEF NothingAhead
<1>6. EntriesVerify' /\ TrailIsChain' /\ HistoryInOrder' /\ VerifierNamed'
  BY DEF EntriesVerify, EntryVerifies, TrailIsChain, HistoryInOrder, VerifierNamed,
         ConfirmedIn, Verified
<1> QED
  BY <1>1, <1>2, <1>3, <1>5, <1>6

\* A save begins: the page showed a revision that is already in the audit.
LEMMA BeginStep ==
    ASSUME IInv, NEW t \in Thread, NEW s \in Shelter \cup {None}, NEW n \in 0..MaxRevision,
           Begin(t, s, n)
    PROVE  IInv'
<1> DEFINE k == [pc |-> "begun", id |-> s, revision |-> n, at |-> clock, old |-> None]
<1>1. UNCHANGED <<clock, mode, shelter, trail>> /\ task' = [task EXCEPT ![t] = k]
  BY DEF Begin
<1>2. k \in Task /\ k.pc = "begun" /\ k.id = s /\ k.revision = n /\ k.at = clock
  BY DEF IInv, TypeOK, Task
<1>3. s # None => s \in Shelter /\ shelter[s] # None /\ n \in DOMAIN trail[s]
  <2> SUFFICES ASSUME s # None
               PROVE  s \in Shelter /\ shelter[s] # None /\ n \in DOMAIN trail[s]
    OBVIOUS
  <2>1. s \in Shelter /\ shelter[s] # None /\ n \in 1..shelter[s].revision
    BY DEF Begin
  <2>2. trail[s] \in Seq(Entry) /\ Len(trail[s]) = shelter[s].revision
    BY <2>1 DEF IInv, TypeOK, TrailIsChain
  <2> QED
    BY <2>1, <2>2
<1> HIDE DEF k
<1>4. task \in [Thread -> Task] /\ \A u \in Thread : task'[u] = IF u = t THEN k ELSE task[u]
  BY <1>1 DEF IInv, TypeOK
<1>5. TypeOK'
  BY <1>1, <1>2, <1>3, <1>4 DEF IInv, TypeOK
<1>6. LockHeld' /\ FreshTasks'
  <2>1. k.old = None
    BY DEF k
  <2> QED
    BY <1>1, <1>2, <1>4, <2>1 DEF IInv, LockHeld, FreshTasks
<1>7. PageShown'
  BY <1>1, <1>2, <1>3, <1>4 DEF IInv, PageShown, NothingAhead
<1>8. NothingAhead'
  <2>1. clock <= clock
    BY ShelterAssumption DEF IInv, TypeOK
  <2> QED
    BY <1>1, <1>2, <1>4, <2>1 DEF IInv, NothingAhead
<1>9. EntriesVerify' /\ TrailIsChain' /\ HistoryInOrder' /\ VerifierNamed'
  BY <1>1 DEF IInv, EntriesVerify, EntryVerifies, TrailIsChain, HistoryInOrder,
              VerifierNamed, ConfirmedIn, Verified
<1> QED
  BY <1>5, <1>6, <1>7, <1>8, <1>9 DEF IInv

\* The row is locked: nobody else holds it, and the page was not out of date.
LEMMA LockStep == ASSUME IInv, NEW t \in Thread, Lock(t) PROVE IInv'
<1> DEFINE k == [task[t] EXCEPT !.pc = "locked", !.old = shelter[task[t].id]]
<1>1. UNCHANGED <<clock, mode, shelter, trail>> /\ task' = [task EXCEPT ![t] = k]
  BY DEF Lock
<1>2. task[t] \in Task /\ task[t].id \in Shelter /\ shelter[task[t].id] \in Row
  BY DEF IInv, TypeOK, Task, Lock
<1>3. /\ k \in Task /\ k.pc = "locked" /\ k.old = shelter[k.id]
      /\ k.id = task[t].id /\ k.revision = task[t].revision /\ k.at = task[t].at
  BY <1>2 DEF Task
<1>4. k.revision = k.old.revision /\ k.old.revision < MaxRevision
  BY <1>3 DEF Lock, Unchanged
<1> HIDE DEF k
<1>5. task \in [Thread -> Task] /\ \A u \in Thread : task'[u] = IF u = t THEN k ELSE task[u]
  BY <1>1 DEF IInv, TypeOK
<1>6. TypeOK'
  BY <1>1, <1>2, <1>3, <1>5 DEF IInv, TypeOK
<1>7. LockHeld' /\ FreshTasks'
  <2>1. \A u \in Thread \ {t} : task[u].pc = "locked" => task[u].id # k.id
    BY <1>3 DEF Lock, Unchanged, Locked
  <2> QED
    BY <1>1, <1>3, <1>4, <1>5, <2>1 DEF IInv, LockHeld, FreshTasks
<1>8. PageShown'
  BY <1>1, <1>3, <1>5 DEF IInv, PageShown
<1>9. NothingAhead'
  BY <1>1, <1>3, <1>5 DEF IInv, NothingAhead
<1>10. EntriesVerify' /\ TrailIsChain' /\ HistoryInOrder' /\ VerifierNamed'
  BY <1>1 DEF IInv, EntriesVerify, EntryVerifies, TrailIsChain, HistoryInOrder,
              VerifierNamed, ConfirmedIn, Verified
<1> QED
  BY <1>6, <1>7, <1>8, <1>9, <1>10 DEF IInv

\* The row is written together with its entry.
LEMMA WriteStep ==
    ASSUME IInv, NEW t \in Thread, NEW s \in Shelter, NEW a \in Admin, NEW p \in Payload,
           Write(t, s, a, p),
           task[t].old = shelter[s],
           task[t].old # None => task[t].old.revision < MaxRevision,
           \A u \in Thread \ {t} : task[u].pc = "locked" => task[u].id # s,
           \A i \in DOMAIN trail[s] : trail[s][i].at <= task[t].at
    PROVE  IInv'
<1> DEFINE at == task[t].at
           old == task[t].old
           row == Saved(a, p, at, old)
           e == [at |-> at, by |-> a, confirmed |-> p.confirmed, before |-> old, after |-> row]
           n == Len(trail[s])
<1>1. /\ Acceptable(p) /\ UNCHANGED <<clock, mode>>
      /\ shelter' = [shelter EXCEPT ![s] = row]
      /\ trail' = [trail EXCEPT ![s] = Append(trail[s], e)]
      /\ task' = [task EXCEPT ![t] = Idle]
  BY DEF Write
<1>2. at \in 0..MaxClock /\ at <= clock /\ old \in Row \cup {None} /\ mode \in Modes
  BY DEF IInv, TypeOK, Task, NothingAhead
<1>3. row \in Row /\ row.revision = IF old = None THEN 1 ELSE old.revision + 1
  BY <1>2, SavedType
<1>4. row # None
  BY <1>3, NoneIsNoRow
<1>5. /\ row.status = "open" => row.facts \in WithRoom
      /\ row.status = "full" => row.facts \notin WithRoom
      /\ Verified(row) => p.confirmed /\ row.verifiedAt = at /\ row.verifiedBy = a
  BY <1>1, <1>2, SavedFits
<1>6. /\ e \in Entry /\ e.at = at /\ e.by = a /\ e.confirmed = p.confirmed
      /\ e.before = shelter[s] /\ e.after = row
  BY <1>2, <1>3 DEF Entry, Payload
<1>7. EntryVerifies(e)
  BY <1>5, <1>6 DEF EntryVerifies
<1>8. ~Verified(p) /\ row.verifiedAt # None =>
         /\ shelter[s] # None /\ row.status = "closed" /\ shelter[s].verifiedAt # None
         /\ row.verifiedAt = shelter[s].verifiedAt /\ row.verifiedBy = shelter[s].verifiedBy
  BY <1>2, SavedInherits
<1>9. row.status = p.status
  BY DEF Saved
<1> HIDE DEF row, e
<1>10. /\ shelter \in [Shelter -> Row \cup {None}] /\ task \in [Thread -> Task]
       /\ trail \in [Shelter -> Seq(Entry)] /\ trail[s] \in Seq(Entry) /\ n \in Nat
  BY DEF IInv, TypeOK
<1>11. /\ \A o \in Shelter : shelter'[o] = IF o = s THEN row ELSE shelter[o]
       /\ \A u \in Thread : task'[u] = IF u = t THEN Idle ELSE task[u]
       /\ \A o \in Shelter \ {s} : trail'[o] = trail[o]
       /\ trail'[s] = Append(trail[s], e)
  BY <1>1, <1>10
<1>12. /\ DOMAIN trail[s] = 1..n /\ DOMAIN trail'[s] = 1..(n+1) /\ Len(trail'[s]) = n + 1
       /\ \A i \in 1..n : trail'[s][i] = trail[s][i]
       /\ trail'[s][n+1] = e
  BY <1>6, <1>10, <1>11
<1>13. n \in Nat
  BY <1>10
<1> HIDE DEF n
<1>14. /\ n = IF shelter[s] = None THEN 0 ELSE shelter[s].revision
       /\ n > 0 => trail[s][n].after = shelter[s] /\ trail[s][1].before = None
       /\ \A i \in 1..(n-1) : trail[s][i+1].before = trail[s][i].after
  BY DEF IInv, TrailIsChain, n
<1>15. TypeOK'
  <2>1. shelter' \in [Shelter -> Row \cup {None}]
    BY <1>1, <1>3, <1>10
  <2>2. Append(trail[s], e) \in Seq(Entry)
    BY <1>6, <1>10
  <2>3. trail' \in [Shelter -> Seq(Entry)]
    BY <1>1, <1>10, <2>2
  <2>4. task' \in [Thread -> Task]
    BY <1>1, <1>10, IdleType
  <2>5. \A o \in Shelter : shelter'[o] # None =>
          /\ shelter'[o].status = "open" => shelter'[o].facts \in WithRoom
          /\ shelter'[o].status = "full" => shelter'[o].facts \notin WithRoom
          /\ shelter'[o].status \in {"open", "full"} =>
                shelter'[o].verifiedAt # None /\ shelter'[o].verifiedBy # None
    <3>1. Verified(row) => row.verifiedAt # None /\ row.verifiedBy # None
      BY <1>2, <1>5, NotNone
    <3> QED
      BY <1>5, <1>11, <3>1 DEF IInv, TypeOK, Verified
  <2>6. \A u \in Thread : /\ task'[u].pc = "locked" => task'[u].id \in Shelter
                          /\ task'[u].id # None => shelter'[task'[u].id] # None
    <3>1. \A u \in Thread : task[u].id \in Shelter \cup {None}
      BY <1>10 DEF Task
    <3> QED
      BY <1>4, <1>11, <3>1 DEF IInv, TypeOK, Idle
  <2> QED
    BY <1>1, <2>1, <2>3, <2>4, <2>5, <2>6 DEF IInv, TypeOK
<1>16. LockHeld' /\ FreshTasks'
  <2>1. \A u \in Thread \ {t} : task[u].pc = "locked" => shelter'[task[u].id] = shelter[task[u].id]
    BY <1>11 DEF IInv, TypeOK
  <2> QED
    BY <1>11, <2>1 DEF IInv, LockHeld, FreshTasks, Idle
<1>17. PageShown'
  <2> SUFFICES ASSUME NEW u \in Thread, task'[u].id # None
               PROVE  /\ task'[u].revision \in DOMAIN trail'[task'[u].id]
                      /\ trail'[task'[u].id][task'[u].revision].at <= task'[u].at
    BY DEF PageShown
  <2>1. u # t /\ task'[u] = task[u] /\ task[u].id \in Shelter
    BY <1>10, <1>11 DEF Idle, Task
  <2>2. /\ task[u].revision \in DOMAIN trail[task[u].id]
        /\ trail[task[u].id][task[u].revision].at <= task[u].at
    BY <2>1 DEF IInv, PageShown
  <2>3. CASE task[u].id = s
    BY <1>10, <1>12, <2>1, <2>2, <2>3
  <2>4. CASE task[u].id # s
    BY <1>11, <2>1, <2>2, <2>4
  <2> QED
    BY <2>3, <2>4
<1>18. NothingAhead'
  <2>1. \A u \in Thread : task'[u].at <= clock'
    BY <1>1, <1>2, <1>11 DEF IInv, NothingAhead, TypeOK, Idle
  <2>2. \A i \in DOMAIN trail'[s] : trail'[s][i].at <= clock'
    BY <1>1, <1>2, <1>6, <1>10, <1>12 DEF IInv, NothingAhead
  <2>3. \A o \in Shelter \ {s} : \A i \in DOMAIN trail'[o] : trail'[o][i].at <= clock'
    BY <1>1, <1>11 DEF IInv, NothingAhead
  <2> QED
    BY <2>1, <2>2, <2>3 DEF NothingAhead
<1>19. EntriesVerify'
  <2>1. \A i \in DOMAIN trail'[s] : EntryVerifies(trail'[s][i])
    BY <1>7, <1>10, <1>12 DEF IInv, EntriesVerify
  <2>2. \A o \in Shelter \ {s} : \A i \in DOMAIN trail'[o] : EntryVerifies(trail'[o][i])
    BY <1>11 DEF IInv, EntriesVerify
  <2> QED
    BY <2>1, <2>2 DEF EntriesVerify, EntryVerifies, Verified
<1>20. TrailIsChain'
  <2>1. /\ Len(trail'[s]) = IF shelter'[s] = None THEN 0 ELSE shelter'[s].revision
        /\ trail'[s][n+1].after = shelter'[s] /\ trail'[s][1].before = None
    BY <1>3, <1>4, <1>6, <1>10, <1>11, <1>12, <1>14 DEF Row
  <2>2. \A i \in 1..n : trail'[s][i+1].before = trail'[s][i].after
    <3> SUFFICES ASSUME NEW i \in 1..n PROVE trail'[s][i+1].before = trail'[s][i].after
      OBVIOUS
    <3>1. CASE i = n
      BY <1>6, <1>10, <1>12, <1>14, <3>1
    <3>2. CASE i # n
      <4>1. i \in 1..(n-1) /\ i + 1 \in 1..n
        BY <1>13, <3>2
      <4> QED
        BY <1>12, <1>14, <4>1
    <3> QED
      BY <3>1, <3>2
  <2>3. \A o \in Shelter \ {s} : trail'[o] = trail[o] /\ shelter'[o] = shelter[o]
    BY <1>11
  <2> QED
    BY SMTT(30), <1>10, <1>12, <2>1, <2>2, <2>3 DEF IInv, TrailIsChain
<1>21. HistoryInOrder'
  <2>1. \A i, j \in DOMAIN trail'[s] : i < j => trail'[s][i].at <= trail'[s][j].at
    <3> SUFFICES ASSUME NEW i \in 1..(n+1), NEW j \in 1..(n+1), i < j
                 PROVE  trail'[s][i].at <= trail'[s][j].at
      BY <1>12
    <3>1. i \in 1..n
      BY <1>13
    <3>2. CASE j = n + 1
      BY <1>6, <1>12, <3>1, <3>2
    <3>3. CASE j # n + 1
      <4>1. j \in 1..n
        BY <1>13, <3>3
      <4> QED
        BY <1>12, <3>1, <4>1 DEF IInv, HistoryInOrder
    <3> QED
      BY <3>2, <3>3
  <2> QED
    BY <1>11, <2>1 DEF IInv, HistoryInOrder
<1>22. VerifierNamed'
  <2> SUFFICES ASSUME row.verifiedAt # None PROVE ConfirmedIn(row, trail'[s])
    BY <1>11 DEF IInv, VerifierNamed
  <2>1. CASE Verified(p)
    <3>1. Verified(row)
      BY <1>9, <2>1 DEF Verified
    <3>2. n + 1 \in DOMAIN trail'[s] /\ (n+1+1)..(n+1) = {}
      BY <1>12, <1>13
    <3> QED
      BY <1>5, <1>6, <1>12, <3>1, <3>2 DEF ConfirmedIn
  <2>2. CASE ~Verified(p)
    <3>1. PICK i \in 1..n :
            /\ trail[s][i].confirmed /\ Verified(trail[s][i].after)
            /\ trail[s][i].by = shelter[s].verifiedBy
            /\ trail[s][i].at = shelter[s].verifiedAt
            /\ \A j \in (i+1)..n : trail[s][j].after.status = "closed"
      BY <1>8, <1>12, <2>2 DEF IInv, VerifierNamed, ConfirmedIn, n
    <3>2. i \in DOMAIN trail'[s] /\ trail'[s][i] = trail[s][i]
      BY <1>12, <1>13
    <3>3. \A j \in (i+1)..(n+1) : trail'[s][j].after.status = "closed"
      <4> SUFFICES ASSUME NEW j \in (i+1)..(n+1)
                   PROVE  trail'[s][j].after.status = "closed"
        OBVIOUS
      <4>1. CASE j = n + 1
        BY <1>6, <1>8, <1>12, <2>2, <4>1
      <4>2. CASE j # n + 1
        <5>1. j \in (i+1)..n /\ j \in 1..n
          BY <1>13, <3>1, <4>2
        <5> QED
          BY <1>12, <3>1, <5>1
      <4> QED
        BY <4>1, <4>2
    <3> QED
      BY <1>8, <1>12, <2>2, <3>1, <3>2, <3>3 DEF ConfirmedIn
  <2> QED
    BY <2>1, <2>2
<1> QED
  BY <1>15, <1>16, <1>17, <1>18, <1>19, <1>20, <1>21, <1>22 DEF IInv

\* Saving an existing shelter: the entry follows the revision that was locked.
LEMMA UpdateStep ==
    ASSUME IInv, NEW t \in Thread, NEW a \in Admin, NEW p \in Payload, Update(t, a, p)
    PROVE  /\ task[t].id \in Shelter /\ Write(t, task[t].id, a, p)
           /\ task[t].old = shelter[task[t].id]
           /\ task[t].old # None => task[t].old.revision < MaxRevision
           /\ \A u \in Thread \ {t} : task[u].pc = "locked" => task[u].id # task[t].id
           /\ \A i \in DOMAIN trail[task[t].id] : trail[task[t].id][i].at <= task[t].at
<1> DEFINE s == task[t].id
<1>1. task[t].pc = "locked" /\ Write(t, s, a, p)
  BY DEF Update
<1>2. s \in Shelter /\ shelter[s] \in Row /\ s # None /\ task[t].at \in 0..MaxClock
  BY <1>1, ShelterAssumption DEF IInv, TypeOK, Task
<1>3. /\ task[t].old = shelter[s] /\ task[t].revision = shelter[s].revision
      /\ task[t].old.revision < MaxRevision
      /\ \A u \in Thread \ {t} : task[u].pc = "locked" => task[u].id # s
  BY <1>1 DEF IInv, LockHeld
<1>4. /\ trail[s] \in Seq(Entry) /\ Len(trail[s]) = shelter[s].revision
      /\ Len(trail[s]) \in Nat /\ DOMAIN trail[s] = 1..Len(trail[s])
  BY <1>2, NoneIsNoRow DEF IInv, TypeOK, TrailIsChain
<1>5. trail[s][task[t].revision].at <= task[t].at /\ task[t].revision \in DOMAIN trail[s]
  BY <1>2 DEF IInv, PageShown
<1>6. \A i \in DOMAIN trail[s] : trail[s][i].at <= task[t].at
  <2> SUFFICES ASSUME NEW i \in DOMAIN trail[s] PROVE trail[s][i].at <= task[t].at
    OBVIOUS
  <2>1. CASE i = task[t].revision
    BY <1>5, <2>1
  <2>2. CASE i # task[t].revision
    <3>1. i < task[t].revision
      BY <1>3, <1>4, <2>2
    <3>2. trail[s][i].at <= trail[s][task[t].revision].at
      BY <1>2, <1>5, <3>1 DEF IInv, HistoryInOrder
    <3>3. trail[s][i].at \in Int /\ trail[s][task[t].revision].at \in Int /\ task[t].at \in Int
      BY <1>2, <1>5, EntryType DEF Entry, IInv
    <3> QED
      BY <1>5, <3>2, <3>3
  <2> QED
    BY <2>1, <2>2
<1> QED
  BY <1>1, <1>2, <1>3, <1>6

\* A new shelter has no entries, and nobody can hold its row.
LEMMA CreateStep ==
    ASSUME IInv, NEW t \in Thread, NEW s \in Shelter, NEW a \in Admin, NEW p \in Payload,
           Create(t, s, a, p)
    PROVE  /\ Write(t, s, a, p) /\ task[t].old = shelter[s] /\ shelter[s] = None
           /\ \A u \in Thread \ {t} : task[u].pc = "locked" => task[u].id # s
           /\ \A i \in DOMAIN trail[s] : trail[s][i].at <= task[t].at
<1>1. Write(t, s, a, p) /\ shelter[s] = None /\ task[t].pc = "begun"
  BY DEF Create
<1>2. task[t].old = None
  BY <1>1 DEF IInv, FreshTasks
<1>3. \A u \in Thread : task[u].pc = "locked" => shelter[task[u].id] # None
  BY ShelterAssumption DEF IInv, TypeOK
<1>4. trail[s] \in Seq(Entry) /\ Len(trail[s]) = 0
  BY <1>1 DEF IInv, TypeOK, TrailIsChain
<1>5. DOMAIN trail[s] = {}
  BY <1>4
<1> QED
  BY <1>1, <1>2, <1>3, <1>5

\* Each action keeps the invariant, however many saves wait for one row.
LEMMA InvStep == IInv /\ [Next]_vars => IInv'
<1> SUFFICES ASSUME IInv, [Next]_vars PROVE IInv'
  OBVIOUS
<1>1. ASSUME NEW t \in Thread, NEW s \in Shelter \cup {None}, NEW n \in 0..MaxRevision,
             Begin(t, s, n)
      PROVE  IInv'
  BY <1>1, BeginStep
<1>2. ASSUME NEW t \in Thread, Lock(t) PROVE IInv'
  BY <1>2, LockStep
<1>3. ASSUME NEW t \in Thread, NEW a \in Admin, NEW p \in Payload, Update(t, a, p)
      PROVE  IInv'
  BY <1>3, UpdateStep, WriteStep
<1>4. ASSUME NEW t \in Thread, NEW s \in Shelter, NEW a \in Admin, NEW p \in Payload,
             Create(t, s, a, p)
      PROVE  IInv'
  BY <1>4, CreateStep, WriteStep
<1>5. clock \in 0..MaxClock /\ clock <= clock /\ mode \in Modes /\ task \in [Thread -> Task]
  BY ShelterAssumption DEF IInv, TypeOK
<1>6. ASSUME NEW t \in Thread, Fail(t) PROVE IInv'
  BY <1>5, <1>6, IdleType, QuietSteps DEF Fail
<1>7. CASE Restart
  BY <1>5, <1>7, IdleType, QuietSteps DEF Restart
<1>8. CASE Tick
  BY <1>5, <1>8, ShelterAssumption, QuietSteps DEF Tick
<1>9. CASE UNCHANGED vars
  BY <1>5, <1>9, QuietSteps DEF vars
<1> QED
  BY <1>1, <1>2, <1>3, <1>4, <1>6, <1>7, <1>8, <1>9 DEF Next

-----------------------------------------------------------------------------
\* Rows, histories and the saves under way hold together, however they overtake one another.
THEOREM Invariant == Spec => []IInv
BY InitInv, InvStep, PTL DEF Spec

\* Every row, entry and thread keeps its shape, an open shelter has room and a
\* verifier, and no shelter a request names disappears.
THEOREM TypeCorrect == Spec => []TypeOK
<1>1. IInv => TypeOK
  BY DEF IInv
<1> QED
  BY <1>1, Invariant, PTL

\* The audit explains the row (ShelterStore.save writes both at once): no save
\* overwrites an edit its page did not show.
THEOREM TrailHolds == Spec => []TrailIsChain
<1>1. IInv => TrailIsChain
  BY DEF IInv
<1> QED
  BY <1>1, Invariant, PTL

\* history may sort by time: although a save takes its time before it waits for
\* the row, the compared revision keeps the entries in order.
THEOREM HistoryHolds == Spec => []HistoryInOrder
<1>1. IInv => HistoryInOrder
  BY DEF IInv
<1> QED
  BY <1>1, Invariant, PTL

\* The verifier a row names did verify it, and it was at most closed since.
THEOREM VerifierHolds == Spec => []VerifierNamed
<1>1. IInv => VerifierNamed
  BY DEF IInv
<1> QED
  BY <1>1, Invariant, PTL

-----------------------------------------------------------------------------
(* The promise to the public.                                              *)

\* The latest decision about an open shelter is its verification.
OpenIsDecided ==
    \A s \in Shelter : shelter[s] # None =>
        /\ Decided[s] \in 0..clock
        /\ shelter[s].status = "open" => shelter[s].verifiedAt = Decided[s]

\* What is open has been decided.
LEMMA DecidedNow == IInv => OpenIsDecided
<1> SUFFICES ASSUME IInv, NEW s \in Shelter, shelter[s] # None
             PROVE  /\ Decided[s] \in 0..clock
                    /\ shelter[s].status = "open" => shelter[s].verifiedAt = Decided[s]
  BY DEF OpenIsDecided
<1> DEFINE n == Len(trail[s])
<1>1. shelter[s] \in Row
  BY DEF IInv, TypeOK
<1>2. n = shelter[s].revision /\ trail[s] \in Seq(Entry) /\ n \in 1..MaxRevision
  BY <1>1 DEF IInv, TypeOK, TrailIsChain, Row
<1>3. n \in DOMAIN trail[s]
  BY <1>2, ShelterAssumption
<1>4. trail[s][n].after = shelter[s] /\ EntryVerifies(trail[s][n]) /\ trail[s][n].at <= clock
  BY <1>2, <1>3, ShelterAssumption DEF IInv, TrailIsChain, EntriesVerify, NothingAhead
<1>5. trail[s][n].at \in 0..MaxClock /\ clock \in 0..MaxClock
  BY <1>3, EntryType DEF IInv, Entry, TypeOK
<1>6. Decided[s] = trail[s][n].at
  BY DEF Decided
<1> QED
  BY <1>4, <1>5, <1>6, ShelterAssumption DEF EntryVerifies, Verified

\* And so it is after a step.
LEMMA DecidedNext == IInv' => OpenIsDecided'
BY DecidedNow, PTL

\* Where rows and clock rest, the promise rests.
LEMMA PromiseRests ==
    ASSUME UNCHANGED <<clock, shelter, trail>> PROVE UNCHANGED <<clock, Decided, Offer>>
BY DEF Decided, Offer, Listed

\* Writing a row is a decision about that shelter.
LEMMA WriteDecides ==
    ASSUME IInv, IInv', NEW t \in Thread, NEW s \in Shelter, NEW a \in Admin, NEW p \in Payload,
           Write(t, s, a, p), task[t].old = shelter[s],
           \A i \in DOMAIN trail[s] : trail[s][i].at <= task[t].at
    PROVE  Promise!Decide(s)
<1> DEFINE row == Saved(a, p, task[t].at, task[t].old)
           e == [at |-> task[t].at, by |-> a, confirmed |-> p.confirmed,
                 before |-> task[t].old, after |-> row]
           n == Len(trail[s])
<1>1. /\ clock' = clock /\ shelter' = [shelter EXCEPT ![s] = row]
      /\ trail' = [trail EXCEPT ![s] = Append(trail[s], e)]
  BY DEF Write
<1>2. /\ shelter \in [Shelter -> Row \cup {None}] /\ trail \in [Shelter -> Seq(Entry)]
      /\ trail[s] \in Seq(Entry) /\ n \in Nat /\ task[t].at \in 0..clock /\ clock \in 0..MaxClock
  BY ShelterAssumption DEF IInv, TypeOK, NothingAhead, Task
<1>3. /\ shelter'[s] = row /\ \A o \in Shelter \ {s} : shelter'[o] = shelter[o]
      /\ trail'[s] = Append(trail[s], e) /\ \A o \in Shelter \ {s} : trail'[o] = trail[o]
  BY <1>1, <1>2
<1>4. trail'[s][Len(trail'[s])] = e
  BY <1>2, <1>3
<1>5. row # None /\ row.facts \in Facts
  <2>1. row = shelter'[s] /\ shelter'[s] \in Row \cup {None}
    BY <1>3 DEF IInv, TypeOK
  <2>2. shelter'[s] # None
    <3>1. Len(trail'[s]) = n + 1
      BY <1>2, <1>3
    <3> QED
      BY <1>2, <3>1 DEF IInv, TrailIsChain
  <2> QED
    BY <2>1, <2>2 DEF Row
<1>6. Decided'[s] = task[t].at
  BY <1>3, <1>4, <1>5 DEF Decided
<1>7. Decided[s] <= task[t].at /\ Decided[s] \in 0..clock
  <2>1. CASE shelter[s] = None
    BY <1>2, <2>1, ShelterAssumption DEF Decided
  <2>2. CASE shelter[s] # None
    <3>1. n \in DOMAIN trail[s]
      BY <1>2, <2>2, ShelterAssumption DEF IInv, TypeOK, TrailIsChain, Row
    <3> QED
      BY <2>2, <3>1, DecidedNow DEF Decided, OpenIsDecided
  <2> QED
    BY <2>1, <2>2
<1>8. Offer'[s] \in Facts \cup {None}
  BY <1>3, <1>5 DEF Offer
<1>9. Offer'[s] # None => clock < Decided'[s] + Valid
  <2> SUFFICES ASSUME Offer'[s] # None PROVE clock < Decided'[s] + Valid
    OBVIOUS
  <2>1. shelter'[s] # None /\ shelter'[s].status = "open" /\ shelter'[s].verifiedAt > clock' - Valid
    BY DEF Offer, Listed
  <2>2. shelter'[s].verifiedAt = Decided'[s]
    BY <2>1, DecidedNext DEF OpenIsDecided
  <2> QED
    BY <1>1, <1>2, <1>6, <2>1, <2>2, ShelterAssumption
<1>10. \A o \in Shelter \ {s} : Decided'[o] = Decided[o] /\ Offer'[o] = Offer[o]
  BY <1>1, <1>3 DEF Decided, Offer, Listed
<1>11. Decided'[s] \in Decided[s]..clock
  BY <1>2, <1>6, <1>7
<1> QED
  BY <1>1, <1>8, <1>9, <1>10, <1>11 DEF Promise!Decide

\* When time passes, what was verified too long ago leaves the list.
LEMMA TickPasses == ASSUME IInv, IInv', Tick PROVE Promise!Pass
<1>1. clock' = clock + 1 /\ UNCHANGED <<shelter, trail>> /\ clock \in 0..MaxClock
  BY DEF Tick, IInv, TypeOK
<1>2. Decided' = Decided
  BY <1>1 DEF Decided
<1>3. ASSUME NEW s \in Shelter
      PROVE  Offer'[s] = IF clock' < Decided[s] + Valid THEN Offer[s] ELSE None
  <2>1. CASE shelter[s] = None \/ shelter[s].status # "open"
    BY <1>1, <2>1 DEF Offer, Listed
  <2>2. CASE shelter[s] # None /\ shelter[s].status = "open"
    <3>1. shelter[s].verifiedAt = Decided[s] /\ Decided[s] \in 0..clock
      BY <2>2, DecidedNow DEF OpenIsDecided
    <3>2. Offer[s] = IF Decided[s] > clock - Valid THEN shelter[s].facts ELSE None
      BY <2>2, <3>1 DEF Offer, Listed
    <3>3. Offer'[s] = IF Decided[s] > clock' - Valid THEN shelter[s].facts ELSE None
      BY <1>1, <2>2, <3>1 DEF Offer, Listed
    <3>4. /\ Decided[s] > clock' - Valid <=> clock' < Decided[s] + Valid
          /\ Decided[s] > clock' - Valid => Decided[s] > clock - Valid
      BY <1>1, <3>1, ShelterAssumption
    <3> QED
      BY <3>2, <3>3, <3>4
  <2> QED
    BY <2>1, <2>2
<1>4. Offer' = [s \in Shelter |-> IF clock' < Decided[s] + Valid THEN Offer[s] ELSE None]
  BY <1>3 DEF Offer
<1> QED
  BY <1>1, <1>2, <1>4 DEF Promise!Pass

\* Each step is one of the public offer, or leaves it.
LEMMA PromiseStep == IInv /\ [Next]_vars => [Promise!Next]_<<clock, Decided, Offer>>
<1> SUFFICES ASSUME IInv, [Next]_vars PROVE [Promise!Next]_<<clock, Decided, Offer>>
  OBVIOUS
<1>1. IInv'
  BY InvStep
<1>2. ASSUME NEW t \in Thread, NEW a \in Admin, NEW p \in Payload, Update(t, a, p)
      PROVE  Promise!Next
  BY <1>1, <1>2, UpdateStep, WriteDecides DEF Promise!Next
<1>3. ASSUME NEW t \in Thread, NEW s \in Shelter, NEW a \in Admin, NEW p \in Payload,
             Create(t, s, a, p)
      PROVE  Promise!Next
  BY <1>1, <1>3, CreateStep, WriteDecides DEF Promise!Next
<1>4. CASE Tick
  BY <1>1, <1>4, TickPasses DEF Promise!Next
<1>5. ASSUME NEW t \in Thread,
             \/ \E s \in Shelter \cup {None}, n \in 0..MaxRevision : Begin(t, s, n)
             \/ Lock(t) \/ Fail(t)
      PROVE  UNCHANGED <<clock, Decided, Offer>>
  BY <1>5, PromiseRests DEF Begin, Lock, Fail
<1>6. CASE Restart \/ UNCHANGED vars
  BY <1>6, PromiseRests DEF Restart, vars
<1> QED
  BY <1>2, <1>3, <1>4, <1>5, <1>6 DEF Next

\* The public list keeps its promise: what it offers was confirmed by the latest
\* decision about that shelter and less than Valid hours ago.
THEOREM KeepsOffer == Spec => OfferKept
<1>1. Init => Promise!Init
  BY DEF Init, Promise!Init, Decided, Offer
<1> QED
  BY <1>1, Invariant, PromiseStep, PTL DEF Spec, OfferKept, Promise!Spec
=============================================================================
