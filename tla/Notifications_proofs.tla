------------------------- MODULE Notifications_proofs -------------------------
(***************************************************************************)
(* Proofs about Notifications, for any number of administrators, requests, *)
(* subscribers and threads and any limits.                                 *)
(***************************************************************************)
EXTENDS Notifications, FiniteSetTheorems, TLAPS

\* The threads that are past the check of their message's status.
Working == {"check", "claim", "count", "sending", "record", "finish"}

\* A claim under way still has its draft; a committed one has its message
\* 'sending' and has handed nothing to the recipients it has left.
ClaimStands ==
    \A t \in Thread :
        /\ task[t].pc \in {"check", "claim", "count"} =>
              note[task[t].id] # None /\ note[task[t].id].status = "draft"
        /\ task[t].pc \in {"sending", "record", "finish"} =>
              /\ note[task[t].id] # None /\ note[task[t].id].status = "sending"
              /\ \A r \in task[t].targets : handed[task[t].id][r] = 0

\* No two threads work on the same message.
OneThreadEach ==
    \A t, u \in Thread :
        t # u /\ task[t].pc \in Working /\ task[u].pc \in Working => task[t].id # task[u].id

\* Nobody was contacted about a message that was not claimed.
DraftsUnsent ==
    \A id \in Id : (note[id] = None \/ note[id].status = "draft")
                      => \A r \in Recipient : handed[id][r] = 0

IInv == TypeOK /\ ClaimStands /\ OneThreadEach /\ DraftsUnsent /\ AtMostOnce

-----------------------------------------------------------------------------
\* The window of a moment begins no later than that moment.
LEMMA StartOfType == ASSUME NEW t \in 0..MaxClock PROVE StartOf(t) \in 0..MaxClock
<1>1. Window \in Nat \ {0} /\ MaxClock \in Nat
  BY NotificationAssumption
<1>2. t \div Window \in Nat /\ Window * (t \div Window) <= t
  BY <1>1
<1>3. Window * (t \div Window) \in Nat
  BY <1>1, <1>2
<1> QED
  BY <1>1, <1>2, <1>3 DEF StartOf

\* The people a message goes to are recipients.
LEMMA TargetsType == ASSUME TypeOK, NEW c PROVE Targets(c) \subseteq Recipient
BY DEF TypeOK, Targets, Recipient

\* A broadcast has a natural number of recipients.
LEMMA TargetsCount == ASSUME NEW S \in SUBSET Recipient PROVE Cardinality(S) \in Nat
<1>1. IsFiniteSet(Key) /\ IsFiniteSet({Operator})
  BY NotificationAssumption, FS_Singleton
<1>2. IsFiniteSet(Recipient)
  BY <1>1, FS_Union DEF Recipient
<1> QED
  BY <1>2, FS_Subset, FS_CardinalityType

\* An idle thread is described by a task of the right shape.
LEMMA IdleType == Idle \in Task
<1>1. NoResults \in [Recipient -> Result \cup {None}]
  BY DEF NoResults
<1>2. 0 \in 0..MaxClock
  BY NotificationAssumption
<1> QED
  BY <1>1, <1>2 DEF Idle, Task

\* A thread that goes on keeps the shape of its task, its message and content.
LEMMA TaskStep ==
    ASSUME NEW k \in Task, NEW at \in 0..MaxClock,
           NEW pc \in {"claim", "count", "sending", "record", "finish"}, NEW row \in BOOLEAN
    PROVE  /\ [k EXCEPT !.pc = pc] \in Task /\ [k EXCEPT !.pc = pc, !.at = at] \in Task
           /\ [k EXCEPT !.pc = pc, !.row = row] \in Task
BY DEF Task

\* So does one that has heard about a recipient.
LEMMA TaskHands ==
    ASSUME NEW k \in Task, NEW r \in Recipient, NEW result \in Result, NEW pc \in {"record", "finish"}
    PROVE  [k EXCEPT !.targets = @ \ {r}, !.results = [@ EXCEPT ![r] = result], !.pc = pc] \in Task
BY DEF Task

\* What a broadcast settles to is one of the settled states.
LEMMA OutcomeType == ASSUME NEW results PROVE Outcome(results) \in Settled
BY DEF Outcome, Settled

\* The invariant holds initially.
LEMMA InitInv == Init => IInv
<1> SUFFICES ASSUME Init PROVE IInv
  OBVIOUS
<1> USE DEF Init
<1>1. TypeOK
  <2>1. clock \in 0..MaxClock
    BY NotificationAssumption
  <2>2. \A t \in Thread : task[t] = Idle
    OBVIOUS
  <2>3. task \in [Thread -> Task]
    BY IdleType
  <2> QED
    BY <2>1, <2>2, <2>3 DEF TypeOK, NoResults
<1>2. ClaimStands /\ OneThreadEach
  BY DEF ClaimStands, OneThreadEach, Working, Idle
<1>3. DraftsUnsent /\ AtMostOnce
  BY DEF DraftsUnsent, AtMostOnce
<1> QED
  BY <1>1, <1>2, <1>3 DEF IInv

\* Every step keeps the shape of the state.
LEMMA TypeStep == TypeOK /\ ClaimStands /\ [Next]_vars => TypeOK'
<1> SUFFICES ASSUME TypeOK, ClaimStands, [Next]_vars PROVE TypeOK'
  OBVIOUS
<1> USE DEF outside, ledger
<1>1. ASSUME NEW t \in Thread, NEW id \in Id, NEW p \in Payloads, Preview(t, id, p)
      PROVE  TypeOK'
  <2> DEFINE c == [target |-> p.target, config |-> config,
                   shelter |-> IF p.shelter THEN shelter ELSE None]
  <2>1. c \in Content
    BY <1>1, NotificationAssumption DEF Preview, TypeOK, Content
  <2>2. [Idle EXCEPT !.pc = "preview", !.id = id, !.content = c] \in Task
    BY <2>1, IdleType DEF Task, Idle
  <2>3. task' \in [Thread -> Task]
    BY <1>1, <2>2 DEF Preview, TypeOK
  <2>4. \A u \in Thread : task'[u] # Idle => task'[u].id \in Id /\ task'[u].content \in Content
    BY <1>1, <2>1 DEF Preview, TypeOK, Idle
  <2> QED
    BY <1>1, <2>3, <2>4 DEF Preview, TypeOK
<1>2. ASSUME NEW t \in Thread, NEW id \in Id, NEW a \in Admin, NEW c \in Content,
             Approve(t, id, a, c)
      PROVE  TypeOK'
  <2>1. [Idle EXCEPT !.pc = "check", !.id = id, !.content = c, !.targets = Targets(c)] \in Task
    BY IdleType, TargetsType DEF Task, Idle
  <2>2. task' \in [Thread -> Task]
    BY <1>2, <2>1 DEF Approve, TypeOK
  <2>3. \A u \in Thread : task'[u] # Idle => task'[u].id \in Id /\ task'[u].content \in Content
    BY <1>2 DEF Approve, TypeOK, Idle
  <2> QED
    BY <1>2, <2>2, <2>3 DEF Approve, TypeOK
<1>3. ASSUME NEW t \in Thread, Draft(t) PROVE TypeOK'
  <2>1. task[t].id \in Id /\ task[t].content \in Content
    BY <1>3 DEF Draft, TypeOK, Idle
  <2>2. note' \in [Id -> Note \cup {None}]
    BY <1>3, <2>1 DEF Draft, TypeOK, Note
  <2>3. task' \in [Thread -> Task]
    BY <1>3, IdleType DEF Draft, TypeOK
  <2> QED
    BY <1>3, <2>2, <2>3 DEF Draft, TypeOK
<1>4. ASSUME NEW t \in Thread, Stamp(t) PROVE TypeOK'
  <2> DEFINE new == [task[t] EXCEPT !.pc = "claim", !.at = clock]
  <2>3. task[t] \in Task /\ task[t].id \in Id /\ task[t].content \in Content
    BY <1>4 DEF Stamp, TypeOK, Idle
  <2>4. new \in Task
    BY <2>3, TaskStep DEF TypeOK
  <2>0. new \in Task /\ new.id \in Id /\ new.content \in Content
    BY <2>3, <2>4 DEF Task
  <2>1. task' \in [Thread -> Task]
    BY <1>4, <2>0 DEF Stamp, TypeOK
  <2>2. \A u \in Thread : task'[u] # Idle => task'[u].id \in Id /\ task'[u].content \in Content
    BY <1>4, <2>0 DEF Stamp, TypeOK
  <2> QED
    BY <1>4, <2>1, <2>2 DEF Stamp, TypeOK
<1>5. ASSUME NEW t \in Thread, Commit(t) PROVE TypeOK'
  <2> DEFINE id == task[t].id
  <2>1. task[t] \in Task /\ id \in Id /\ task[t].content \in Content /\ note[id] \in Note
    BY <1>5 DEF Commit, TypeOK, ClaimStands, Idle
  <2>2. StartOf(task[t].at) \in 0..MaxClock
    BY <2>1, StartOfType DEF Task
  <2>3. Counted(StartOf(task[t].at)) + 1 \in Nat
    BY DEF Counted, TypeOK
  <2>4. /\ bucket' = None \/ bucket' \in [start : 0..MaxClock, attempts : Nat]
        /\ missed' \subseteq Id
    <3>1. CASE Gone(t)
      BY <1>5, <2>1, <3>1 DEF Commit, TypeOK
    <3>2. CASE ~Gone(t)
      <4>1. bucket' = [start |-> StartOf(task[t].at), attempts |-> Counted(StartOf(task[t].at)) + 1]
        BY <1>5, <3>2 DEF Commit
      <4>2. missed' = missed
        BY <1>5, <3>2 DEF Commit
      <4> QED
        BY <2>2, <2>3, <4>1, <4>2 DEF TypeOK
    <3> QED
      BY <3>1, <3>2
  <2>5. Cardinality(task[t].targets) \in Nat
    BY <2>1, TargetsCount DEF Task
  <2>6. note' \in [Id -> Note \cup {None}]
    BY <1>5, <2>1, <2>5 DEF Commit, TypeOK, Note, Task
  <2> DEFINE new == [task[t] EXCEPT !.pc = "sending"]
  <2>9. new \in Task /\ new.id \in Id /\ new.content \in Content
    <3>1. FALSE \in BOOLEAN /\ clock \in 0..MaxClock
      BY DEF TypeOK
    <3>2. new \in Task
      BY <2>1, <3>1, TaskStep
    <3> QED
      BY <2>1, <3>2 DEF Task
  <2>7. task' \in [Thread -> Task]
    BY <1>5, <2>9 DEF Commit, TypeOK
  <2>8. \A u \in Thread : task'[u] # Idle => task'[u].id \in Id /\ task'[u].content \in Content
    BY <1>5, <2>9 DEF Commit, TypeOK
  <2> QED
    BY <1>5, <2>4, <2>6, <2>7, <2>8 DEF Commit, TypeOK
<1>6. ASSUME NEW t \in Thread, NEW r \in Recipient, NEW result \in Result, Hand(t, r, result)
      PROVE  TypeOK'
  <2>1. task[t] \in Task /\ task[t].id \in Id /\ task[t].content \in Content
    BY <1>6 DEF Hand, TypeOK, Idle
  <2>2. handed' \in [Id -> [Recipient -> Nat]]
    BY <1>6, <2>1 DEF Hand, TypeOK
  <2> DEFINE pc == IF task[t].content.target = "district" THEN "record" ELSE "finish"
             new == [task[t] EXCEPT !.targets = @ \ {r}, !.results = [@ EXCEPT ![r] = result],
                                    !.pc = pc]
  <2>5. pc \in {"record", "finish"}
    OBVIOUS
  <2>6. new \in Task /\ new.id \in Id /\ new.content \in Content
    <3>2. new \in Task
      <4> HIDE DEF pc
      <4> QED
        BY <2>1, <2>5, TaskHands
    <3> HIDE DEF pc
    <3> QED
      BY <2>1, <3>2 DEF Task
  <2>7. task' = [task EXCEPT ![t] = new]
    BY <1>6 DEF Hand
  <2>3. task' \in [Thread -> Task]
    <3> HIDE DEF new
    <3> QED
      BY <2>6, <2>7 DEF TypeOK
  <2>4. \A u \in Thread : task'[u] # Idle => task'[u].id \in Id /\ task'[u].content \in Content
    <3> HIDE DEF new
    <3> QED
      BY <2>6, <2>7 DEF TypeOK
  <2> QED
    BY <1>6, <2>2, <2>3, <2>4 DEF Hand, TypeOK
<1>7. ASSUME NEW t \in Thread, Record(t) PROVE TypeOK'
  <2>1. task[t] \in Task /\ task[t].id \in Id
    BY <1>7 DEF Record, TypeOK, Idle
  <2>2. deliveries' \in [Id -> [Recipient -> Result \cup {None}]]
    BY <1>7, <2>1 DEF Record, Unrecorded, TypeOK, Task, Recipient
  <2>3. consent' \subseteq Recipient
    BY <1>7 DEF Record, TypeOK
  <2> DEFINE pc == IF task[t].targets = {} THEN "finish" ELSE "sending"
             new == [task[t] EXCEPT !.pc = pc]
  <2>6. pc \in {"sending", "finish"}
    OBVIOUS
  <2>7. new \in Task /\ new.id \in Id /\ new.content \in Content
    <3>1. task[t].content \in Content
      BY <1>7 DEF Record, TypeOK, Idle
    <3>2. new \in Task
      <4> HIDE DEF pc
      <4> QED
        BY <2>1, <2>6 DEF Task
    <3> HIDE DEF pc
    <3> QED
      BY <2>1, <3>1, <3>2 DEF Task
  <2>4. task' \in [Thread -> Task]
    BY <1>7, <2>7 DEF Record, TypeOK
  <2>5. \A u \in Thread : task'[u] # Idle => task'[u].id \in Id /\ task'[u].content \in Content
    BY <1>7, <2>7 DEF Record, TypeOK
  <2> QED
    BY <1>7, <2>2, <2>3, <2>4, <2>5 DEF Record, TypeOK
<1>8. ASSUME NEW t \in Thread, Finish(t) PROVE TypeOK'
  <2>1. task[t].id \in Id /\ note[task[t].id] \in Note
    BY <1>8 DEF Finish, TypeOK, ClaimStands, Idle
  <2>2. note' \in [Id -> Note \cup {None}]
    BY <1>8, <2>1, OutcomeType DEF Finish, TypeOK, Note
  <2>3. task' \in [Thread -> Task]
    BY <1>8, IdleType DEF Finish, TypeOK
  <2> QED
    BY <1>8, <2>2, <2>3 DEF Finish, TypeOK
<1>0. ASSUME NEW threads \in SUBSET Thread PROVE Served(threads) \subseteq Id
  BY DEF Served, TypeOK, Idle
<1>9. ASSUME NEW t \in Thread, Fail(t) PROVE TypeOK'
  <2>1. {t} \in SUBSET Thread /\ dead' = dead \cup Served({t}) /\ dead \subseteq Id
    BY <1>9 DEF Fail, TypeOK
  <2>2. dead' \subseteq Id
    BY <1>0, <2>1
  <2> QED
    BY <1>9, <2>2, IdleType DEF Fail, TypeOK
<1>10. CASE \E r \in Recipient : Consent(r)
  BY <1>10 DEF Consent, TypeOK
<1>11. CASE \E s \in Shelters \cup {None} : ShelterChange(s)
  BY <1>11 DEF ShelterChange, TypeOK
<1>12. CASE \E c \in Configs : Reconfigure(c)
  <2>1. dead' = dead \cup Served(Thread) /\ dead \subseteq Id
    BY <1>12 DEF Reconfigure, TypeOK
  <2>2. dead' \subseteq Id
    BY <1>0, <2>1
  <2> QED
    BY <1>12, <2>2, IdleType DEF Reconfigure, TypeOK
<1>13. CASE Tick
  BY <1>13, NotificationAssumption DEF Tick, TypeOK
<1>14. CASE UNCHANGED vars
  BY <1>14 DEF vars, TypeOK
<1>15. ASSUME NEW t \in Thread, Look(t) PROVE TypeOK'
  <2> DEFINE new == [task[t] EXCEPT !.pc = "count", !.row = (bucket # None)]
  <2>1. task[t] \in Task /\ task[t].id \in Id /\ task[t].content \in Content
    BY <1>15 DEF Look, TypeOK, Idle
  <2>2. (bucket # None) \in BOOLEAN
    OBVIOUS
  <2>3. new \in Task
    BY <2>1, <2>2, TaskStep DEF TypeOK
  <2>4. new \in Task /\ new.id \in Id /\ new.content \in Content
    BY <2>1, <2>3 DEF Task
  <2>5. task' \in [Thread -> Task]
    BY <1>15, <2>4 DEF Look, TypeOK
  <2>6. \A u \in Thread : task'[u] # Idle => task'[u].id \in Id /\ task'[u].content \in Content
    BY <1>15, <2>4 DEF Look, TypeOK
  <2> QED
    BY <1>15, <2>5, <2>6 DEF Look, TypeOK
<1>16. CASE Purge
  BY <1>16 DEF Purge, TypeOK
<1> QED
  BY <1>1, <1>2, <1>3, <1>4, <1>5, <1>6, <1>7, <1>8, <1>9, <1>10, <1>11, <1>12, <1>13, <1>14,
     <1>15, <1>16
  DEF Next, Serve

-----------------------------------------------------------------------------
\* A step that leaves messages alone and at most rests threads keeps the rest
\* of the invariant.
LEMMA RestStep ==
    ASSUME IInv, UNCHANGED <<note, handed>>,
           \A t \in Thread : task'[t] = task[t] \/ task'[t].pc \notin Working
    PROVE  (ClaimStands /\ OneThreadEach /\ DraftsUnsent /\ AtMostOnce)'
BY DEF IInv, ClaimStands, OneThreadEach, DraftsUnsent, AtMostOnce, Working

\* Every step keeps the invariant.
LEMMA InvStep == IInv /\ [Next]_vars => IInv'
<1> SUFFICES ASSUME IInv, [Next]_vars
             PROVE  (ClaimStands /\ OneThreadEach /\ DraftsUnsent /\ AtMostOnce)'
  BY TypeStep DEF IInv
<1> USE DEF outside, ledger
<1>0. \A t \in Thread : task[t] # Idle => task[t].id \in Id
  BY DEF IInv, TypeOK
<1>1. ASSUME NEW t \in Thread, NEW id \in Id, NEW p \in Payloads, Preview(t, id, p)
      PROVE  (ClaimStands /\ OneThreadEach /\ DraftsUnsent /\ AtMostOnce)'
  BY <1>1, RestStep DEF Preview, Working, Idle, IInv, TypeOK
<1>2. ASSUME NEW t \in Thread, NEW id \in Id, NEW a \in Admin, NEW c \in Content,
             Approve(t, id, a, c)
      PROVE  (ClaimStands /\ OneThreadEach /\ DraftsUnsent /\ AtMostOnce)'
  <2> DEFINE new == [Idle EXCEPT !.pc = "check", !.id = id, !.content = c,
                                 !.targets = Targets(c)]
  <2>1. new.pc = "check" /\ new.id = id
    BY DEF Idle
  <2>2. task' = [task EXCEPT ![t] = new] /\ UNCHANGED <<note, handed>>
    BY <1>2 DEF Approve
  <2>3. note[id] # None /\ note[id].status = "draft"
    BY <1>2 DEF Approve, Claimable, Unclaimed
  <2>4. \A u \in Thread : task[u].pc \in Working => task[u].id # id
    BY <1>2, <2>3 DEF Approve, RowLocked, Working, IInv, ClaimStands
  <2> HIDE DEF new
  <2>5. ClaimStands'
    BY <2>1, <2>2, <2>3 DEF IInv, TypeOK, ClaimStands
  <2>6. OneThreadEach'
    BY <2>1, <2>2, <2>4 DEF IInv, TypeOK, OneThreadEach
  <2> QED
    BY <2>2, <2>5, <2>6 DEF IInv, DraftsUnsent, AtMostOnce
<1>3. ASSUME NEW t \in Thread, Draft(t)
      PROVE  (ClaimStands /\ OneThreadEach /\ DraftsUnsent /\ AtMostOnce)'
  <2>1. /\ UNCHANGED handed
        /\ \A u \in Thread : task'[u] = task[u] \/ task'[u].pc \notin Working
        /\ \A id \in Id : \/ note'[id] = note[id]
                          \/ (note[id] = None /\ note'[id].status = "draft")
    BY <1>3 DEF Draft, IInv, TypeOK, Idle, Working
  <2>2. \A u \in Thread : task[u].pc \in Working => note'[task[u].id] = note[task[u].id]
    BY <1>0, <2>1 DEF Working, IInv, ClaimStands, Idle
  <2>3. ClaimStands'
    BY <2>1, <2>2 DEF IInv, ClaimStands, Working
  <2>4. OneThreadEach'
    BY <2>1 DEF IInv, OneThreadEach
  <2> QED
    BY <2>1, <2>3, <2>4 DEF IInv, DraftsUnsent, AtMostOnce
<1>4. ASSUME NEW t \in Thread, Stamp(t)
      PROVE  (ClaimStands /\ OneThreadEach /\ DraftsUnsent /\ AtMostOnce)'
  <2>1. /\ UNCHANGED <<note, handed>>
        /\ task[t].pc = "check" /\ task'[t].pc = "claim" /\ task'[t].id = task[t].id
        /\ \A u \in Thread \ {t} : task'[u] = task[u]
    BY <1>4 DEF Stamp, IInv, TypeOK, Task
  <2> QED
    BY <2>1 DEF IInv, ClaimStands, OneThreadEach, DraftsUnsent, AtMostOnce, Working
<1>5. ASSUME NEW t \in Thread, Commit(t)
      PROVE  (ClaimStands /\ OneThreadEach /\ DraftsUnsent /\ AtMostOnce)'
  <2> DEFINE id == task[t].id
  <2>1. /\ task[t].pc = "count" /\ task'[t].pc = "sending" /\ task'[t].id = id
        /\ task'[t].targets = task[t].targets
        /\ \A u \in Thread \ {t} : task'[u] = task[u]
        /\ UNCHANGED handed
    BY <1>5 DEF Commit, IInv, TypeOK, Task
  <2>2. id \in Id /\ note[id] \in Note /\ note[id].status = "draft" /\ task[t] \in Task
    BY <1>5, <2>1, <1>0 DEF IInv, TypeOK, ClaimStands, Idle
  <2>3. /\ note'[id] \in Note /\ note'[id].status = "sending"
        /\ \A i \in Id \ {id} : note'[i] = note[i]
    <3>2. note'[id] = [note[id] EXCEPT !.status = "sending", !.attemptedAt = task[t].at,
                                       !.recipients = Cardinality(task[t].targets)]
      BY <1>5, <2>2 DEF Commit, IInv, TypeOK
    <3>3. note'[id] \in Note /\ note'[id].status = "sending"
      <4>1. task[t].at \in 0..MaxClock /\ Cardinality(task[t].targets) \in Nat
        BY <2>2, TargetsCount DEF Task
      <4> DEFINE n == note[id]
                 at == task[t].at
                 count == Cardinality(task[t].targets)
                 new == note'[id]
      <4>2. n \in Note /\ at \in 0..MaxClock /\ count \in Nat
        BY <2>2, <4>1
      <4>3. new = [n EXCEPT !.status = "sending", !.attemptedAt = at, !.recipients = count]
        BY <3>2
      <4> HIDE DEF n, at, count, id, new
      <4>4. new \in Note /\ new.status = "sending"
        BY <4>2, <4>3 DEF Note
      <4> QED
        BY <4>4 DEF new, id
    <3>4. \A i \in Id \ {id} : note'[i] = note[i]
      BY <1>5, <2>2 DEF Commit, IInv, TypeOK
    <3> QED
      BY <3>3, <3>4
  <2>4. \A r \in Recipient : handed[id][r] = 0
    BY <2>2 DEF IInv, DraftsUnsent
  <2>5. ClaimStands'
    <3>1. \A u \in Thread \ {t} : task[u].pc \in Working => task[u].id \in Id \ {id}
      BY <1>0, <2>1 DEF IInv, OneThreadEach, Working, Idle
    <3>2. task[t].targets \subseteq Recipient /\ note'[id] # None
      BY <2>2, <2>3, NotificationAssumption DEF Task
    <3> QED
      BY <2>1, <2>3, <2>4, <3>1, <3>2 DEF IInv, ClaimStands, Working
  <2>6. OneThreadEach'
    BY <2>1 DEF IInv, OneThreadEach, Working
  <2>7. DraftsUnsent'
    BY <2>1, <2>3, NotificationAssumption DEF IInv, DraftsUnsent
  <2> QED
    BY <2>1, <2>5, <2>6, <2>7 DEF IInv, AtMostOnce
<1>6. ASSUME NEW t \in Thread, NEW r \in Recipient, NEW result \in Result, Hand(t, r, result)
      PROVE  (ClaimStands /\ OneThreadEach /\ DraftsUnsent /\ AtMostOnce)'
  <2> DEFINE id == task[t].id
  <2>1. /\ task[t].pc = "sending" /\ task'[t].pc \in {"record", "finish"}
        /\ task'[t].id = id /\ task'[t].targets = task[t].targets \ {r}
        /\ r \in task[t].targets
        /\ \A u \in Thread \ {t} : task'[u] = task[u]
        /\ UNCHANGED note
    BY <1>6 DEF Hand, IInv, TypeOK, Task
  <2>2. id \in Id /\ note[id] # None /\ note[id].status = "sending" /\ handed[id][r] = 0
    BY <1>0, <2>1 DEF IInv, ClaimStands, Idle
  <2>3. /\ handed'[id][r] = 1
        /\ \A s \in Recipient \ {r} : handed'[id][s] = handed[id][s]
        /\ \A i \in Id \ {id} : handed'[i] = handed[i]
    BY <1>6, <2>2 DEF Hand, IInv, TypeOK
  <2>4. \A u \in Thread \ {t} : task[u].pc \in Working => task[u].id \in Id \ {id}
    BY <1>0, <2>1 DEF IInv, OneThreadEach, Working, Idle
  <2>5. task[t].targets \subseteq Recipient
    BY <1>6 DEF IInv, TypeOK, Task
  <2>6. ClaimStands'
    BY <2>1, <2>2, <2>3, <2>4, <2>5 DEF IInv, ClaimStands, Working
  <2>7. OneThreadEach'
    BY <2>1 DEF IInv, OneThreadEach, Working
  <2>8. DraftsUnsent'
    BY <2>1, <2>2, <2>3 DEF IInv, DraftsUnsent
  <2>9. AtMostOnce'
    BY <2>2, <2>3 DEF IInv, AtMostOnce
  <2> QED
    BY <2>6, <2>7, <2>8, <2>9
<1>7. ASSUME NEW t \in Thread, Record(t)
      PROVE  (ClaimStands /\ OneThreadEach /\ DraftsUnsent /\ AtMostOnce)'
  <2>1. /\ task[t].pc = "record" /\ task'[t].pc \in {"sending", "finish"}
        /\ task'[t].id = task[t].id /\ task'[t].targets = task[t].targets
        /\ \A u \in Thread \ {t} : task'[u] = task[u]
        /\ UNCHANGED <<note, handed>>
    BY <1>7 DEF Record, IInv, TypeOK, Task
  <2> QED
    BY <2>1 DEF IInv, ClaimStands, OneThreadEach, DraftsUnsent, AtMostOnce, Working
<1>8. ASSUME NEW t \in Thread, Finish(t)
      PROVE  (ClaimStands /\ OneThreadEach /\ DraftsUnsent /\ AtMostOnce)'
  <2> DEFINE id == task[t].id
  <2>1. /\ task[t].pc = "finish" /\ task'[t].pc = "idle"
        /\ \A u \in Thread \ {t} : task'[u] = task[u]
        /\ UNCHANGED handed
    BY <1>8 DEF Finish, IInv, TypeOK, Idle
  <2>2. id \in Id /\ note[id] \in Note /\ note[id] # None
    BY <1>8, <1>0, <2>1 DEF IInv, TypeOK, ClaimStands, Idle
  <2>3. note'[id] \in Note /\ note'[id].status \in Settled
    BY <1>8, <2>2, OutcomeType DEF Finish, IInv, TypeOK, Note
  <2>4. \A i \in Id \ {id} : note'[i] = note[i]
    BY <1>8, <2>2 DEF Finish, IInv, TypeOK
  <2>5. \A u \in Thread \ {t} : task[u].pc \in Working => task[u].id \in Id \ {id}
    BY <1>0, <2>1 DEF IInv, OneThreadEach, Working, Idle
  <2>6. ClaimStands'
    BY <2>1, <2>4, <2>5 DEF IInv, ClaimStands, Working
  <2>7. OneThreadEach'
    BY <2>1 DEF IInv, OneThreadEach, Working
  <2>8. DraftsUnsent'
    BY <2>1, <2>3, <2>4, NotificationAssumption DEF IInv, DraftsUnsent, Settled
  <2> QED
    BY <2>1, <2>6, <2>7, <2>8 DEF IInv, AtMostOnce
<1>9. ASSUME NEW t \in Thread, Fail(t)
      PROVE  (ClaimStands /\ OneThreadEach /\ DraftsUnsent /\ AtMostOnce)'
  BY <1>9, RestStep DEF Fail, Working, Idle, IInv, TypeOK
<1>10. ASSUME NEW r \in Recipient, Consent(r)
       PROVE  (ClaimStands /\ OneThreadEach /\ DraftsUnsent /\ AtMostOnce)'
  BY <1>10, RestStep DEF Consent
<1>11. ASSUME NEW s \in Shelters \cup {None}, ShelterChange(s)
       PROVE  (ClaimStands /\ OneThreadEach /\ DraftsUnsent /\ AtMostOnce)'
  BY <1>11, RestStep DEF ShelterChange
<1>12. ASSUME NEW c \in Configs, Reconfigure(c)
       PROVE  (ClaimStands /\ OneThreadEach /\ DraftsUnsent /\ AtMostOnce)'
  BY <1>12, RestStep DEF Reconfigure, Working, Idle
<1>13. CASE Tick
  BY <1>13, RestStep DEF Tick
<1>14. CASE UNCHANGED vars
  BY <1>14, RestStep DEF vars
<1>15. ASSUME NEW t \in Thread, Look(t)
       PROVE  (ClaimStands /\ OneThreadEach /\ DraftsUnsent /\ AtMostOnce)'
  <2>1. /\ UNCHANGED <<note, handed>>
        /\ task[t].pc = "claim" /\ task'[t].pc = "count" /\ task'[t].id = task[t].id
        /\ \A u \in Thread \ {t} : task'[u] = task[u]
    BY <1>15 DEF Look, IInv, TypeOK, Task
  <2> QED
    BY <2>1 DEF IInv, ClaimStands, OneThreadEach, DraftsUnsent, AtMostOnce, Working
<1>16. CASE Purge
  BY <1>16, RestStep DEF Purge
<1> QED
  BY <1>1, <1>2, <1>3, <1>4, <1>5, <1>6, <1>7, <1>8, <1>9, <1>10, <1>11, <1>12, <1>13, <1>14,
     <1>15, <1>16
  DEF Next, Serve

\* The invariant holds in every reachable state.
THEOREM Invariant == Spec => []IInv
<1> QED
  BY InitInv, InvStep, PTL DEF Spec

\* Every row, bucket and thread keeps its shape.
THEOREM TypeCorrect == Spec => []TypeOK
<1>1. IInv => TypeOK
  BY DEF IInv
<1> QED
  BY <1>1, Invariant, PTL

\* Nobody is sent the same approved message twice.
THEOREM SentOnce == Spec => []AtMostOnce
<1>1. IInv => AtMostOnce
  BY DEF IInv
<1> QED
  BY <1>1, Invariant, PTL

-----------------------------------------------------------------------------
(* Notifications implements Dispatch.                                      *)

\* A row that changes moves its message in Phase and no other message.
LEMMA PhaseMoves ==
    ASSUME NEW id \in Id, NEW from, NEW to,
           Phase[id] = from, Phase'[id] = to,
           \A i \in Id \ {id} : note'[i] = note[i], UNCHANGED handed
    PROVE  Promise!Move(id, from, to)
<1>1. Phase' = [Phase EXCEPT ![id] = to]
  BY DEF Phase
<1> QED
  BY <1>1 DEF Promise!Move

\* Without a change of rows or deliveries Dispatch stutters.
LEMMA DispatchRests ==
    ASSUME UNCHANGED <<note, handed>> PROVE UNCHANGED <<Phase, handed>>
BY DEF Phase

\* Each step is one of a dispatch, or leaves it.
LEMMA DispatchStep == IInv /\ [Next]_vars => [Promise!Next]_<<Phase, handed>>
<1> SUFFICES ASSUME IInv, [Next]_vars PROVE [Promise!Next]_<<Phase, handed>>
  OBVIOUS
<1> USE DEF outside, ledger
<1>0. \A t \in Thread : task[t] # Idle => task[t].id \in Id
  BY DEF IInv, TypeOK
<1>1. ASSUME NEW t \in Thread, Draft(t) PROVE [Promise!Next]_<<Phase, handed>>
  <2> DEFINE id == task[t].id
  <2>1. id \in Id /\ UNCHANGED handed
    BY <1>0, <1>1 DEF Draft, Idle
  <2>2. CASE note[id] # None
    BY <1>1, <2>2, DispatchRests DEF Draft
  <2>3. CASE note[id] = None
    <3>1. note'[id].status = "draft" /\ note'[id] \in Note
      <4>1. task[t].content \in Content /\ clock \in 0..MaxClock
        BY <1>1 DEF Draft, IInv, TypeOK, Idle
      <4> QED
        BY <1>1, <2>1, <2>3, <4>1 DEF Draft, IInv, TypeOK, Note
    <3>2. \A i \in Id \ {id} : note'[i] = note[i]
      BY <1>1, <2>1, <2>3 DEF Draft, IInv, TypeOK
    <3>3. Phase[id] = "none" /\ Phase'[id] = "draft"
      BY <2>1, <2>3, <3>1, NotificationAssumption DEF Phase, Settled
    <3>4. Promise!Move(id, "none", "draft")
      BY <2>1, <3>2, <3>3, PhaseMoves
    <3> QED
      BY <2>1, <3>4 DEF Promise!Next
  <2> QED
    BY <2>2, <2>3
<1>2. ASSUME NEW t \in Thread, Commit(t) PROVE [Promise!Next]_<<Phase, handed>>
  <2> DEFINE id == task[t].id
  <2>1. id \in Id /\ note[id] # None /\ note[id].status = "draft" /\ UNCHANGED handed
    BY <1>0, <1>2 DEF Commit, Idle, IInv, ClaimStands
  <2>2. note'[id] # None /\ note'[id].status = "sending"
    <3>1. ClaimStands'
      BY InvStep DEF IInv
    <3>2. task'[t].pc = "sending" /\ task'[t].id = id
      BY <1>2 DEF Commit, IInv, TypeOK, Task
    <3> QED
      BY <3>1, <3>2 DEF ClaimStands
  <2>3. \A i \in Id \ {id} : note'[i] = note[i]
    BY <1>2, <2>1 DEF Commit, IInv, TypeOK
  <2>4. Phase[id] = "draft" /\ Phase'[id] = "sending"
    BY <2>1, <2>2 DEF Phase, Settled
  <2>5. Promise!Move(id, "draft", "sending")
    BY <2>1, <2>3, <2>4, PhaseMoves
  <2> QED
    BY <2>1, <2>5 DEF Promise!Next
<1>3. ASSUME NEW t \in Thread, NEW r \in Recipient, NEW result \in Result, Hand(t, r, result)
      PROVE  [Promise!Next]_<<Phase, handed>>
  <2> DEFINE id == task[t].id
  <2>1. id \in Id /\ note[id] # None /\ note[id].status = "sending" /\ handed[id][r] = 0
    BY <1>0, <1>3 DEF Hand, Idle, IInv, ClaimStands
  <2>2. Phase[id] = "sending" /\ Phase' = Phase
    BY <1>3, <2>1 DEF Hand, Phase, Settled
  <2>3. handed' = [handed EXCEPT ![id][r] = 1]
    BY <1>3, <2>1 DEF Hand, IInv, TypeOK
  <2>4. Promise!Hand(id, r)
    BY <2>1, <2>2, <2>3 DEF Promise!Hand
  <2> QED
    BY <2>1, <2>4 DEF Promise!Next
<1>4. ASSUME NEW t \in Thread, Finish(t) PROVE [Promise!Next]_<<Phase, handed>>
  <2> DEFINE id == task[t].id
  <2>1. id \in Id /\ note[id] # None /\ note[id] \in Note /\ note[id].status = "sending"
    BY <1>0, <1>4 DEF Finish, Idle, IInv, ClaimStands, TypeOK
  <2>2. note'[id].status \in Settled /\ note'[id] \in Note /\ UNCHANGED handed
    BY <1>4, <2>1, OutcomeType DEF Finish, IInv, TypeOK, Note
  <2>3. \A i \in Id \ {id} : note'[i] = note[i]
    BY <1>4, <2>1 DEF Finish, IInv, TypeOK
  <2>4. Phase[id] = "sending" /\ Phase'[id] = "settled"
    BY <2>1, <2>2, NotificationAssumption DEF Phase, Settled
  <2>5. Promise!Move(id, "sending", "settled")
    BY <2>1, <2>2, <2>3, <2>4, PhaseMoves
  <2> QED
    BY <2>1, <2>5 DEF Promise!Next
<1>5. ASSUME NEW t \in Thread, NEW id \in Id,
             \/ \E p \in Payloads : Preview(t, id, p)
             \/ \E a \in Admin, c \in Content : Approve(t, id, a, c)
      PROVE  UNCHANGED <<Phase, handed>>
  BY <1>5, DispatchRests DEF Preview, Approve
<1>6. ASSUME NEW t \in Thread, Stamp(t) \/ Look(t) \/ Record(t) \/ Fail(t)
      PROVE  UNCHANGED <<Phase, handed>>
  BY <1>6, DispatchRests DEF Stamp, Look, Record, Fail
<1>7. ASSUME \/ \E r \in Recipient : Consent(r)
             \/ \E s \in Shelters \cup {None} : ShelterChange(s)
             \/ \E c \in Configs : Reconfigure(c)
             \/ Purge \/ Tick
             \/ UNCHANGED vars
      PROVE  UNCHANGED <<Phase, handed>>
  BY <1>7, DispatchRests DEF Consent, ShelterChange, Reconfigure, Purge, Tick, vars
<1> QED
  BY <1>1, <1>2, <1>3, <1>4, <1>5, <1>6, <1>7 DEF Next, Serve

\* Whatever requests, restarts and the surroundings do, messages are composed,
\* claimed once, handed to each recipient at most once and settled once.
THEOREM KeepsDispatch == Spec => DispatchKept
<1>1. Init => Promise!Init
  BY DEF Init, Promise!Init, Phase
<1> QED
  BY <1>1, Invariant, DispatchStep, PTL DEF Spec, DispatchKept, Promise!Spec

-----------------------------------------------------------------------------
(* What a broadcast leaves behind.                                         *)

\* The recipients whose answer a thread has.
Heard(t) == {r \in Recipient : task[t].results[r] # None}

\* A broadcast under way: everybody chosen is either still to be asked or was
\* asked once, and all answers but the last are recorded.
Tracks(t) ==
    LET k == task[t] IN
    /\ k.targets \subseteq Key /\ Heard(t) \subseteq Key \ k.targets
    /\ \A r \in Recipient : handed[k.id][r] = IF r \in Heard(t) THEN 1 ELSE 0
    /\ note[k.id].recipients = Cardinality(k.targets \cup Heard(t))
    /\ k.pc # "record" => deliveries[k.id] = k.results
    /\ k.pc = "record" => \E x \in Heard(t) : deliveries[k.id] = [k.results EXCEPT ![x] = None]
    /\ k.pc = "finish" => k.targets = {}

\* A thread works with the configuration of the server and with what was
\* reviewed, and a broadcast keeps track of its recipients.
Sane(t) ==
    LET k == task[t] IN
    /\ k.pc \in Working => k.content.config = config /\ note[k.id].content = k.content
    /\ k.pc \in {"check", "claim", "count"} =>
          k.results = NoResults /\ (k.content.target = "district" => k.targets \subseteq Key)
    /\ k.pc \in {"sending", "record", "finish"} /\ k.content.target = "district" => Tracks(t)
    /\ k.pc = "record" => k.content.target = "district"

Rows(id) == {r \in Recipient : deliveries[id][r] # None}

\* Rows are of people who were contacted, and of a message that was claimed.
Kept(id) ==
    /\ (note[id] = None \/ note[id].status = "draft") => deliveries[id] = NoResults
    /\ \A r \in Rows(id) : handed[id][r] = 1
    /\ note[id] # None /\ note[id].content.target = "district" /\ note[id].status \in Settled =>
          /\ Cardinality(Rows(id)) = note[id].recipients
          /\ \A r \in Recipient \ Rows(id) : handed[id][r] = 0
          /\ note[id].status = Outcome(deliveries[id])

BroadcastInv == (\A t \in Thread : Sane(t)) /\ (\A id \in Id : Kept(id))

\* A thread that rests, or whose message nobody touches, stays as it is.
LEMMA SaneRests ==
    ASSUME NEW u \in Thread, Sane(u),
           \/ task'[u].pc \notin Working
           \/ /\ task'[u] = task[u] /\ config' = config
              /\ task[u].pc \in Working =>
                    /\ note'[task[u].id] = note[task[u].id]
                    /\ deliveries'[task[u].id] = deliveries[task[u].id]
                    /\ handed'[task[u].id] = handed[task[u].id]
    PROVE  Sane(u)'
<1>1. CASE task'[u].pc \notin Working
  BY <1>1 DEF Sane, Working
<1>2. CASE task'[u].pc \in Working
  <2>1. Heard(u)' = Heard(u)
    BY <1>2 DEF Heard
  <2>2. Tracks(u) => Tracks(u)'
    BY <1>2, <2>1 DEF Tracks
  <2> QED
    BY <1>2, <2>2 DEF Sane, Working
<1> QED
  BY <1>1, <1>2

\* What is kept of a message stands while the message is left alone.
LEMMA KeptRests ==
    ASSUME NEW id \in Id, Kept(id), note'[id] = note[id],
           deliveries'[id] = deliveries[id], handed'[id] = handed[id]
    PROVE  Kept(id)'
BY DEF Kept, Rows

\* One thread works on one message; all others are left alone.
LEMMA OneWorks ==
    ASSUME IInv, BroadcastInv, NEW t \in Thread, NEW id \in Id, Sane(t)', Kept(id)',
           config' = config,
           \A u \in Thread \ {t} : task'[u] = task[u] /\ (task[u].pc \in Working => task[u].id # id),
           \A i \in Id \ {id} : /\ note'[i] = note[i] /\ deliveries'[i] = deliveries[i]
                                /\ handed'[i] = handed[i]
    PROVE  BroadcastInv'
<1>1. \A u \in Thread : task[u].pc \in Working => task[u].id \in Id
  BY DEF IInv, TypeOK, Idle, Working
<1>2. ASSUME NEW u \in Thread PROVE Sane(u)'
  BY <1>1, SaneRests DEF BroadcastInv
<1>3. ASSUME NEW i \in Id PROVE Kept(i)'
  BY KeptRests DEF BroadcastInv
<1> QED
  BY <1>2, <1>3 DEF BroadcastInv

\* The messages are left alone, and threads at most rest.
LEMMA AllRest ==
    ASSUME IInv, BroadcastInv, UNCHANGED <<note, deliveries, handed>>,
           \A u \in Thread : \/ task'[u] = task[u] /\ config' = config
                             \/ task'[u].pc \notin Working
    PROVE  BroadcastInv'
BY SaneRests, KeptRests DEF BroadcastInv

\* The approval fixes the recipients of a broadcast.
LEMMA ApproveStep ==
    ASSUME IInv, BroadcastInv, NEW t \in Thread, NEW id \in Id, NEW a \in Admin,
           NEW c \in Content, Approve(t, id, a, c)
    PROVE  BroadcastInv'
<1> DEFINE k == [Idle EXCEPT !.pc = "check", !.id = id, !.content = c, !.targets = Targets(c)]
<1>1. /\ k.pc = "check" /\ k.id = id /\ k.content = c /\ k.targets = Targets(c)
      /\ k.results = NoResults
  BY DEF Idle
<1>2. task' = [task EXCEPT ![t] = k] /\ UNCHANGED <<outside, note, deliveries, handed>>
  BY DEF Approve
<1>3. note[id].content = c /\ c.config = config
  BY DEF Approve, Claimable
<1> HIDE DEF k
<1>4. task'[t] = k /\ \A u \in Thread \ {t} : task'[u] = task[u]
  BY <1>2 DEF IInv, TypeOK
<1>5. c.target = "district" => Targets(c) \subseteq Key
  BY DEF Targets
<1>6. Sane(t)'
  BY <1>1, <1>2, <1>3, <1>4, <1>5 DEF Sane, outside
<1>7. \A u \in Thread \ {t} : Sane(u)'
  BY <1>2, <1>4, SaneRests DEF BroadcastInv, outside
<1>8. \A i \in Id : Kept(i)'
  BY <1>2, KeptRests DEF BroadcastInv
<1> QED
  BY <1>6, <1>7, <1>8 DEF BroadcastInv

\* The shelter is read again, the time is taken and the budget looked up.
LEMMA StampStep ==
    ASSUME IInv, BroadcastInv, NEW t \in Thread, Stamp(t) \/ Look(t)
    PROVE  BroadcastInv'
<1>1. /\ task[t].pc \in {"check", "claim"} /\ task'[t].pc \in {"claim", "count"}
      /\ task'[t].id = task[t].id
      /\ task'[t].content = task[t].content /\ task'[t].targets = task[t].targets
      /\ task'[t].results = task[t].results
      /\ \A u \in Thread \ {t} : task'[u] = task[u]
      /\ UNCHANGED <<config, note, deliveries, handed>>
  <2>1. task \in [Thread -> Task]
    BY DEF IInv, TypeOK
  <2>2. CASE Stamp(t)
    BY <2>1, <2>2 DEF Stamp, Task, outside
  <2>3. CASE Look(t)
    <3>1. PICK row : task' = [task EXCEPT ![t] = [task[t] EXCEPT !.pc = "count", !.row = row]]
      BY <2>3 DEF Look
    <3> QED
      BY <2>1, <2>3, <3>1 DEF Look, Task, outside
  <2> QED
    BY <2>2, <2>3
<1>2. Sane(t)'
  BY <1>1 DEF BroadcastInv, Sane, Working
<1>3. \A u \in Thread \ {t} : Sane(u)'
  BY <1>1, SaneRests DEF BroadcastInv
<1>4. \A i \in Id : Kept(i)'
  BY <1>1, KeptRests DEF BroadcastInv
<1> QED
  BY <1>2, <1>3, <1>4 DEF BroadcastInv

\* A new message has been handed to nobody.
LEMMA DraftStep ==
    ASSUME IInv, BroadcastInv, NEW t \in Thread, Draft(t)
    PROVE  BroadcastInv'
<1>0. PICK id \in Id : id = task[t].id
  BY DEF Draft, IInv, TypeOK, Idle
<1>1. /\ task[t].pc = "preview" /\ task'[t].pc \notin Working
      /\ UNCHANGED <<config, deliveries, handed>>
      /\ \A u \in Thread \ {t} : task'[u] = task[u]
  BY DEF Draft, IInv, TypeOK, Idle, Working, outside
<1>2. CASE note[id] # None
  <2>1. note' = note
    BY <1>0, <1>2 DEF Draft
  <2> QED
    BY <1>1, <2>1, AllRest
<1>3. CASE note[id] = None
  <2>1. note'[id].status = "draft" /\ \A i \in Id \ {id} : note'[i] = note[i]
    BY <1>0, <1>1, <1>3 DEF Draft, IInv, TypeOK
  <2>2. Kept(id)'
    BY <1>1, <1>3, <2>1 DEF BroadcastInv, Kept, Rows, Settled
  <2>3. \A u \in Thread : task[u].pc \in Working => task[u].id # id
    BY <1>3 DEF IInv, ClaimStands, Working
  <2>4. Sane(t)'
    BY <1>1, SaneRests DEF BroadcastInv
  <2> QED
    BY <1>1, <2>1, <2>2, <2>3, <2>4, OneWorks
<1> QED
  BY <1>2, <1>3

\* The claim is committed, and the recipients with it.
LEMMA CommitStep ==
    ASSUME IInv, BroadcastInv, NEW t \in Thread, Commit(t)
    PROVE  BroadcastInv'
<1>0. PICK id \in Id : id = task[t].id
  BY DEF Commit, IInv, TypeOK, Idle
<1>1. /\ task[t].pc = "count" /\ task'[t].pc = "sending" /\ task'[t].id = id
      /\ task'[t].content = task[t].content /\ task'[t].targets = task[t].targets
      /\ task'[t].results = task[t].results
      /\ \A u \in Thread \ {t} : task'[u] = task[u]
      /\ UNCHANGED <<config, deliveries, handed>>
  BY <1>0 DEF Commit, IInv, TypeOK, Task, outside
<1>2. note[id] \in Note /\ note[id].status = "draft"
  BY <1>0, <1>1 DEF IInv, TypeOK, ClaimStands
<1>3. /\ note'[id].status = "sending" /\ note'[id].content = note[id].content
      /\ note'[id].recipients = Cardinality(task[t].targets)
      /\ \A i \in Id \ {id} : note'[i] = note[i]
  BY <1>0, <1>2 DEF Commit, IInv, TypeOK, Note
<1>4. deliveries[id] = NoResults /\ \A r \in Recipient : handed[id][r] = 0
  BY <1>2 DEF IInv, BroadcastInv, Kept, DraftsUnsent
<1>5. note'[id] # None
  <2>1. (ClaimStands /\ TypeOK)'
    BY InvStep DEF IInv, Next, Serve
  <2> QED
    BY <1>1, <2>1 DEF ClaimStands
<1>6. Kept(id)'
  BY <1>1, <1>3, <1>4, <1>5 DEF Kept, Rows, NoResults, Settled
<1>7. Heard(t)' = {}
  BY <1>0, <1>1 DEF BroadcastInv, Sane, Heard, NoResults
<1>8. Sane(t)'
  <2>1. task'[t].content.config = config' /\ note'[id].content = task'[t].content
    BY <1>0, <1>1, <1>3 DEF BroadcastInv, Sane, Working
  <2>2. task'[t].content.target = "district" => Tracks(t)'
    <3>1. task[t].content.target = "district" => task[t].targets \subseteq Key
      BY <1>1 DEF BroadcastInv, Sane
    <3>2. task[t].results = NoResults
      BY <1>1 DEF BroadcastInv, Sane
    <3>3. task[t].targets \cup {} = task[t].targets
      OBVIOUS
    <3> QED
      BY <1>1, <1>3, <1>4, <1>7, <3>1, <3>2, <3>3 DEF Tracks
  <2> QED
    BY <1>1, <2>1, <2>2 DEF Sane
<1>9. \A u \in Thread \ {t} : task[u].pc \in Working => task[u].id # id
  BY <1>0, <1>1 DEF IInv, OneThreadEach, Working
<1> QED
  BY <1>1, <1>3, <1>6, <1>8, <1>9, OneWorks

\* Telegram is asked for one recipient.
LEMMA HandStep ==
    ASSUME IInv, BroadcastInv, NEW t \in Thread, NEW r \in Recipient, NEW result \in Result,
           Hand(t, r, result)
    PROVE  BroadcastInv'
<1>0. PICK id \in Id : id = task[t].id
  BY DEF Hand, IInv, TypeOK, Idle
<1>1. /\ task[t].pc = "sending" /\ task'[t].id = id /\ r \in task[t].targets
      /\ task'[t].pc = IF task[t].content.target = "district" THEN "record" ELSE "finish"
      /\ task'[t].content = task[t].content /\ task'[t].targets = task[t].targets \ {r}
      /\ task'[t].results = [task[t].results EXCEPT ![r] = result]
      /\ \A u \in Thread \ {t} : task'[u] = task[u]
      /\ UNCHANGED <<config, note, deliveries>>
  BY <1>0 DEF Hand, IInv, TypeOK, Task, outside
<1>2. handed[id][r] = 0
  BY <1>0, <1>1 DEF IInv, ClaimStands
<1>3. /\ handed'[id][r] = 1 /\ \A q \in Recipient \ {r} : handed'[id][q] = handed[id][q]
      /\ \A i \in Id \ {id} : handed'[i] = handed[i]
  BY <1>0, <1>2 DEF Hand, IInv, TypeOK
<1>4. note[id] # None /\ note[id].status = "sending"
  BY <1>0, <1>1 DEF IInv, ClaimStands
<1>5. Kept(id)'
  BY ZenonT(60), <1>1, <1>3, <1>4 DEF BroadcastInv, Kept, Rows, Settled
<1>6. Sane(t)'
  <2>1. task'[t].content.config = config' /\ note'[id].content = task'[t].content
    BY <1>0, <1>1 DEF BroadcastInv, Sane, Working
  <2>2. ASSUME task[t].content.target = "district" PROVE Tracks(t)'
    <3>1. Tracks(t) /\ r \notin Heard(t)
      BY <1>1, <2>2 DEF BroadcastInv, Sane, Tracks
    <3>2. task[t].results \in [Recipient -> Result \cup {None}] /\ result # None
      BY NotificationAssumption DEF IInv, TypeOK, Task
    <3>3. Heard(t)' = Heard(t) \cup {r}
      BY <1>1, <3>2 DEF Heard
    <3>4. task'[t].targets \cup Heard(t)' = task[t].targets \cup Heard(t)
      BY <1>1, <3>3
    <3>5. deliveries[id] = task[t].results /\ task[t].results[r] = None
      BY <1>0, <1>1, <3>1 DEF Tracks, Heard
    <3>6. [task'[t].results EXCEPT ![r] = None] = task[t].results
      BY <1>1, <3>2, <3>5
    <3>7. /\ task'[t].targets \subseteq Key /\ Heard(t)' \subseteq Key \ task'[t].targets
      BY <1>1, <3>1, <3>3 DEF Tracks
    <3>8. \A q \in Recipient : handed'[id][q] = IF q \in Heard(t)' THEN 1 ELSE 0
      BY <1>0, <1>3, <3>1, <3>3 DEF Tracks
    <3>9. note'[id].recipients = Cardinality(task'[t].targets \cup Heard(t)')
      BY <1>0, <1>1, <3>1, <3>4 DEF Tracks
    <3>10. \E x \in Heard(t)' : deliveries'[id] = [task'[t].results EXCEPT ![x] = None]
      BY <1>1, <3>3, <3>5, <3>6
    <3> QED
      BY <1>1, <2>2, <3>7, <3>8, <3>9, <3>10 DEF Tracks
  <2> QED
    BY <1>1, <2>1, <2>2 DEF Sane
<1>7. \A u \in Thread \ {t} : task[u].pc \in Working => task[u].id # id
  BY <1>0, <1>1 DEF IInv, OneThreadEach, Working
<1> QED
  BY <1>1, <1>3, <1>5, <1>6, <1>7, OneWorks

\* What came of it is written down.
LEMMA RecordStep ==
    ASSUME IInv, BroadcastInv, NEW t \in Thread, Record(t)
    PROVE  BroadcastInv'
<1>0. PICK id \in Id : id = task[t].id
  BY DEF Record, IInv, TypeOK, Idle
<1>1. /\ task[t].pc = "record" /\ task'[t].id = id
      /\ task'[t].pc = IF task[t].targets = {} THEN "finish" ELSE "sending"
      /\ task'[t].content = task[t].content /\ task'[t].targets = task[t].targets
      /\ task'[t].results = task[t].results
      /\ \A u \in Thread \ {t} : task'[u] = task[u]
      /\ UNCHANGED <<config, note, handed>>
  BY <1>0 DEF Record, IInv, TypeOK, Task, outside
<1>2. Tracks(t) /\ task[t].content.target = "district"
  BY <1>1 DEF BroadcastInv, Sane
<1>3. task[t].results \in [Recipient -> Result \cup {None}]
  BY DEF IInv, TypeOK, Task
<1>4. PICK x \in Heard(t) : deliveries[id] = [task[t].results EXCEPT ![x] = None]
  BY <1>0, <1>1, <1>2 DEF Tracks
<1>5. Unrecorded(t) = {x}
  BY <1>0, <1>2, <1>3, <1>4 DEF Unrecorded, Heard, Tracks
<1>6. deliveries' = [deliveries EXCEPT ![id][x] = task[t].results[x]]
  BY <1>0, <1>5 DEF Record
<1>7. deliveries'[id] = task[t].results /\ \A i \in Id \ {id} : deliveries'[i] = deliveries[i]
  BY <1>3, <1>4, <1>6 DEF IInv, TypeOK, Heard
<1>8. note[id] # None /\ note[id].status = "sending"
  BY <1>0, <1>1 DEF IInv, ClaimStands
<1>9. Kept(id)'
  <2>1. Rows(id)' = Heard(t)
    BY <1>7 DEF Rows, Heard
  <2>2. \A r \in Heard(t) : handed'[id][r] = 1
    BY <1>0, <1>1, <1>2 DEF Tracks, Heard
  <2> QED
    BY <1>1, <1>8, <2>1, <2>2 DEF Kept, Settled
<1>10. Sane(t)'
  <2>1. task'[t].content.config = config' /\ note'[id].content = task'[t].content
    BY <1>0, <1>1 DEF BroadcastInv, Sane, Working
  <2>2. Heard(t)' = Heard(t)
    BY <1>1 DEF Heard
  <2>3. Tracks(t)'
    BY <1>0, <1>1, <1>2, <1>7, <2>2 DEF Tracks
  <2> QED
    BY <1>1, <2>1, <2>3 DEF Sane
<1>11. \A u \in Thread \ {t} : task[u].pc \in Working => task[u].id # id
  BY <1>0, <1>1 DEF IInv, OneThreadEach, Working
<1> QED
  BY <1>1, <1>7, <1>9, <1>10, <1>11, OneWorks

\* The message is settled when all recipients are accounted for.
LEMMA FinishStep ==
    ASSUME IInv, BroadcastInv, NEW t \in Thread, Finish(t)
    PROVE  BroadcastInv'
<1>0. PICK id \in Id : id = task[t].id
  BY DEF Finish, IInv, TypeOK, Idle
<1>1. /\ task[t].pc = "finish" /\ task'[t].pc \notin Working
      /\ \A u \in Thread \ {t} : task'[u] = task[u]
      /\ UNCHANGED <<config, deliveries, handed>>
  BY DEF Finish, IInv, TypeOK, Idle, Working, outside
<1>2. note[id] \in Note /\ note[id] # None
  BY <1>0, <1>1 DEF IInv, TypeOK, ClaimStands
<1>3. /\ note'[id] = [note[id] EXCEPT !.status = Outcome(task[t].results)]
      /\ \A i \in Id \ {id} : note'[i] = note[i]
  BY <1>0 DEF Finish, IInv, TypeOK
<1>4. /\ note'[id].status = Outcome(task[t].results) /\ note'[id].content = note[id].content
      /\ note'[id].recipients = note[id].recipients /\ note'[id].status \in Settled
  BY <1>2, <1>3, OutcomeType DEF Note
<1>5. Kept(id)'
  <2>1. note'[id].status # "draft" /\ note'[id] # None
    <3>1. note'[id].status # "draft"
      BY <1>4 DEF Settled
    <3>2. note'[id] \in Note
      BY <1>2, <1>3, OutcomeType DEF Note
    <3> QED
      BY <3>1, <3>2, NotificationAssumption
  <2>2. \A r \in Rows(id)' : handed'[id][r] = 1
    BY <1>1 DEF BroadcastInv, Kept, Rows
  <2>3. ASSUME note[id].content.target = "district"
        PROVE  /\ Cardinality(Rows(id)') = note'[id].recipients
               /\ \A r \in Recipient \ Rows(id)' : handed'[id][r] = 0
               /\ note'[id].status = Outcome(deliveries'[id])
    <3>1. Tracks(t)
      BY <1>0, <1>1, <2>3 DEF BroadcastInv, Sane, Working
    <3>2. deliveries'[id] = task[t].results /\ task[t].targets = {}
      BY <1>0, <1>1, <3>1 DEF Tracks
    <3>3. Rows(id)' = Heard(t)
      BY <3>2 DEF Rows, Heard
    <3>4. task[t].targets \cup Heard(t) = Heard(t)
      BY <3>2
    <3>5. Cardinality(Rows(id)') = note'[id].recipients
      BY <1>0, <1>4, <3>1, <3>3, <3>4 DEF Tracks
    <3>6. \A r \in Recipient \ Rows(id)' : handed'[id][r] = 0
      BY <1>0, <1>1, <3>1, <3>3 DEF Tracks
    <3> QED
      BY <1>4, <3>2, <3>5, <3>6
  <2> QED
    BY <1>4, <2>1, <2>2, <2>3 DEF Kept
<1>6. Sane(t)'
  BY <1>1, SaneRests DEF BroadcastInv
<1>7. \A u \in Thread \ {t} : task[u].pc \in Working => task[u].id # id
  BY <1>0, <1>1 DEF IInv, OneThreadEach, Working
<1> QED
  BY <1>1, <1>3, <1>5, <1>6, <1>7, OneWorks

\* Each action keeps what is kept of broadcasts.
LEMMA BroadcastStep == IInv /\ BroadcastInv /\ [Next]_vars => BroadcastInv'
<1> SUFFICES ASSUME IInv, BroadcastInv, [Next]_vars PROVE BroadcastInv'
  OBVIOUS
<1>1. ASSUME NEW t \in Thread, NEW id \in Id, NEW p \in Payloads, Preview(t, id, p)
      PROVE  BroadcastInv'
  BY <1>1, AllRest DEF Preview, outside, Working, Idle, IInv, TypeOK
<1>2. ASSUME NEW t \in Thread, Fail(t) PROVE BroadcastInv'
  BY <1>2, AllRest DEF Fail, outside, Working, Idle, IInv, TypeOK
<1>3. ASSUME \/ \E r \in Recipient : Consent(r)
             \/ \E s \in Shelters \cup {None} : ShelterChange(s)
             \/ Purge \/ Tick \/ UNCHANGED vars
      PROVE  BroadcastInv'
  BY <1>3, AllRest DEF Consent, ShelterChange, Purge, Tick, vars, outside
<1>4. ASSUME NEW c \in Configs, Reconfigure(c) PROVE BroadcastInv'
  BY <1>4, AllRest DEF Reconfigure, Working, Idle
<1> QED
  BY <1>1, <1>2, <1>3, <1>4, ApproveStep, StampStep, DraftStep, CommitStep, HandStep,
     RecordStep, FinishStep DEF Next, Serve

\* What is known of broadcasts holds in every reachable state.
THEOREM BroadcastsTracked == Spec => []BroadcastInv
<1>1. Init => BroadcastInv
  BY DEF Init, BroadcastInv, Sane, Kept, Rows, NoResults, Idle, Working
<1> QED
  BY <1>1, BroadcastStep, Invariant, PTL DEF Spec

\* send, delivery and finish_district leave a settled broadcast with a row for
\* everybody who was chosen and for nobody else, and a status that says so.
THEOREM BroadcastsComplete == Spec => []SettledIsComplete
<1>1. BroadcastInv => SettledIsComplete
  BY DEF BroadcastInv, Kept, Rows, SettledIsComplete
<1> QED
  BY <1>1, BroadcastsTracked, PTL

\* claim and the restart with another configuration leave no thread that sends
\* anything but what was reviewed, with the configuration the server has.
THEOREM SendsWhatWasReviewed == Spec => []ReviewIsFresh
<1>1. BroadcastInv => ReviewIsFresh
  BY DEF BroadcastInv, Sane, Working, ReviewIsFresh
<1> QED
  BY <1>1, BroadcastsTracked, PTL

-----------------------------------------------------------------------------
\* Windows begin in the order of their moments.
LEMMA StartsInOrder ==
    ASSUME NEW a \in 0..MaxClock, NEW b \in 0..MaxClock, a <= b
    PROVE  StartOf(a) <= StartOf(b)
<1>1. Window \in Nat \ {0} /\ a \in Nat /\ b \in Nat
  BY NotificationAssumption
<1>2. PICK p, q : p = a \div Window /\ q = b \div Window
  OBVIOUS
<1>3. p \in Nat /\ Window * p <= a
  BY <1>1, <1>2
<1>4. q \in Nat /\ b < Window * q + Window
  BY <1>1, <1>2
<1>5. ASSUME NEW x \in Nat, NEW y \in Nat, x <= y PROVE Window * x <= Window * y
  <2>1. PICK d \in Nat : y = x + d
    <3>1. y - x \in Nat /\ y = x + (y - x)
      BY <1>5
    <3> QED
      BY <3>1
  <2>2. Window * y = Window * x + Window * d /\ Window * d \in Nat /\ Window * x \in Nat
    BY <1>1, <2>1
  <2> QED
    BY <2>2
<1>6. p <= q
  <2> SUFFICES ASSUME ~(p <= q) PROVE FALSE
    OBVIOUS
  <2>1. q + 1 <= p /\ q + 1 \in Nat
    BY <1>3, <1>4
  <2>2. Window * (q + 1) <= Window * p
    BY <1>3, <1>5, <2>1
  <2>3. Window * (q + 1) = Window * q + Window /\ Window * q \in Nat /\ Window * p \in Nat
    BY <1>1, <1>3, <1>4
  <2> QED
    BY <1>1, <1>3, <1>4, <2>2, <2>3
<1> QED
  BY <1>2, <1>3, <1>4, <1>5, <1>6 DEF StartOf

\* A claim is not waited for so long that rows of its window are purged.
LEMMA WindowNear ==
    ASSUME NEW at \in 0..MaxClock, NEW c \in 0..MaxClock, c <= at + Patience
    PROVE  StartOf(c) <= StartOf(at) + Hour
<1>1. /\ Window \in Nat \ {0} /\ Patience \in Nat /\ Hour \in Nat /\ Patience + Window <= Hour
      /\ at \in Nat /\ c \in Nat
  BY NotificationAssumption
<1>2. PICK w \in Nat : w = StartOf(at) /\ at < w + Window
  <2>1. PICK q : q = at \div Window
    OBVIOUS
  <2>2. q \in Nat /\ at < Window * q + Window
    BY <1>1, <2>1
  <2>3. Window * q \in Nat
    BY <1>1, <2>2
  <2> QED
    BY <2>1, <2>2, <2>3 DEF StartOf
<1>3. PICK v \in Nat : v = StartOf(c) /\ v <= c
  <2>1. PICK q : q = c \div Window
    OBVIOUS
  <2>2. q \in Nat /\ Window * q <= c
    BY <1>1, <2>1
  <2>3. Window * q \in Nat
    BY <1>1, <2>2
  <2> QED
    BY <2>1, <2>2, <2>3 DEF StartOf
<1>4. v <= w + Hour
  BY <1>1, <1>2, <1>3
<1> QED
  BY <1>2, <1>3, <1>4

\* The attempts of a window that were counted; the windows with an attempt; a claim about
\* to be counted.
CountedIn(start) == AttemptedIn(start) \ missed
Used == {s \in 0..MaxClock : AttemptedIn(s) # {}}
Asking(t) == task[t].pc \in {"claim", "count"}

\* Claims are committed in the order of their times: none is of a later window than the one
\* that is counted, or than a claim under way, and the count covers what was counted in it.
\* A purged row is of windows before that of any claim under way.
BudgetInv ==
    /\ \A s \in 0..MaxClock : /\ IsFiniteSet(CountedIn(s)) /\ Cardinality(CountedIn(s)) <= Limit
                              /\ \A i, j \in AttemptedIn(s) \cap missed : i = j
    /\ \A i \in missed : note[i] # None /\ note[i].status # "draft"
    /\ \A s \in Used : s <= StartOf(clock)
    /\ \A t \in Thread : Asking(t) =>
          /\ task[t].at <= clock /\ clock <= task[t].at + Patience
          /\ \A s \in Used : s <= StartOf(task[t].at)
          /\ task[t].pc = "count" /\ Gone(t) => \A s \in Used : s < StartOf(task[t].at)
          /\ task[t].pc = "count" => Counted(StartOf(task[t].at)) < Limit
    /\ bucket # None => /\ bucket.start \in Used
                        /\ Cardinality(CountedIn(bucket.start)) <= bucket.attempts
                        /\ \A s \in Used : s <= bucket.start
    /\ bucket = None => \A s \in 0..MaxClock : CountedIn(s) # {} => s + Hour < StartOf(clock)

\* A step that claims nothing, and in which a claim takes the present time at most.
LEMMA BudgetRests ==
    ASSUME IInv, BudgetInv, UNCHANGED <<bucket, missed>>,
           \A s \in 0..MaxClock : AttemptedIn(s)' = AttemptedIn(s),
           \A i \in missed : note'[i] # None /\ note'[i].status # "draft",
           clock' \in 0..MaxClock, clock <= clock',
           \A t \in Thread : Asking(t)' =>
               /\ \/ task'[t].at = clock /\ clock' = clock
                  \/ Asking(t) /\ task'[t].at = task[t].at /\ clock' <= task[t].at + Patience
               /\ task'[t].pc = "count" /\ task'[t].row /\ bucket = None =>
                      task[t].pc = "count" /\ task[t].row /\ task'[t].at = task[t].at
               /\ task'[t].pc = "count" => \/ task[t].pc = "count" /\ task'[t].at = task[t].at
                                          \/ Counted(StartOf(task'[t].at)) < Limit
    PROVE  BudgetInv'
<1>1. clock \in 0..MaxClock /\ StartOf(clock) \in 0..MaxClock /\ StartOf(clock') \in 0..MaxClock
      /\ StartOf(clock) <= StartOf(clock') /\ Patience \in Nat /\ Hour \in Nat /\ MaxClock \in Nat
  BY StartsInOrder, StartOfType, NotificationAssumption DEF IInv, TypeOK
<1>2. Used' = Used /\ \A s \in 0..MaxClock : CountedIn(s)' = CountedIn(s)
  BY DEF Used, CountedIn
<1>3. Used \subseteq 0..MaxClock
  BY DEF Used
<1>4. \A s \in Used : s <= StartOf(clock')
  <2> SUFFICES ASSUME NEW s \in Used PROVE s <= StartOf(clock')
    OBVIOUS
  <2>1. s <= StartOf(clock) /\ s \in 0..MaxClock
    BY <1>3 DEF BudgetInv
  <2> QED
    BY <1>1, <2>1
<1>5. ASSUME NEW t \in Thread, Asking(t)'
      PROVE  /\ task'[t].at <= clock' /\ clock' <= task'[t].at + Patience
             /\ \A s \in Used : s <= StartOf(task'[t].at)
             /\ task'[t].pc = "count" /\ Gone(t)' => \A s \in Used : s < StartOf(task'[t].at)
             /\ task'[t].pc = "count" => Counted(StartOf(task'[t].at)) < Limit
  <2>1. task[t].at \in 0..MaxClock
    BY DEF IInv, TypeOK, Task
  <2>4. task'[t].pc = "count" => Counted(StartOf(task'[t].at)) < Limit
    BY <1>5 DEF BudgetInv, Asking
  <2>2. CASE task'[t].at = clock /\ clock' = clock
    <3>1. task'[t].at <= clock' /\ clock' <= task'[t].at + Patience
      BY <1>1, <2>2
    <3>2. \A s \in Used : s <= StartOf(task'[t].at)
      BY <2>2 DEF BudgetInv
    <3>3. task'[t].pc = "count" /\ Gone(t)' => task[t].pc = "count" /\ Gone(t) /\ task'[t].at = task[t].at
      BY <1>5 DEF Gone
    <3> QED
      BY <2>4, <3>1, <3>2, <3>3 DEF BudgetInv, Asking
  <2>3. CASE Asking(t) /\ task'[t].at = task[t].at /\ clock' <= task[t].at + Patience
    <3>1. task'[t].at <= clock'
      <4>1. task[t].at <= clock
        BY <2>3 DEF BudgetInv
      <4> QED
        BY <1>1, <2>1, <2>3, <4>1
    <3>2. task'[t].pc = "count" /\ Gone(t)' => task[t].pc = "count" /\ Gone(t)
      BY <1>5 DEF Gone
    <3> QED
      BY <2>3, <2>4, <3>1, <3>2 DEF BudgetInv
  <2> QED
    BY <1>5, <2>2, <2>3
<1>6. ASSUME bucket = None, NEW s \in 0..MaxClock, CountedIn(s) # {} PROVE s + Hour < StartOf(clock')
  <2>1. s + Hour < StartOf(clock)
    BY <1>6 DEF BudgetInv
  <2> QED
    BY <1>1, <2>1
<1>7. bucket # None => bucket.start \in 0..MaxClock
  BY DEF IInv, TypeOK
<1> HIDE DEF Used, CountedIn
<1>8. /\ \A s \in 0..MaxClock : /\ IsFiniteSet(CountedIn(s)') /\ Cardinality(CountedIn(s)') <= Limit
                                /\ \A i, j \in AttemptedIn(s)' \cap missed' : i = j
      /\ bucket' # None => /\ bucket'.start \in Used'
                           /\ Cardinality(CountedIn(bucket.start)') <= bucket'.attempts
                           /\ \A s \in Used' : s <= bucket'.start
  BY <1>2, <1>7 DEF BudgetInv
<1>9. \A s : Counted(s)' = Counted(s)
  BY DEF Counted
<1>10. \A t \in Thread : Asking(t)' =>
          /\ task'[t].at <= clock' /\ clock' <= task'[t].at + Patience
          /\ \A s \in Used' : s <= StartOf(task'[t].at)
          /\ task'[t].pc = "count" /\ Gone(t)' => \A s \in Used' : s < StartOf(task'[t].at)
          /\ task'[t].pc = "count" => Counted(StartOf(task[t].at))' < Limit
  <2> SUFFICES ASSUME NEW t \in Thread, Asking(t)'
               PROVE  /\ task'[t].at <= clock' /\ clock' <= task'[t].at + Patience
                      /\ \A s \in Used' : s <= StartOf(task'[t].at)
                      /\ task'[t].pc = "count" /\ Gone(t)' => \A s \in Used' : s < StartOf(task'[t].at)
                      /\ task'[t].pc = "count" => Counted(StartOf(task[t].at))' < Limit
    OBVIOUS
  <2>1. Counted(StartOf(task[t].at))' = Counted(StartOf(task'[t].at))
    BY DEF Counted, StartOf
  <2> QED
    BY <1>2, <1>5, <2>1
<1>11. /\ \A i \in missed' : note'[i] # None /\ note'[i].status # "draft"
       /\ \A s \in Used' : s <= StartOf(clock')
       /\ bucket' = None => \A s \in 0..MaxClock : CountedIn(s)' # {} => s + Hour < StartOf(clock')
  BY <1>2, <1>4, <1>6
<1> QED
  BY <1>8, <1>10, <1>11 DEF BudgetInv

\* A sign-in deletes the row; who has seen it is of a later window.
LEMMA BudgetPurged == ASSUME IInv, BudgetInv, Purge PROVE BudgetInv'
<1>1. /\ bucket # None /\ bucket.start + Hour < StartOf(clock) /\ bucket' = None
      /\ UNCHANGED <<clock, note, missed, task>>
  BY DEF Purge
<1>2. /\ bucket.start \in 0..MaxClock /\ clock \in 0..MaxClock /\ StartOf(clock) \in 0..MaxClock
      /\ Hour \in Nat /\ MaxClock \in Nat
  BY <1>1, StartOfType, NotificationAssumption DEF IInv, TypeOK
<1>3. Used' = Used /\ Used \subseteq 0..MaxClock /\ \A s : AttemptedIn(s)' = AttemptedIn(s) /\ CountedIn(s)' = CountedIn(s)
  BY <1>1 DEF Used, CountedIn, AttemptedIn
<1>4. \A s \in Used : s <= bucket.start /\ s \in 0..MaxClock
  BY <1>1, <1>3 DEF BudgetInv
<1>5. ASSUME NEW t \in Thread, Asking(t), NEW s \in Used PROVE s < StartOf(task[t].at)
  <2>1. PICK w \in 0..MaxClock : w = StartOf(task[t].at)
    BY StartOfType DEF IInv, TypeOK, Task
  <2>2. StartOf(clock) <= w + Hour
    BY <1>2, <1>5, <2>1, WindowNear DEF BudgetInv, IInv, TypeOK, Task
  <2>3. PICK v \in 0..MaxClock : v = StartOf(clock)
    BY <1>2
  <2>4. s < w
    BY <1>1, <1>2, <1>4, <2>2, <2>3
  <2> QED
    BY <2>1, <2>4
<1>6. ASSUME NEW s \in 0..MaxClock, CountedIn(s) # {} PROVE s + Hour < StartOf(clock)
  <2>1. s \in Used
    BY <1>6 DEF Used, CountedIn
  <2>2. s <= bucket.start
    BY <1>4, <2>1
  <2> QED
    BY <1>1, <1>2, <2>2
<1>7. \A t \in Thread : Asking(t)' <=> Asking(t)
  BY <1>1 DEF Asking
<1>8. \A t \in Thread : Asking(t)' =>
          /\ task'[t].at <= clock' /\ clock' <= task'[t].at + Patience
          /\ \A s \in Used' : s <= StartOf(task'[t].at) /\ s < StartOf(task'[t].at)
          /\ task'[t].pc = "count" => Counted(StartOf(task[t].at))' < Limit
  <2> SUFFICES ASSUME NEW t \in Thread, Asking(t)
               PROVE  /\ task[t].at <= clock /\ clock <= task[t].at + Patience
                      /\ \A s \in Used : s <= StartOf(task[t].at)
                      /\ task[t].pc = "count" => Counted(StartOf(task[t].at))' < Limit
    BY <1>1, <1>3, <1>5, <1>7
  <2>1. ASSUME task[t].pc = "count" PROVE Counted(StartOf(task[t].at))' < Limit
    <3>1. PICK w : w = StartOf(task[t].at)
      OBVIOUS
    <3>2. Counted(w) < Limit /\ Counted(w) \in Nat /\ Counted(w)' = 0
      BY <1>1, <2>1, <3>1 DEF BudgetInv, Counted, IInv, TypeOK
    <3>3. 0 < Limit
      BY <3>2, NotificationAssumption
    <3> QED
      BY <1>1, <3>1, <3>2, <3>3 DEF Counted
  <2> QED
    BY <2>1 DEF BudgetInv
<1>9. /\ \A s \in 0..MaxClock : /\ IsFiniteSet(CountedIn(s)') /\ Cardinality(CountedIn(s)') <= Limit
                                /\ \A i, j \in AttemptedIn(s)' \cap missed' : i = j
                                /\ CountedIn(s)' # {} => s + Hour < StartOf(clock')
      /\ \A i \in missed' : note'[i] # None /\ note'[i].status # "draft"
      /\ \A s \in Used' : s <= StartOf(clock')
  BY <1>1, <1>3, <1>6 DEF BudgetInv
<1> QED
  BY <1>1, <1>8, <1>9 DEF BudgetInv

\* The only thread commits its claim: what it changes, and in which window.
LEMMA ClaimCommits ==
    ASSUME IInv, BudgetInv, NEW t \in Thread, Commit(t), NEW id \in Id, id = task[t].id,
           NEW w \in 0..MaxClock, w = StartOf(task[t].at)
    PROVE  /\ note[id] # None /\ note[id].status = "draft" /\ id \notin missed
           /\ \A s : AttemptedIn(s)' \subseteq (IF s = w THEN AttemptedIn(s) \cup {id} ELSE AttemptedIn(s))
           /\ \A s : id \in AttemptedIn(s)' => s = w
           /\ w \in Used' /\ Used' \subseteq Used \cup {w}
           /\ \A i \in missed' : note'[i] # None /\ note'[i].status # "draft"
           /\ task[t].pc = "count" /\ Asking(t) /\ task'[t].pc = "sending" /\ clock' = clock
<1>1. task[t].pc = "count" /\ clock' = clock /\ missed' \subseteq missed \cup {id} /\ task[t].at \in 0..MaxClock
  BY DEF Commit, IInv, TypeOK, Task
<1>2. note[id] # None /\ note[id] \in Note /\ note[id].status = "draft"
  BY <1>1 DEF IInv, TypeOK, ClaimStands
<1>3. id \notin missed
  BY <1>2 DEF BudgetInv
<1>4. /\ note'[id] = [note[id] EXCEPT !.status = "sending", !.attemptedAt = task[t].at, !.recipients = Cardinality(task[t].targets)]
      /\ \A i \in Id \ {id} : note'[i] = note[i]
  BY DEF Commit, IInv, TypeOK
<1>5. note'[id].attemptedAt = task[t].at /\ note'[id].status = "sending"
  BY <1>2, <1>4 DEF Note
<1>6. note'[id] # None
  <2>1. task'[t].pc = "sending" /\ task'[t].id = id
    BY DEF Commit, IInv, TypeOK, Task
  <2>2. ClaimStands'
    BY InvStep DEF IInv, Next, Serve
  <2> QED
    BY <2>1, <2>2 DEF ClaimStands
<1>7. task[t].at # None
  BY <1>1, NotificationAssumption
<1>8. \A s : AttemptedIn(s)' \subseteq (IF s = w THEN AttemptedIn(s) \cup {id} ELSE AttemptedIn(s))
  <2> SUFFICES ASSUME NEW s, NEW i \in AttemptedIn(s)' PROVE i \in AttemptedIn(s) \/ (s = w /\ i = id)
    OBVIOUS
  <2>1. i \in Id /\ note'[i] # None /\ note'[i].attemptedAt # None /\ StartOf(note'[i].attemptedAt) = s
    BY DEF AttemptedIn
  <2>2. CASE i = id
    BY <1>5, <2>1, <2>2
  <2>3. CASE i # id
    BY <1>4, <2>1, <2>3 DEF AttemptedIn
  <2> QED
    BY <2>2, <2>3
<1>9. id \in AttemptedIn(w)'
  BY <1>5, <1>6, <1>7 DEF AttemptedIn
<1>13. \A s : id \in AttemptedIn(s)' => s = w
  BY <1>5 DEF AttemptedIn
<1>10. w \in Used' /\ Used' \subseteq Used \cup {w}
  <2>1. w \in Used'
    BY <1>9 DEF Used
  <2>2. ASSUME NEW s \in Used', s # w PROVE s \in Used
    BY <1>8, <2>2 DEF Used
  <2> QED
    BY <2>1, <2>2
<1>11. \A i \in missed' : note'[i] # None /\ note'[i].status # "draft"
  <2> SUFFICES ASSUME NEW i \in missed' PROVE note'[i] # None /\ note'[i].status # "draft"
    OBVIOUS
  <2>1. i \in missed \cup {id} /\ missed \subseteq Id
    BY <1>1 DEF IInv, TypeOK
  <2>2. CASE i = id
    BY <1>5, <1>6, <2>2
  <2>3. CASE i # id
    BY <1>4, <2>1, <2>3 DEF BudgetInv
  <2> QED
    BY <2>2, <2>3
<1>12. task'[t].pc = "sending" /\ Asking(t)
  BY <1>1 DEF Commit, IInv, TypeOK, Task, Asking
<1> QED
  BY <1>1, <1>2, <1>3, <1>8, <1>10, <1>11, <1>12, <1>13

\* The update of the purged row counts nothing, once a window.
LEMMA BudgetMisses ==
    ASSUME IInv, BudgetInv, \A t, u \in Thread : t = u, NEW t \in Thread, Commit(t), Gone(t)
    PROVE  BudgetInv'
<1>0. PICK id \in Id : id = task[t].id
  BY DEF Commit, IInv, TypeOK, Idle
<1>1. PICK w \in 0..MaxClock : w = StartOf(task[t].at)
  BY StartOfType DEF IInv, TypeOK, Task
<1>2. /\ id \notin missed
      /\ \A s : AttemptedIn(s)' \subseteq (IF s = w THEN AttemptedIn(s) \cup {id} ELSE AttemptedIn(s))
      /\ \A s : id \in AttemptedIn(s)' => s = w
      /\ Used' \subseteq Used \cup {w}
      /\ \A i \in missed' : note'[i] # None /\ note'[i].status # "draft"
      /\ task[t].pc = "count" /\ Asking(t) /\ task'[t].pc = "sending" /\ clock' = clock
  BY <1>0, <1>1, ClaimCommits
<1>3. bucket = None /\ bucket' = None /\ missed' = missed \cup {id}
  BY <1>0 DEF Commit, Gone
<1>4. w \notin Used /\ AttemptedIn(w) = {}
  <2>1. \A s \in Used : s < w
    BY <1>1, <1>2 DEF BudgetInv
  <2>2. w \notin Used
    BY <2>1, NotificationAssumption
  <2> QED
    BY <2>2 DEF Used
<1>5. \A s \in 0..MaxClock : CountedIn(s)' \subseteq CountedIn(s)
  BY <1>2, <1>3 DEF CountedIn
<1>6. ASSUME NEW s \in 0..MaxClock
      PROVE  IsFiniteSet(CountedIn(s)') /\ Cardinality(CountedIn(s)') <= Limit
  <2>1. PICK C : C = CountedIn(s)
    OBVIOUS
  <2>2. IsFiniteSet(C) /\ Cardinality(C) <= Limit /\ CountedIn(s)' \subseteq C /\ Cardinality(C) \in Nat
    BY <1>5, <2>1, FS_CardinalityType DEF BudgetInv
  <2>3. IsFiniteSet(CountedIn(s)') /\ Cardinality(CountedIn(s)') <= Cardinality(C)
    BY <2>2, FS_Subset
  <2>4. Cardinality(CountedIn(s)') \in Nat
    BY <2>3, FS_CardinalityType
  <2> QED
    BY <2>2, <2>3, <2>4, NotificationAssumption
<1>7. ASSUME NEW s \in 0..MaxClock, NEW i \in AttemptedIn(s)' \cap missed', NEW j \in AttemptedIn(s)' \cap missed'
      PROVE  i = j
  <2>1. CASE s = w
    BY <1>2, <1>4, <2>1
  <2>2. CASE s # w
    <3>1. i \in AttemptedIn(s) /\ j \in AttemptedIn(s) /\ i \in missed \cup {id} /\ j \in missed \cup {id}
      BY <1>2, <1>3, <2>2
    <3>2. id \notin AttemptedIn(s)'
      BY <1>2, <2>2
    <3> QED
      BY <1>7, <3>1, <3>2 DEF BudgetInv
  <2> QED
    BY <2>1, <2>2
<1>8. \A s \in Used' : s <= StartOf(clock')
  <2> SUFFICES ASSUME NEW s \in Used', s \notin Used PROVE s <= StartOf(clock')
    BY <1>2 DEF BudgetInv
  <2>1. s = w
    BY <1>2
  <2>2. task[t].at <= clock /\ clock \in 0..MaxClock /\ task[t].at \in 0..MaxClock
    BY <1>2 DEF BudgetInv, IInv, TypeOK, Task
  <2> QED
    BY <1>1, <1>2, <2>1, <2>2, StartsInOrder
<1>9. \A u \in Thread : ~Asking(u)'
  BY <1>2 DEF Asking
<1>10. ASSUME NEW s \in 0..MaxClock, CountedIn(s)' # {} PROVE s + Hour < StartOf(clock')
  BY <1>2, <1>3, <1>5, <1>10 DEF BudgetInv
<1> QED
  BY <1>2, <1>3, <1>6, <1>7, <1>8, <1>9, <1>10 DEF BudgetInv

\* The only thread counts its attempt.
LEMMA BudgetGrows ==
    ASSUME IInv, BudgetInv, \A t, u \in Thread : t = u, NEW t \in Thread, Commit(t), ~Gone(t)
    PROVE  BudgetInv'
<1>0. PICK id \in Id : id = task[t].id
  BY DEF Commit, IInv, TypeOK, Idle
<1>1. PICK w \in 0..MaxClock : w = StartOf(task[t].at)
  BY StartOfType DEF IInv, TypeOK, Task
<1>2. /\ id \notin missed
      /\ \A s : AttemptedIn(s)' \subseteq (IF s = w THEN AttemptedIn(s) \cup {id} ELSE AttemptedIn(s))
      /\ w \in Used' /\ Used' \subseteq Used \cup {w}
      /\ \A i \in missed' : note'[i] # None /\ note'[i].status # "draft"
      /\ task[t].pc = "count" /\ Asking(t) /\ task'[t].pc = "sending" /\ clock' = clock
  BY <1>0, <1>1, ClaimCommits
<1>3. PICK n \in Nat : n = Counted(w)
  BY NotificationAssumption DEF Counted, IInv, TypeOK
<1>4. /\ missed' = missed /\ bucket' = [start |-> w, attempts |-> n + 1]
      /\ bucket' # None /\ bucket'.start = w /\ bucket'.attempts = n + 1
  <2>1. missed' = missed /\ bucket' = [start |-> w, attempts |-> n + 1]
    BY <1>1, <1>3 DEF Commit
  <2>2. bucket' \in [start : 0..MaxClock, attempts : Nat]
    BY <1>1, <1>3, <2>1
  <2> QED
    BY <2>1, <2>2, NotificationAssumption
<1>5. Used \subseteq 0..MaxClock /\ \A s \in Used : s <= w
  BY <1>1, <1>2 DEF Used, BudgetInv
<1>6. Cardinality(CountedIn(w)) <= n
  <2>1. CASE bucket # None /\ bucket.start = w
    BY <1>3, <2>1 DEF BudgetInv, Counted
  <2>2. CASE bucket = None
    <3>1. StartOf(clock) <= w + Hour
      BY <1>1, <1>2, WindowNear DEF BudgetInv, IInv, TypeOK, Task
    <3>2. PICK v \in 0..MaxClock : v = StartOf(clock)
      BY StartOfType DEF IInv, TypeOK
    <3>3. ~(w + Hour < v)
      BY <3>1, <3>2, NotificationAssumption
    <3>4. CountedIn(w) = {}
      BY <2>2, <3>2, <3>3 DEF BudgetInv
    <3> QED
      BY <1>3, <3>4, FS_EmptySet
  <2>3. CASE bucket # None /\ bucket.start # w
    <3>1. bucket.start \in 0..MaxClock /\ bucket.start <= w
      BY <1>5, <2>3 DEF BudgetInv, IInv, TypeOK
    <3>2. ~(w <= bucket.start)
      BY <2>3, <3>1, NotificationAssumption
    <3>3. w \notin Used
      BY <2>3, <3>2 DEF BudgetInv
    <3>4. CountedIn(w) = {}
      BY <3>3 DEF Used, CountedIn
    <3> QED
      BY <1>3, <3>4, FS_EmptySet
  <2> QED
    BY <2>1, <2>2, <2>3
<1>7. n < Limit
  BY <1>0, <1>1, <1>2, <1>3 DEF BudgetInv
<1>8. /\ IsFiniteSet(CountedIn(w)') /\ Cardinality(CountedIn(w)') <= n + 1
  <2>1. PICK C : C = CountedIn(w)
    OBVIOUS
  <2>2. IsFiniteSet(C) /\ Cardinality(C) \in Nat /\ Cardinality(C) <= n
    BY <1>6, <2>1, FS_CardinalityType DEF BudgetInv
  <2>3. IsFiniteSet(C \cup {id}) /\ (Cardinality(C \cup {id}) = Cardinality(C) \/ Cardinality(C \cup {id}) = Cardinality(C) + 1)
    BY <2>2, FS_AddElement
  <2>4. CountedIn(w)' \subseteq C \cup {id}
    BY <1>2, <1>4, <2>1 DEF CountedIn
  <2>5. IsFiniteSet(CountedIn(w)') /\ Cardinality(CountedIn(w)') <= Cardinality(C \cup {id})
    BY <2>3, <2>4, FS_Subset
  <2>6. Cardinality(CountedIn(w)') \in Nat
    BY <2>5, FS_CardinalityType
  <2> QED
    BY <1>3, <2>2, <2>3, <2>5, <2>6
<1>9. ASSUME NEW s \in 0..MaxClock
      PROVE  /\ IsFiniteSet(CountedIn(s)') /\ Cardinality(CountedIn(s)') <= Limit
             /\ \A i, j \in AttemptedIn(s)' \cap missed' : i = j
  <2>1. CASE s = w
    <3>1. Cardinality(CountedIn(w)') \in Nat
      BY <1>8, FS_CardinalityType
    <3>2. n + 1 <= Limit
      BY <1>3, <1>7, NotificationAssumption
    <3>3. Cardinality(CountedIn(w)') <= Limit
      BY <1>3, <1>8, <3>1, <3>2, NotificationAssumption
    <3>4. AttemptedIn(s)' \cap missed' \subseteq AttemptedIn(s) \cap missed
      BY <1>2, <1>4
    <3> QED
      BY <1>8, <2>1, <3>3, <3>4 DEF BudgetInv
  <2>2. CASE s # w
    <3>1. PICK C : C = CountedIn(s)
      OBVIOUS
    <3>2. CountedIn(s)' \subseteq C /\ IsFiniteSet(C) /\ Cardinality(C) \in Nat /\ Cardinality(C) <= Limit
      BY <1>2, <1>4, <2>2, <3>1, FS_CardinalityType DEF CountedIn, BudgetInv
    <3>3. IsFiniteSet(CountedIn(s)') /\ Cardinality(CountedIn(s)') <= Cardinality(C)
      BY <3>2, FS_Subset
    <3>4. Cardinality(CountedIn(s)') \in Nat
      BY <3>3, FS_CardinalityType
    <3>5. Cardinality(CountedIn(s)') <= Limit
      BY <3>2, <3>3, <3>4, NotificationAssumption
    <3>6. AttemptedIn(s)' \cap missed' \subseteq AttemptedIn(s) \cap missed
      BY <1>2, <1>4, <2>2
    <3> QED
      BY <3>3, <3>5, <3>6 DEF BudgetInv
  <2> QED
    BY <2>1, <2>2
<1>10. \A s \in Used' : s <= StartOf(clock') /\ s <= w
  <2>1. \A s \in Used : s <= StartOf(clock')
    BY <1>2 DEF BudgetInv
  <2>2. task[t].at <= clock /\ clock \in 0..MaxClock /\ task[t].at \in 0..MaxClock
    BY <1>2 DEF BudgetInv, IInv, TypeOK, Task
  <2>3. w <= StartOf(clock')
    BY <1>1, <1>2, <2>2, StartsInOrder
  <2>4. w <= w
    BY NotificationAssumption
  <2> QED
    BY <1>2, <1>5, <2>1, <2>3, <2>4
<1>11. \A u \in Thread : ~Asking(u)'
  BY <1>2 DEF Asking
<1> QED
  BY <1>2, <1>4, <1>8, <1>9, <1>10, <1>11 DEF BudgetInv

\* A step that claims nothing and leaves claims under way and the clock alone.
LEMMA BudgetIdles ==
    ASSUME IInv, BudgetInv, UNCHANGED <<bucket, missed, clock>>,
           \A s \in 0..MaxClock : AttemptedIn(s)' = AttemptedIn(s),
           \A i \in missed : note'[i] # None /\ note'[i].status # "draft",
           \A t \in Thread : Asking(t)' => task'[t] = task[t]
    PROVE  BudgetInv'
<1>1. clock' \in 0..MaxClock /\ clock <= clock'
  BY NotificationAssumption DEF IInv, TypeOK
<1>2. ASSUME NEW t \in Thread, Asking(t)'
      PROVE  /\ Asking(t) /\ task'[t].at = task[t].at /\ clock' <= task[t].at + Patience
             /\ task'[t].row = task[t].row /\ task'[t].pc = task[t].pc
  BY <1>2 DEF Asking, BudgetInv
<1> QED
  BY <1>1, <1>2, BudgetRests

\* Every step, as long as there is one thread.
LEMMA BudgetStep ==
    ASSUME \A t, u \in Thread : t = u, IInv, BudgetInv, [Next]_vars
    PROVE  BudgetInv'
<1> USE DEF ledger
<1>0. /\ clock \in 0..MaxClock /\ clock <= clock /\ note \in [Id -> Note \cup {None}]
      /\ task \in [Thread -> Task] /\ missed \subseteq Id
      /\ \A i \in missed : note[i] # None /\ note[i].status # "draft"
  BY NotificationAssumption DEF IInv, TypeOK, BudgetInv
<1>1. ASSUME NEW t \in Thread, NEW id \in Id, NEW p \in Payloads, Preview(t, id, p) PROVE BudgetInv'
  <2>1. \A u \in Thread : Asking(u)' => task'[u] = task[u]
    BY <1>0, <1>1 DEF Preview, Idle, Asking
  <2> QED
    BY <1>0, <1>1, <2>1, BudgetIdles DEF Preview, AttemptedIn
<1>2. ASSUME NEW t \in Thread, NEW id \in Id, NEW a \in Admin, NEW c \in Content, Approve(t, id, a, c) PROVE BudgetInv'
  <2>1. \A u \in Thread : Asking(u)' => task'[u] = task[u]
    BY <1>0, <1>2 DEF Approve, Idle, Asking
  <2> QED
    BY <1>0, <1>2, <2>1, BudgetIdles DEF Approve, AttemptedIn
<1>3. ASSUME NEW t \in Thread, Draft(t) PROVE BudgetInv'
  <2>1. UNCHANGED <<bucket, missed, clock>> /\ \A u \in Thread : Asking(u)' => task'[u] = task[u]
    BY <1>0, <1>3 DEF Draft, Idle, Asking
  <2>2. \A i \in Id : note'[i] = note[i] \/ (note[i] = None /\ note'[i].attemptedAt = None)
    BY <1>0, <1>3 DEF Draft
  <2>3. \A i \in Id : note[i] # None => note'[i] = note[i]
    BY <2>2
  <2>4. \A s \in 0..MaxClock : AttemptedIn(s)' = AttemptedIn(s)
    BY <2>2, <2>3 DEF AttemptedIn
  <2>5. \A i \in missed : note'[i] # None /\ note'[i].status # "draft"
    BY <1>0, <2>3
  <2> QED
    BY <2>1, <2>4, <2>5, BudgetIdles
<1>4. ASSUME NEW t \in Thread, Stamp(t) PROVE BudgetInv'
  <2>1. task' = [task EXCEPT ![t] = [task[t] EXCEPT !.pc = "claim", !.at = clock]] /\ UNCHANGED <<bucket, missed, clock, note>>
    BY <1>4 DEF Stamp
  <2>2. task'[t].at = clock /\ task'[t].pc = "claim" /\ \A u \in Thread \ {t} : task'[u] = task[u]
    BY <1>0, <2>1 DEF Task
  <2>3. \A u \in Thread : u = t
    OBVIOUS
  <2> QED
    BY <1>0, <2>1, <2>2, <2>3, BudgetRests DEF AttemptedIn
<1>5. ASSUME NEW t \in Thread, NEW r \in Recipient, NEW result \in Result, Hand(t, r, result) PROVE BudgetInv'
  <2>1. task[t] \in Task
    BY <1>0
  <2>2. task'[t].pc \in {"record", "finish"} /\ \A u \in Thread \ {t} : task'[u] = task[u]
    BY <1>0, <1>5, <2>1 DEF Hand, Task
  <2>3. UNCHANGED <<bucket, missed, clock, note>>
    BY <1>5 DEF Hand
  <2>4. \A u \in Thread : Asking(u)' => task'[u] = task[u]
    BY <2>2 DEF Asking
  <2> QED
    BY <1>0, <2>3, <2>4, BudgetIdles DEF AttemptedIn
<1>6. ASSUME NEW t \in Thread, Record(t) PROVE BudgetInv'
  <2>1. task'[t].pc \in {"finish", "sending"} /\ \A u \in Thread \ {t} : task'[u] = task[u]
    BY <1>0, <1>6 DEF Record, Task
  <2>2. UNCHANGED <<bucket, missed, clock, note>>
    BY <1>6 DEF Record, outside
  <2>3. \A u \in Thread : Asking(u)' => task'[u] = task[u]
    BY <2>1 DEF Asking
  <2> QED
    BY <1>0, <2>2, <2>3, BudgetIdles DEF AttemptedIn
<1>7. ASSUME NEW t \in Thread, Finish(t) PROVE BudgetInv'
  <2>1. UNCHANGED <<bucket, missed, clock>> /\ \A u \in Thread : Asking(u)' => task'[u] = task[u]
    BY <1>0, <1>7 DEF Finish, Idle, Asking
  <2>2. PICK id \in Id : id = task[t].id /\ note[id] \in Note /\ note[id] # None
    BY <1>7 DEF Finish, IInv, TypeOK, ClaimStands, Idle
  <2>3. note'[id] = [note[id] EXCEPT !.status = Outcome(task[t].results)] /\ \A i \in Id \ {id} : note'[i] = note[i]
    BY <1>0, <1>7, <2>2 DEF Finish
  <2>4. note'[id].attemptedAt = note[id].attemptedAt /\ note'[id] \in Note /\ note'[id].status \in Settled
    BY <2>2, <2>3, OutcomeType DEF Note
  <2>5. note'[id] # None /\ note'[id].status # "draft"
    BY <2>4, NotificationAssumption DEF Settled
  <2>6. \A s \in 0..MaxClock : AttemptedIn(s)' = AttemptedIn(s)
    <3>1. \A i \in Id : (note'[i] # None <=> note[i] # None) /\ note'[i].attemptedAt = note[i].attemptedAt
      BY <2>2, <2>3, <2>4, <2>5
    <3> QED
      BY <3>1 DEF AttemptedIn
  <2>7. \A i \in missed : note'[i] # None /\ note'[i].status # "draft"
    BY <1>0, <2>3, <2>5
  <2> QED
    BY <2>1, <2>6, <2>7, BudgetIdles
<1>8. ASSUME \/ \E t \in Thread : Fail(t)
             \/ \E c \in Configs : Reconfigure(c)
             \/ \E r \in Recipient : Consent(r)
             \/ \E s \in Shelters \cup {None} : ShelterChange(s)
             \/ UNCHANGED vars
      PROVE  BudgetInv'
  <2>1. UNCHANGED <<bucket, missed, clock, note>>
    BY <1>8 DEF Fail, Reconfigure, Consent, ShelterChange, vars
  <2>2. \/ \E t \in Thread : task' = [task EXCEPT ![t] = Idle]
        \/ task' = [t \in Thread |-> Idle]
        \/ task' = task
    BY <1>8 DEF Fail, Reconfigure, Consent, ShelterChange, vars
  <2>3. \A u \in Thread : Asking(u)' => task'[u] = task[u]
    BY <1>0, <2>2 DEF Idle, Asking
  <2> QED
    BY <1>0, <2>1, <2>3, BudgetIdles DEF AttemptedIn
<1>9. CASE Tick
  <2>1. /\ clock' = clock + 1 /\ UNCHANGED <<bucket, missed, note, task>> /\ clock < MaxClock
        /\ \A t \in Thread : Asking(t) => task[t].at + Patience > clock
    BY <1>9 DEF Tick, Asking
  <2>2. clock' \in 0..MaxClock /\ clock <= clock'
    BY <1>0, <2>1, NotificationAssumption
  <2>3. \A t \in Thread : Asking(t) => clock' <= task[t].at + Patience
    <3> SUFFICES ASSUME NEW t \in Thread, Asking(t) PROVE clock' <= task[t].at + Patience
      OBVIOUS
    <3>1. task[t].at \in 0..MaxClock /\ task[t].at + Patience > clock
      BY <1>0, <2>1 DEF Task
    <3> QED
      BY <1>0, <2>1, <3>1, NotificationAssumption
  <2>4. \A t \in Thread : Asking(t)' <=> Asking(t)
    BY <2>1 DEF Asking
  <2> QED
    BY <1>0, <2>1, <2>2, <2>3, <2>4, BudgetRests DEF AttemptedIn
<1>10. ASSUME NEW t \in Thread, Look(t) PROVE BudgetInv'
  <2>1. PICK row : row = (bucket # None)
    OBVIOUS
  <2>2. /\ task' = [task EXCEPT ![t] = [task[t] EXCEPT !.pc = "count", !.row = row]]
        /\ UNCHANGED <<bucket, missed, clock, note>>
        /\ task[t].pc = "claim" /\ Counted(StartOf(task[t].at)) < Limit
    BY <1>10, <2>1 DEF Look
  <2>3. /\ task'[t].at = task[t].at /\ task'[t].pc = "count" /\ task'[t].row = row
        /\ \A u \in Thread \ {t} : task'[u] = task[u]
    BY <1>0, <2>2 DEF Task
  <2>4. Asking(t) /\ clock <= task[t].at + Patience
    BY <2>2 DEF Asking, BudgetInv
  <2>5. \A u \in Thread : u = t
    OBVIOUS
  <2>6. ~(row /\ bucket = None)
    BY <2>1
  <2> QED
    BY <1>0, <2>2, <2>3, <2>4, <2>5, <2>6, BudgetRests DEF AttemptedIn
<1> QED
  BY <1>1, <1>2, <1>3, <1>4, <1>5, <1>6, <1>7, <1>8, <1>9, <1>10, BudgetGrows, BudgetMisses, BudgetPurged
  DEF Next, Serve

\* claim counts an attempt in the window of the time it took before the lock.  As long as
\* approvals are served one at a time, no window has more counted than the limit, and at
\* most one that a sign-in's purge leaves uncounted; with two the count may go back to an
\* earlier window and forget the later one.
THEOREM BudgetKeptByOne ==
    ASSUME \A t, u \in Thread : t = u
    PROVE  Spec => []BudgetKept
<1>1. Init => BudgetInv
  <2> SUFFICES ASSUME Init PROVE BudgetInv
    OBVIOUS
  <2>1. bucket = None /\ missed = {} /\ \A s : AttemptedIn(s) = {} /\ CountedIn(s) = {}
    BY DEF Init, AttemptedIn, CountedIn
  <2>2. \A t \in Thread : ~Asking(t)
    BY DEF Init, Idle, Asking
  <2>3. IsFiniteSet({}) /\ Cardinality({}) <= Limit
    BY FS_EmptySet, NotificationAssumption
  <2>4. Used = {}
    BY <2>1 DEF Used
  <2> QED
    BY <2>1, <2>2, <2>3, <2>4 DEF BudgetInv
<1>2. IInv /\ BudgetInv /\ [Next]_vars => BudgetInv'
  BY BudgetStep
<1>3. BudgetInv => BudgetKept
  <2> SUFFICES ASSUME BudgetInv, NEW t \in 0..MaxClock
               PROVE  /\ Cardinality(AttemptedIn(StartOf(t)) \ missed) <= Limit
                      /\ \A i, j \in AttemptedIn(StartOf(t)) \cap missed : i = j
    BY DEF BudgetKept
  <2>1. PICK s \in 0..MaxClock : s = StartOf(t)
    BY StartOfType
  <2> QED
    BY <2>1 DEF BudgetInv, CountedIn
<1> QED
  BY <1>1, <1>2, <1>3, Invariant, PTL DEF Spec
=============================================================================
