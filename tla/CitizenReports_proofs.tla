------------------------ MODULE CitizenReports_proofs ------------------------
(***************************************************************************)
(* Proofs about CitizenReports, for any number of reports, contents and    *)
(* threads, any lifetimes and any bounds.                                  *)
(***************************************************************************)
EXTENDS CitizenReports, FiniteSetTheorems, TLAPS

Transition == [before : State \cup {None}, after : State]

\* How far a report has come says how often it was changed and what private
\* data may still be there.
Whole(row, pic) ==
    IF row = None THEN pic = None
    ELSE /\ row.state = "SUBMITTED" => row.revision = 1
         /\ row.state = "UNDER_REVIEW" => row.revision = 2
         /\ row.state \in {"APPROVED", "REJECTED"} => row.revision = 3
         /\ row.evidence = (row.state # "WITHDRAWN")
         /\ row.state = "WITHDRAWN" => pic = None

\* The audit of one report explains its row.
Explained(row, tr) ==
    IF row = None THEN tr = <<>>
    ELSE LET n == Len(tr) IN
         /\ n = row.revision
         /\ tr[1].before = None /\ tr[n].after = row.state
         /\ \A i \in 1..(n-1) : tr[i+1].before = tr[i].after

\* What a thread remembers is still so: a withdrawal has read the row as it is,
\* since it holds the row's lock, and a purge deletes photos of the running mode.
Minds(k) ==
    /\ k.pc \in {"view", "serve", "withdraw"} => k.id \in Report
    /\ k.pc = "withdraw" => /\ k.row # None /\ k.row = report[k.id]
                            /\ k.row.state # "WITHDRAWN"
    /\ k.pc = "purge" => \A r \in k.photos : InMode(r)

\* A row is locked by one withdrawal at a time.
Alone == \A t, u \in Thread :
    task[t].pc = "withdraw" /\ task[u].pc = "withdraw" /\ t # u => task[t].id # task[u].id

IInv ==
    /\ TypeOK /\ Alone /\ ReceiptsHonest
    /\ \A r \in Report : Whole(report[r], photo[r]) /\ Explained(report[r], trail[r])
    /\ \A t \in Thread : Minds(task[t])

-----------------------------------------------------------------------------
(* Rows, audits and tasks.                                                 *)

\* None is no row, no state and no time.
LEMMA NotNone ==
    /\ \A row \in Row : row # None
    /\ \A s \in State : s # None
    /\ \A n \in 0..(MaxClock + PhotoLife) : n # None
BY NoneAssumption

\* A thread without a request has a task of the right shape.
LEMMA IdleType == Idle \in Task /\ Minds(Idle) /\ Idle.pc = "idle"
BY DEF Idle, Task, Minds

\* A transition appended to an audit that explains a row explains the next row.
LEMMA AuditGrows ==
    ASSUME NEW row \in Row, NEW new \in Row, NEW tr \in Seq(Transition), Explained(row, tr),
           new.revision = row.revision + 1
    PROVE  LET more == Append(tr, [before |-> row.state, after |-> new.state]) IN
           more \in Seq(Transition) /\ Explained(new, more)
<1> DEFINE e == [before |-> row.state, after |-> new.state]
           more == Append(tr, e)
           n == Len(tr)
<1>1. row # None /\ new # None
  BY NotNone
<1>2. row.revision \in Nat /\ n \in Nat /\ n = row.revision /\ n >= 1
  BY <1>1 DEF Explained, Row
<1>3. e \in Transition /\ e.before = row.state /\ e.after = new.state
  BY DEF Transition, Row
<1> HIDE DEF e
<1>4. /\ more \in Seq(Transition) /\ Len(more) = n + 1
      /\ \A i \in 1..n : more[i] = tr[i]
      /\ more[n+1] = e
  BY <1>2, <1>3
<1>5. \A i \in 1..n : more[i+1].before = more[i].after
  <2> SUFFICES ASSUME NEW i \in 1..n PROVE more[i+1].before = more[i].after
    OBVIOUS
  <2>1. CASE i = n
    BY <1>1, <1>2, <1>3, <1>4, <2>1 DEF Explained
  <2>2. CASE i # n
    <3>1. i \in 1..(n-1) /\ i + 1 \in 1..n
      BY <1>2, <2>2
    <3> QED
      BY <1>1, <1>4, <3>1 DEF Explained
  <2> QED
    BY <2>1, <2>2
<1>6. more[1].before = None
  BY <1>1, <1>2, <1>4 DEF Explained
<1>7. Len(more) = new.revision /\ Len(more) - 1 = n
  BY <1>2, <1>4
<1> HIDE DEF more
<1>8. Explained(new, more)
  BY <1>1, <1>2, <1>3, <1>4, <1>5, <1>6, <1>7 DEF Explained
<1> QED
  BY <1>4, <1>8 DEF more, e

\* Erasing a report that was not withdrawn.
LEMMA ErasedRow ==
    ASSUME NEW row \in Row, NEW pic, Whole(row, pic), row.state # "WITHDRAWN"
    PROVE  /\ Erased(row) \in Row /\ Whole(Erased(row), None)
           /\ Erased(row).state = "WITHDRAWN" /\ Erased(row).revision = row.revision + 1
           /\ Erased(row).evidence = FALSE
           /\ Erased(row).sha = row.sha /\ Erased(row).mode = row.mode
<1>1. row # None /\ row.revision \in 1..3
  BY NotNone DEF Whole, Row, State
<1>2. row.revision + 1 \in 1..4 /\ "WITHDRAWN" \in State
  BY <1>1 DEF State
<1>3. Erased(row) \in Row
  BY <1>2 DEF Erased, Row
<1>4. /\ Erased(row).state = "WITHDRAWN" /\ Erased(row).revision = row.revision + 1
      /\ Erased(row).evidence = FALSE
      /\ Erased(row).sha = row.sha /\ Erased(row).mode = row.mode
  BY DEF Erased, Row
<1>5. Whole(Erased(row), None)
  BY <1>3, <1>4, NotNone DEF Whole
<1> QED
  BY <1>3, <1>4, <1>5

-----------------------------------------------------------------------------
(* The parts of a step.                                                    *)

RowsTyped ==
    /\ report \in [Report -> Row \cup {None}]
    /\ photo \in [Report -> 0..(MaxClock + PhotoLife) \cup {None}]
    /\ trail \in [Report -> Seq(Transition)]

RowsSound == \A r \in Report : Whole(report[r], photo[r]) /\ Explained(report[r], trail[r])

\* No report disappears, and none changes its content or its mode.
Identity == \A r \in Report : Exists(r) =>
    report'[r] # None /\ report'[r].sha = report[r].sha /\ report'[r].mode = report[r].mode

TypesOf ==
    /\ clock \in 0..MaxClock /\ mode \in Modes
    /\ wire \subseteq [id : Report, content : Content, at : 0..MaxClock]
    /\ receipts \subseteq [id : Report, content : Content]
    /\ views \in [Report -> Nat] /\ served \in [Report -> Nat]

Threads ==
    /\ task \in [Thread -> Task]
    /\ \A t \in Thread : task[t].pc \in {"view", "serve", "withdraw"} => task[t].id \in Report

\* The type invariant, in parts, before and after a step.
LEMMA Parts == /\ TypeOK <=> TypesOf /\ RowsTyped /\ Threads
               /\ TypeOK' <=> TypesOf' /\ RowsTyped' /\ Threads'
BY DEF TypeOK, TypesOf, RowsTyped, Threads, Transition

\* One row is written, with its photo and its entry in the audit.
LEMMA OneRow ==
    ASSUME IInv, NEW r \in Report, NEW row \in Row,
           NEW pic \in 0..(MaxClock + PhotoLife) \cup {None}, NEW tr \in Seq(Transition),
           Whole(row, pic), Explained(row, tr),
           Exists(r) => row.sha = report[r].sha /\ row.mode = report[r].mode,
           report' = [report EXCEPT ![r] = row],
           photo' = [photo EXCEPT ![r] = pic],
           trail' = [trail EXCEPT ![r] = tr]
    PROVE  /\ RowsTyped' /\ RowsSound' /\ Identity
           /\ \A q \in Report \ {r} : report'[q] = report[q]
<1>1. RowsTyped /\ RowsSound
  BY Parts DEF IInv, RowsSound
<1>2. RowsTyped'
  BY <1>1 DEF RowsTyped
<1>3. /\ report'[r] = row /\ photo'[r] = pic /\ trail'[r] = tr
      /\ \A q \in Report \ {r} : report'[q] = report[q] /\ photo'[q] = photo[q] /\ trail'[q] = trail[q]
  BY <1>1 DEF RowsTyped
<1>4. RowsSound'
  BY <1>1, <1>3 DEF RowsSound, Whole, Explained
<1>5. row # None
  BY NotNone
<1>6. Identity
  BY <1>3, <1>5 DEF Identity, Exists
<1> QED
  BY <1>2, <1>3, <1>4, <1>6

\* The rows are left alone.
LEMMA NoRow ==
    ASSUME IInv, UNCHANGED rows
    PROVE  RowsTyped' /\ RowsSound' /\ Identity
<1>1. RowsTyped /\ RowsSound
  BY Parts DEF IInv, RowsSound
<1> QED
  BY <1>1 DEF rows, RowsTyped, RowsSound, Whole, Explained, Identity, Exists

\* A step in which threads only end: the rows a withdrawal has locked stay as
\* they are, and a receipt is of the row that is there.
LEMMA ThreadsEnd ==
    ASSUME IInv, TypesOf', RowsTyped', RowsSound', Identity,
           \A x \in receipts' : x \in receipts
               \/ (report'[x.id] # None /\ report'[x.id].sha = x.content),
           task' \in [Thread -> Task],
           \A t \in Thread : task'[t] = Idle \/ (task'[t] = task[t] /\ mode' = mode),
           \A t \in Thread : task'[t].pc = "withdraw" => report'[task[t].id] = report[task[t].id]
    PROVE  IInv'
<1> USE DEF IInv
<1>1. TypeOK'
  BY Parts, IdleType DEF Threads
<1>2. Alone'
  BY IdleType DEF Alone
<1>3. ReceiptsHonest'
  BY DEF ReceiptsHonest, Identity, Exists, TypeOK
<1>4. ASSUME NEW t \in Thread PROVE Minds(task[t])'
  <2>1. CASE task'[t] = Idle
    BY <2>1, IdleType DEF Minds
  <2>2. CASE task'[t] = task[t] /\ mode' = mode
    <3>1. Minds(task[t]) /\ task[t] \in Task
      BY DEF TypeOK
    <3>2. task[t].pc = "purge" => \A r \in task[t].photos : InMode(r)'
      BY <2>2, <3>1 DEF Minds, Task, InMode, Exists, Identity
    <3> QED
      BY <2>2, <3>1, <3>2 DEF Minds
  <2> QED
    BY <2>1, <2>2
<1> QED
  BY <1>1, <1>2, <1>3, <1>4 DEF RowsSound

\* A step in which a thread goes on and the rows stay.
LEMMA ThreadGoes ==
    ASSUME IInv, TypesOf', UNCHANGED <<mode, receipts, rows>>,
           NEW t \in Thread, NEW k \in Task, Minds(k),
           k.pc = "withdraw" => ~Locked(k.id),
           task' = [task EXCEPT ![t] = k]
    PROVE  IInv'
<1>1. RowsTyped' /\ RowsSound'
  BY NoRow
<1>2. /\ task' \in [Thread -> Task] /\ task'[t] = k
      /\ \A u \in Thread \ {t} : task'[u] = task[u]
  BY DEF IInv, TypeOK
<1>3. TypeOK'
  BY <1>1, <1>2, Parts DEF IInv, Minds, Threads
<1>4. Alone'
  BY <1>2 DEF IInv, Alone, Locked
<1>5. ReceiptsHonest'
  BY DEF IInv, ReceiptsHonest, rows, Exists
<1>6. \A u \in Thread : Minds(task[u])'
  BY <1>2 DEF IInv, Minds, rows, InMode, Exists
<1> QED
  BY <1>1, <1>3, <1>4, <1>5, <1>6 DEF IInv, RowsSound

-----------------------------------------------------------------------------
(* The steps that write rows.                                              *)

\* The row a new submission writes has its shape.
LEMMA FirstRow ==
    ASSUME TypesOf, NEW c \in Content
    PROVE  [state |-> "SUBMITTED", revision |-> 1, sha |-> c, evidence |-> TRUE,
            mode |-> mode, received |-> clock] \in Row
<1>1. "SUBMITTED" \in State /\ 1 \in 1..4
  BY DEF State
<1> QED
  BY <1>1 DEF TypesOf, Row

\* A repeated submission changes no row; a new one writes the first row of its
\* token, and a receipt is of the row that is there.
LEMMA SubmitStep == ASSUME IInv, NEW m \in wire, Submit(m) PROVE IInv' /\ Identity
<1>1. m.id \in Report /\ m.content \in Content /\ TypesOf /\ RowsTyped
  BY Parts DEF IInv, TypesOf
<1>2. TypesOf' /\ UNCHANGED <<mode, task>>
  BY <1>1 DEF Submit, TypesOf, looks
<1>3. /\ task' \in [Thread -> Task]
      /\ \A t \in Thread : task'[t] = task[t] /\ mode' = mode
  BY <1>2 DEF IInv, TypeOK
<1>4. \A x \in receipts' : x \in receipts \/ (x.id = m.id /\ x.content = m.content)
  BY DEF Submit
<1>5. CASE Exists(m.id)
  <2>1. report[m.id].sha = m.content /\ UNCHANGED rows
    BY <1>5 DEF Submit
  <2>2. RowsTyped' /\ RowsSound' /\ Identity
    BY <2>1, NoRow
  <2> QED
    BY <1>2, <1>3, <1>4, <1>5, <2>1, <2>2, ThreadsEnd DEF rows, Exists
<1>6. CASE ~Exists(m.id)
  <2> DEFINE row == [state |-> "SUBMITTED", revision |-> 1, sha |-> m.content, evidence |-> TRUE,
                     mode |-> mode, received |-> clock]
             pic == IF m.content \in WithPhoto THEN clock + PhotoLife ELSE None
             e == [before |-> None, after |-> "SUBMITTED"]
  <2>1. Receive(m)
    BY <1>6 DEF Submit
  <2>2. row \in Row /\ Whole(row, pic) /\ row.sha = m.content /\ row.revision = 1
        /\ row.state = "SUBMITTED"
    <3>1. row \in Row
      BY <1>1, FirstRow
    <3> QED
      BY <3>1, NotNone DEF Whole
  <2>3. pic \in 0..(MaxClock + PhotoLife) \cup {None}
    BY <1>1, ReportAssumption DEF TypesOf
  <2>4. trail[m.id] = <<>>
    BY <1>1, <1>6 DEF IInv, Explained, Exists
  <2>5. e \in Transition /\ e.before = None /\ e.after = "SUBMITTED"
    BY DEF Transition, State
  <2> HIDE DEF row, pic, e
  <2>6. Append(trail[m.id], e) = <<e>> /\ <<e>> \in Seq(Transition)
    BY <2>4, <2>5
  <2>7. Explained(row, <<e>>)
    BY <2>2, <2>5, NotNone DEF Explained
  <2>8. /\ report' = [report EXCEPT ![m.id] = row] /\ photo' = [photo EXCEPT ![m.id] = pic]
        /\ trail' = [trail EXCEPT ![m.id] = <<e>>]
    BY <1>1, <2>1, <2>6 DEF Receive, Log, row, pic, e, RowsTyped
  <2>9. /\ RowsTyped' /\ RowsSound' /\ Identity
        /\ \A q \in Report \ {m.id} : report'[q] = report[q]
    BY <1>1, <1>6, <2>2, <2>3, <2>6, <2>7, <2>8, OneRow
  <2>10. report'[m.id] = row /\ row # None
    BY <1>1, <2>2, <2>8, NotNone DEF RowsTyped
  <2>11. \A t \in Thread : task[t].pc = "withdraw" => task[t].id \in Report \ {m.id}
    BY <1>6 DEF IInv, Minds, Exists
  <2> QED
    BY <1>2, <1>3, <1>4, <2>2, <2>9, <2>10, <2>11, ThreadsEnd
<1> QED
  BY <1>5, <1>6

\* A review moves a row nobody is withdrawing.
LEMMA ReviewStep ==
    ASSUME IInv, NEW r \in Report, NEW n \in 1..4, NEW s \in State, Review(r, n, s)
    PROVE  IInv' /\ Identity
<1> DEFINE row == [report[r] EXCEPT !.state = s, !.revision = @ + 1]
           e == [before |-> report[r].state, after |-> s]
<1>1. TypesOf /\ RowsTyped /\ report[r] \in Row /\ Whole(report[r], photo[r])
      /\ Explained(report[r], trail[r])
  BY Parts DEF IInv, RowsTyped, Review, InMode, Exists
<1>2. \/ report[r].state = "SUBMITTED" /\ s = "UNDER_REVIEW" /\ report[r].revision = 1
      \/ report[r].state = "UNDER_REVIEW" /\ s \in {"APPROVED", "REJECTED"} /\ report[r].revision = 2
  BY <1>1, NotNone DEF Review, Allowed, Whole
<1>3. report[r].revision + 1 \in 1..4
  BY <1>2
<1>4. row \in Row
  BY <1>1, <1>3 DEF Row
<1>5. /\ row.state = s /\ row.revision = report[r].revision + 1
      /\ row.evidence = report[r].evidence
      /\ row.sha = report[r].sha /\ row.mode = report[r].mode
  BY <1>1 DEF Row
<1>6. /\ report' = [report EXCEPT ![r] = row] /\ photo' = [photo EXCEPT ![r] = photo[r]]
      /\ trail' = [trail EXCEPT ![r] = Append(trail[r], e)]
  BY <1>1 DEF Review, Log, RowsTyped
<1> HIDE DEF row
<1>7. Whole(row, photo[r])
  BY <1>1, <1>2, <1>4, <1>5, NotNone DEF Whole
<1>8. Append(trail[r], e) \in Seq(Transition) /\ Explained(row, Append(trail[r], e))
  BY <1>1, <1>4, <1>5, AuditGrows DEF RowsTyped
<1>9. /\ RowsTyped' /\ RowsSound' /\ Identity
      /\ \A q \in Report \ {r} : report'[q] = report[q]
  BY <1>1, <1>4, <1>5, <1>6, <1>7, <1>8, OneRow DEF RowsTyped
<1>10. TypesOf' /\ UNCHANGED <<mode, task, receipts>>
  BY <1>1 DEF Review, TypesOf, client, looks
<1>11. /\ task' \in [Thread -> Task]
       /\ \A t \in Thread : task'[t] = task[t] /\ mode' = mode
  BY <1>10 DEF IInv, TypeOK
<1>12. \A t \in Thread : task[t].pc = "withdraw" => task[t].id \in Report \ {r}
  BY DEF IInv, Minds, Review, Locked
<1> QED
  BY <1>9, <1>10, <1>11, <1>12, ThreadsEnd

\* A withdrawal writes the row it has locked.
LEMMA WithdrawStep == ASSUME IInv, NEW t \in Thread, WithdrawCommit(t) PROVE IInv' /\ Identity
<1> DEFINE r == task[t].id
           row == Erased(report[r])
           e == [before |-> report[r].state, after |-> row.state]
<1>1. /\ TypesOf /\ RowsTyped /\ r \in Report /\ task[t].row = report[r]
      /\ report[r] \in Row /\ report[r].state # "WITHDRAWN"
      /\ Whole(report[r], photo[r]) /\ Explained(report[r], trail[r])
  BY Parts DEF IInv, RowsTyped, WithdrawCommit, Minds
<1>2. /\ row \in Row /\ Whole(row, None) /\ row.state = "WITHDRAWN"
      /\ row.revision = report[r].revision + 1
      /\ row.sha = report[r].sha /\ row.mode = report[r].mode
  BY <1>1, ErasedRow
<1>3. /\ report' = [report EXCEPT ![r] = row] /\ photo' = [photo EXCEPT ![r] = None]
      /\ trail' = [trail EXCEPT ![r] = Append(trail[r], e)]
      /\ task' = [task EXCEPT ![t] = Idle]
  BY <1>1, <1>2 DEF WithdrawCommit, Log, RowsTyped
<1>4. Append(trail[r], e) \in Seq(Transition) /\ Explained(row, Append(trail[r], e))
  BY <1>1, <1>2, AuditGrows DEF RowsTyped
<1>5. /\ RowsTyped' /\ RowsSound' /\ Identity
      /\ \A q \in Report \ {r} : report'[q] = report[q]
  BY <1>1, <1>2, <1>3, <1>4, OneRow DEF RowsTyped
<1>6. TypesOf' /\ UNCHANGED <<mode, receipts>>
  BY <1>1 DEF WithdrawCommit, TypesOf, client, looks
<1>7. /\ task' \in [Thread -> Task]
      /\ \A u \in Thread : task'[u] = Idle \/ (task'[u] = task[u] /\ mode' = mode)
  BY <1>3, <1>6, IdleType DEF IInv, TypeOK
<1>8. \A u \in Thread : task'[u].pc = "withdraw" => task[u].id \in Report \ {r}
  BY <1>3, IdleType DEF IInv, TypeOK, Minds, Alone, WithdrawCommit
<1> QED
  BY <1>5, <1>6, <1>7, <1>8, ThreadsEnd

\* A purge erases the reports that are due, which nobody is withdrawing, and
\* deletes the photos it holds.
LEMMA PurgeStep == ASSUME IInv, NEW t \in Thread, PurgeCommit(t) PROVE IInv' /\ Identity
<1> DEFINE gone == task[t].photos \cup Due
<1>1. TypesOf /\ RowsTyped /\ RowsSound
  BY Parts DEF IInv, RowsSound
<1>2. ASSUME NEW r \in Report
      PROVE  /\ report'[r] = IF r \in Due THEN Erased(report[r]) ELSE report[r]
             /\ photo'[r] = IF r \in gone THEN None ELSE photo[r]
             /\ trail'[r] = IF r \in Due
                  THEN Append(trail[r], [before |-> report[r].state, after |-> "WITHDRAWN"])
                  ELSE trail[r]
  BY DEF PurgeCommit
<1>3. ASSUME NEW r \in Due
      PROVE  /\ report'[r] \in Row /\ trail'[r] \in Seq(Transition) /\ photo'[r] = None
             /\ Whole(report'[r], photo'[r]) /\ Explained(report'[r], trail'[r])
             /\ report'[r].sha = report[r].sha /\ report'[r].mode = report[r].mode
  <2>1. /\ r \in Report /\ report[r] \in Row /\ report[r].state # "WITHDRAWN"
        /\ trail[r] \in Seq(Transition)
        /\ Whole(report[r], photo[r]) /\ Explained(report[r], trail[r])
    BY <1>1 DEF Due, InMode, Exists, RowsTyped, RowsSound
  <2>2. /\ Erased(report[r]) \in Row /\ Whole(Erased(report[r]), None)
        /\ Erased(report[r]).state = "WITHDRAWN"
        /\ Erased(report[r]).revision = report[r].revision + 1
        /\ Erased(report[r]).sha = report[r].sha /\ Erased(report[r]).mode = report[r].mode
    BY <2>1, ErasedRow
  <2>3. LET more == Append(trail[r], [before |-> report[r].state, after |-> "WITHDRAWN"]) IN
        more \in Seq(Transition) /\ Explained(Erased(report[r]), more)
    BY <2>1, <2>2, AuditGrows
  <2> QED
    BY <1>2, <2>1, <2>2, <2>3
<1>4. ASSUME NEW r \in Report \ Due
      PROVE  /\ report'[r] = report[r] /\ trail'[r] = trail[r] /\ photo'[r] \in {photo[r], None}
             /\ Whole(report'[r], photo'[r]) /\ Explained(report'[r], trail'[r])
  BY ZenonT(60), <1>1, <1>2 DEF RowsSound, Whole
<1>5. Due \subseteq Report
  BY DEF Due
<1>6. RowsTyped'
  <2>1. /\ report' = [r \in Report |-> report'[r]] /\ photo' = [r \in Report |-> photo'[r]]
        /\ trail' = [r \in Report |-> trail'[r]]
    BY DEF PurgeCommit
  <2>2. \A r \in Report : /\ report'[r] \in Row \cup {None}
                          /\ photo'[r] \in 0..(MaxClock + PhotoLife) \cup {None}
                          /\ trail'[r] \in Seq(Transition)
    BY <1>1, <1>3, <1>4 DEF RowsTyped
  <2> QED
    BY <2>1, <2>2 DEF RowsTyped
<1>7. RowsSound'
  BY <1>3, <1>4 DEF RowsSound
<1>8. Identity
  BY <1>3, <1>4, NotNone DEF Identity, Exists
<1>9. TypesOf' /\ UNCHANGED <<mode, receipts>>
  BY <1>1 DEF PurgeCommit, TypesOf, client, looks
<1>10. /\ task' \in [Thread -> Task]
       /\ \A u \in Thread : task'[u] = Idle \/ (task'[u] = task[u] /\ mode' = mode)
  BY <1>9, IdleType DEF PurgeCommit, IInv, TypeOK
<1>11. ASSUME NEW u \in Thread, task'[u].pc = "withdraw"
       PROVE  report'[task[u].id] = report[task[u].id]
  <2>1. task[u].pc = "withdraw" /\ task[u].id \in Report
    BY <1>10, <1>11, IdleType DEF IInv, Minds
  <2>2. task[u].id \notin Due
    BY <2>1 DEF PurgeCommit, Locked
  <2> QED
    BY <1>4, <2>1, <2>2
<1> QED
  BY <1>6, <1>7, <1>8, <1>9, <1>10, <1>11, ThreadsEnd

-----------------------------------------------------------------------------
(* The steps that leave the rows alone.                                    *)

\* A thread looks at a photo, locks a row or collects the expired photos.
LEMMA GoingStep ==
    ASSUME IInv, NEW t \in Thread,
           \/ \E r \in Report : View(t, r) \/ WithdrawLock(t, r)
           \/ ViewAudit(t) \/ PurgePhotos(t)
    PROVE  IInv'
<1>1. TypesOf /\ RowsTyped /\ task[t] \in Task /\ Minds(task[t])
  BY Parts DEF IInv, TypeOK
<1>2. ASSUME NEW r \in Report, View(t, r) PROVE IInv'
  <2> DEFINE k == [Idle EXCEPT !.pc = "view", !.id = r]
  <2>1. k \in Task /\ k.pc = "view" /\ k.id = r
    BY DEF Idle, Task
  <2>2. /\ UNCHANGED <<mode, receipts, rows>> /\ TypesOf'
        /\ task' = [task EXCEPT ![t] = k]
    BY <1>1, <1>2 DEF View, TypesOf, client, looks
  <2> HIDE DEF k
  <2>3. Minds(k)
    BY <2>1 DEF Minds
  <2> QED
    BY <2>1, <2>2, <2>3, ThreadGoes
<1>3. ASSUME NEW r \in Report, WithdrawLock(t, r) PROVE IInv'
  <2> DEFINE k == [Idle EXCEPT !.pc = "withdraw", !.id = r, !.row = report[r]]
  <2>1. Exists(r) /\ report[r] \in Row /\ report[r].state # "WITHDRAWN" /\ ~Locked(r)
    BY <1>1, <1>3 DEF WithdrawLock, IInv, ReceiptsHonest, Exists, RowsTyped
  <2>2. k \in Task /\ k.pc = "withdraw" /\ k.id = r /\ k.row = report[r]
    BY <2>1 DEF Idle, Task
  <2>3. /\ UNCHANGED <<mode, receipts, rows>> /\ TypesOf'
        /\ task' = [task EXCEPT ![t] = k]
    BY <1>1, <1>3 DEF WithdrawLock, TypesOf, client, looks
  <2> HIDE DEF k
  <2>4. Minds(k)
    BY <2>1, <2>2 DEF Minds, Exists
  <2> QED
    BY <2>1, <2>2, <2>3, <2>4, ThreadGoes
<1>4. CASE ViewAudit(t)
  <2> DEFINE k == [task[t] EXCEPT !.pc = "serve"]
  <2>1. k \in Task /\ k.pc = "serve" /\ k.id = task[t].id
    BY <1>1 DEF Task
  <2>2. /\ UNCHANGED <<mode, receipts, rows>> /\ task' = [task EXCEPT ![t] = k]
        /\ task[t].id \in Report
    BY <1>1, <1>4 DEF ViewAudit, client, Minds
  <2>3. TypesOf'
    BY <1>1, <1>4, <2>2 DEF ViewAudit, TypesOf, client
  <2> HIDE DEF k
  <2>4. Minds(k)
    BY <2>1, <2>2 DEF Minds
  <2> QED
    BY <2>1, <2>2, <2>3, <2>4, ThreadGoes
<1>5. CASE PurgePhotos(t)
  <2> DEFINE k == [Idle EXCEPT !.pc = "purge", !.photos = Expired]
  <2>1. k \in Task /\ k.pc = "purge" /\ k.photos = Expired
    BY DEF Idle, Task, Expired
  <2>2. /\ UNCHANGED <<mode, receipts, rows>> /\ TypesOf'
        /\ task' = [task EXCEPT ![t] = k]
    BY <1>1, <1>5 DEF PurgePhotos, TypesOf, client, looks
  <2> HIDE DEF k
  <2>3. Minds(k)
    BY <2>1 DEF Minds, Expired
  <2> QED
    BY <2>1, <2>2, <2>3, ThreadGoes
<1> QED
  BY <1>2, <1>3, <1>4, <1>5

\* Pages that compose, administrators who receive a preview, the clock, failures,
\* deadlocks that are ended and restarts: at most, threads end.
LEMMA RestStep ==
    ASSUME IInv,
           \/ \E r \in Report, c \in Content : Compose(r, c)
           \/ \E t \in Thread : Serve(t) \/ Fail(t) \/ BreakDeadlock(t)
           \/ Restart \/ Tick \/ UNCHANGED vars
    PROVE  IInv'
<1>1. TypesOf /\ RowsTyped /\ task \in [Thread -> Task]
  BY Parts DEF IInv, TypeOK
<1>2. UNCHANGED <<receipts, rows>>
  BY DEF Compose, Serve, Fail, BreakDeadlock, Restart, Tick, vars, client
<1>3. RowsTyped' /\ RowsSound' /\ Identity
  BY <1>2, NoRow
<1>4. UNCHANGED <<clock, mode, wire, views, served>> => TypesOf'
  BY <1>1, <1>2 DEF TypesOf
<1>5. TypesOf'
  <2>1. ASSUME NEW r \in Report, NEW c \in Content, Compose(r, c) PROVE TypesOf'
    BY <1>1, <2>1 DEF Compose, TypesOf, looks
  <2>2. ASSUME NEW t \in Thread, Serve(t) PROVE TypesOf'
    <3>1. task[t].id \in Report
      BY <2>2 DEF Serve, IInv, Minds
    <3> QED
      BY <1>1, <2>2, <3>1 DEF Serve, TypesOf, client
  <2>3. CASE Restart
    BY <1>1, <2>3 DEF Restart, TypesOf, client, looks
  <2>4. CASE Tick
    <3>1. clock + 1 \in 0..MaxClock
      BY <1>1, <2>4, ReportAssumption DEF Tick, TypesOf
    <3> QED
      BY <1>1, <2>4, <3>1 DEF Tick, TypesOf, client, looks
  <2> QED
    BY <1>4, <2>1, <2>2, <2>3, <2>4 DEF Fail, BreakDeadlock, vars, client, looks
<1>6. /\ task' \in [Thread -> Task]
      /\ \A u \in Thread : task'[u] = Idle \/ (task'[u] = task[u] /\ mode' = mode)
  BY <1>1, IdleType DEF Compose, Serve, Fail, BreakDeadlock, Restart, Tick, vars
<1> QED
  BY <1>2, <1>3, <1>5, <1>6, ThreadsEnd DEF rows

-----------------------------------------------------------------------------
\* Nothing has been reported at the start.
LEMMA InitInv == Init => IInv
<1> SUFFICES ASSUME Init PROVE IInv
  OBVIOUS
<1>1. 0 \in 0..MaxClock
  BY ReportAssumption
<1>2. TypesOf /\ RowsTyped
  BY <1>1 DEF Init, TypesOf, RowsTyped
<1>3. Threads
  BY IdleType DEF Init, Threads
<1>4. \A t \in Thread : Minds(task[t])
  BY IdleType DEF Init
<1> QED
  BY <1>2, <1>3, <1>4, Parts, IdleType DEF IInv, Init, Alone, ReceiptsHonest, Whole, Explained

\* Each action keeps the invariant, whatever half-done withdrawals and purges there are.
LEMMA InvStep == IInv /\ [Next]_vars => IInv'
BY SubmitStep, ReviewStep, GoingStep, WithdrawStep, PurgeStep, RestStep DEF Next, Proceed

\* The invariant holds in every state.
THEOREM Invariant == Spec => []IInv
BY InitInv, InvStep, PTL DEF Spec

\* Rows, audits, pages and threads keep their shape, and no report is changed
\* more often than its four revisions allow: ReportStore.
THEOREM TypeCorrect == Spec => []TypeOK
<1>1. IInv => TypeOK
  BY DEF IInv
<1> QED
  BY <1>1, Invariant, PTL

\* The audit written by review, withdraw and purge explains every row.
THEOREM AuditExplains == Spec => []TrailIsChain
<1>1. IInv => TrailIsChain
  BY DEF IInv, TrailIsChain, Explained, Exists
<1> QED
  BY <1>1, Invariant, PTL

\* ReportStore.submit acknowledges only what it stored under that token.
THEOREM ReceiptsTrue == Spec => []ReceiptsHonest
<1>1. IInv => ReceiptsHonest
  BY DEF IInv
<1> QED
  BY <1>1, Invariant, PTL

-----------------------------------------------------------------------------
(* The life a report was promised.                                         *)

\* Of one report: its state as a citizen sees it, and what is kept about it.
LEMMA LifeOf ==
    ASSUME NEW r \in Report
    PROVE  /\ Life[r] = IF Exists(r) THEN report[r].state ELSE "none"
           /\ Life'[r] = IF report'[r] # None THEN report'[r].state ELSE "none"
           /\ Private[r] = (IF Exists(r) /\ report[r].evidence THEN {"text"} ELSE {})
                           \cup (IF photo[r] # None THEN {"photo"} ELSE {})
           /\ Private'[r] = (IF report'[r] # None /\ report'[r].evidence THEN {"text"} ELSE {})
                            \cup (IF photo'[r] # None THEN {"photo"} ELSE {})
BY DEF Life, Private, Exists

Moves(r) == \/ Promise!Arrive(r) \/ Promise!Moderate(r) \/ Promise!Withdraw(r)
            \/ Promise!ForgetPhoto(r) \/ UNCHANGED <<Life[r], Private[r]>>

\* A report whose row and photo stay keeps its life.
LEMMA Stays ==
    ASSUME NEW r \in Report, report'[r] = report[r], photo'[r] = photo[r]
    PROVE  Moves(r)
BY LifeOf DEF Moves, Exists

\* Erasing a report with everything that is private is what a citizen calls
\* withdrawing.
LEMMA Erases ==
    ASSUME IInv, NEW r \in Report, Exists(r), report[r].state # "WITHDRAWN",
           report'[r] = Erased(report[r]), photo'[r] = None
    PROVE  Moves(r)
<1>1. report[r] \in Row /\ Whole(report[r], photo[r])
  BY Parts DEF IInv, RowsTyped, Exists
<1>2. report'[r] # None /\ report'[r].state = "WITHDRAWN" /\ report'[r].evidence = FALSE
  BY <1>1, ErasedRow, NotNone
<1>3. Life[r] # "none" /\ Life[r] # "WITHDRAWN" /\ Life'[r] = "WITHDRAWN"
  BY <1>1, <1>2, LifeOf DEF Row, State
<1>4. Private'[r] = {}
  BY <1>2, LifeOf
<1> QED
  BY <1>3, <1>4 DEF Moves, Promise!Withdraw

\* A submission moves its own report only, and only from where it was never received.
LEMMA SubmitMoves ==
    ASSUME IInv, NEW m \in wire, Submit(m), NEW r \in Report
    PROVE  Moves(r)
<1>1. m.id \in Report /\ m.content \in Content /\ TypesOf /\ RowsTyped
  BY Parts DEF IInv, TypesOf
<1>2. CASE Exists(m.id) \/ r # m.id
  <2>1. report'[r] = report[r] /\ photo'[r] = photo[r]
    BY <1>1, <1>2 DEF Submit, Receive, RowsTyped, rows
  <2> QED
    BY <2>1, Stays
<1>3. CASE ~Exists(m.id) /\ r = m.id
  <2>1. /\ report'[r] = [state |-> "SUBMITTED", revision |-> 1, sha |-> m.content,
                         evidence |-> TRUE, mode |-> mode, received |-> clock]
        /\ photo'[r] = IF m.content \in WithPhoto THEN clock + PhotoLife ELSE None
    BY <1>1, <1>3 DEF Submit, Receive, RowsTyped
  <2>2. report'[r] # None
    BY <1>1, <2>1, FirstRow, NotNone
  <2>3. report'[r].state = "SUBMITTED" /\ report'[r].evidence
    BY <2>1
  <2>4. Life[r] = "none" /\ Life'[r] = "SUBMITTED"
    BY <1>3, <2>2, <2>3, LifeOf
  <2>5. Private'[r] = {"text"} \cup (IF photo'[r] # None THEN {"photo"} ELSE {})
    BY <2>2, <2>3, LifeOf
  <2>6. Private'[r] \in {{"text"}, {"text", "photo"}}
    BY <2>5
  <2> QED
    BY <2>4, <2>6 DEF Moves, Promise!Arrive
<1> QED
  BY <1>2, <1>3

\* A review moves its own report, and only from the revision it was asked for.
LEMMA ReviewMoves ==
    ASSUME IInv, NEW q \in Report, NEW n \in 1..4, NEW s \in State, Review(q, n, s), NEW r \in Report
    PROVE  Moves(r)
<1>1. RowsTyped /\ report[q] \in Row /\ photo'[r] = photo[r] /\ report[q] # None
  BY Parts DEF IInv, RowsTyped, Review, InMode, Exists
<1>2. CASE r # q
  <2>1. report'[r] = report[r]
    BY <1>1, <1>2 DEF Review, RowsTyped
  <2> QED
    BY <1>1, <2>1, Stays
<1>3. CASE r = q
  <2>1. /\ report'[r] = [report[q] EXCEPT !.state = s, !.revision = @ + 1]
        /\ report'[r].state = s /\ report'[r].evidence = report[r].evidence
    BY <1>1, <1>3 DEF Review, RowsTyped, Row
  <2>2. report'[r] # None
    BY <1>1, <1>3, ReviewStep DEF Identity, Exists
  <2>3. \/ report[r].state = "SUBMITTED" /\ s = "UNDER_REVIEW"
        \/ report[r].state = "UNDER_REVIEW" /\ s \in {"APPROVED", "REJECTED"}
    BY <1>3 DEF Review, Allowed
  <2>4. Private'[r] = Private[r] /\ Life[r] = report[r].state /\ Life'[r] = s
    BY ZenonT(60), <1>1, <1>3, <2>1, <2>2, LifeOf DEF Exists
  <2> QED
    BY <2>3, <2>4 DEF Moves, Promise!Moderate
<1> QED
  BY <1>2, <1>3

\* A withdrawal ends its own report.
LEMMA WithdrawMoves ==
    ASSUME IInv, NEW t \in Thread, WithdrawCommit(t), NEW r \in Report
    PROVE  Moves(r)
<1>1. /\ RowsTyped /\ task[t].id \in Report /\ task[t].row = report[task[t].id]
      /\ report[task[t].id] # None /\ report[task[t].id].state # "WITHDRAWN"
  BY Parts DEF IInv, Minds, WithdrawCommit
<1>2. CASE r # task[t].id
  <2>1. report'[r] = report[r] /\ photo'[r] = photo[r]
    BY <1>1, <1>2 DEF WithdrawCommit, RowsTyped
  <2> QED
    BY <2>1, Stays
<1>3. CASE r = task[t].id
  <2>1. report'[r] = Erased(report[r]) /\ photo'[r] = None
    BY <1>1, <1>3 DEF WithdrawCommit, RowsTyped
  <2> QED
    BY <1>1, <1>3, <2>1, Erases DEF Exists
<1> QED
  BY <1>2, <1>3

\* A purge ends what is past its limit and leaves the rest as it is.
LEMMA PurgeMoves ==
    ASSUME IInv, NEW t \in Thread, PurgeCommit(t), NEW r \in Report
    PROVE  Moves(r)
<1>1. CASE r \in Due
  <2>1. Exists(r) /\ report[r].state # "WITHDRAWN"
    BY <1>1 DEF Due, InMode
  <2>2. report'[r] = Erased(report[r]) /\ photo'[r] = None
    BY <1>1 DEF PurgeCommit
  <2> QED
    BY <2>1, <2>2, Erases
<1>2. CASE r \notin Due
  <2>1. report'[r] = report[r] /\ photo'[r] \in {None, photo[r]}
    BY <1>2 DEF PurgeCommit
  <2>2. CASE photo'[r] = photo[r]
    BY <2>1, <2>2, Stays
  <2>3. CASE photo'[r] = None
    <3>1. Life'[r] = Life[r] /\ Private'[r] = Private[r] \ {"photo"}
      BY <2>1, <2>3, LifeOf DEF Exists
    <3> QED
      BY <3>1 DEF Moves, Promise!ForgetPhoto
  <2> QED
    BY <2>1, <2>2, <2>3
<1> QED
  BY <1>1, <1>2

\* Only these four steps write rows.
LEMMA RowWriters ==
    ASSUME [Next]_vars
    PROVE  \/ \E m \in wire : Submit(m)
           \/ \E r \in Report, n \in 1..4, s \in State : Review(r, n, s)
           \/ \E t \in Thread : WithdrawCommit(t) \/ PurgeCommit(t)
           \/ UNCHANGED <<report, photo>>
BY DEF Next, Proceed, Compose, View, ViewAudit, Serve, WithdrawLock, PurgePhotos, Fail,
       BreakDeadlock, Restart, Tick, vars, rows

\* Each step is one of a report's life, or leaves it.
LEMMA LifeStep == IInv /\ [Next]_vars => [Promise!Next]_<<Life, Private>>
<1> SUFFICES ASSUME IInv, [Next]_vars PROVE Promise!Next
  OBVIOUS
<1>1. ASSUME NEW r \in Report PROVE Moves(r)
  BY RowWriters, SubmitMoves, ReviewMoves, WithdrawMoves, PurgeMoves, Stays
<1> QED
  BY <1>1 DEF Moves, Promise!Next

\* Outside its mode a report changes by the citizen's withdrawal alone.
OtherModeRests == \A r \in Report : Exists(r) /\ report[r].mode # mode =>
    \/ report'[r] = report[r] /\ photo'[r] = photo[r]
    \/ \E t \in Thread : task[t].pc = "withdraw" /\ task[t].id = r

\* No step touches a report of the other mode.
LEMMA OtherModeStep == IInv /\ [Next]_vars => [OtherModeRests]_vars
<1> SUFFICES ASSUME IInv, [Next]_vars, NEW r \in Report, Exists(r), report[r].mode # mode
             PROVE  \/ report'[r] = report[r] /\ photo'[r] = photo[r]
                    \/ \E t \in Thread : task[t].pc = "withdraw" /\ task[t].id = r
  BY DEF OtherModeRests
<1>0. RowsTyped /\ \A t \in Thread : Minds(task[t])
  BY Parts DEF IInv
<1>1. ASSUME NEW m \in wire, Submit(m) PROVE report'[r] = report[r] /\ photo'[r] = photo[r]
  BY <1>0, <1>1 DEF Submit, Receive, RowsTyped, rows
<1>2. ASSUME NEW q \in Report, NEW n \in 1..4, NEW s \in State, Review(q, n, s)
      PROVE  report'[r] = report[r] /\ photo'[r] = photo[r]
  BY <1>0, <1>2 DEF Review, InMode, RowsTyped
<1>3. ASSUME NEW t \in Thread, WithdrawCommit(t)
      PROVE  \/ report'[r] = report[r] /\ photo'[r] = photo[r]
             \/ task[t].pc = "withdraw" /\ task[t].id = r
  BY <1>0, <1>3 DEF WithdrawCommit, RowsTyped
<1>4. ASSUME NEW t \in Thread, PurgeCommit(t)
      PROVE  report'[r] = report[r] /\ photo'[r] = photo[r]
  <2>1. r \notin Due /\ r \notin task[t].photos
    BY <1>0, <1>4 DEF Due, InMode, Minds, PurgeCommit
  <2> QED
    BY <1>4, <2>1 DEF PurgeCommit
<1> QED
  BY <1>1, <1>2, <1>3, <1>4, RowWriters

\* ReportStore keeps what a citizen is promised: moderated once, private data
\* removed together and for good, and the other mode's reports left alone.
THEOREM KeepsLife == Spec => LifeKept
<1>1. Init => Promise!Init
  BY DEF Init, Promise!Init, Life, Private, Exists
<1>2. Spec => Promise!Spec
  BY <1>1, Invariant, LifeStep, PTL DEF Spec, Promise!Spec
<1>3. Spec => [][OtherModeRests]_vars
  BY Invariant, OtherModeStep, PTL DEF Spec
<1> QED
  BY <1>2, <1>3 DEF LifeKept, OtherModeRests

-----------------------------------------------------------------------------
(* Previews and their audit.                                               *)

\* The threads that are about to hand out a preview of a report.
Looking(r) == {t \in Thread : task[t].pc = "serve" /\ task[t].id = r}

\* Each preview handed out or about to be handed out has its own entry.
Audited == \A r \in Report : served[r] + Cardinality(Looking(r)) <= views[r]

\* The threads that look at a report are finitely many, so they can be counted.
LEMMA Finite ==
    ASSUME IsFiniteSet(Thread), NEW r \in Report
    PROVE  /\ IsFiniteSet(Looking(r)) /\ Cardinality(Looking(r)) \in Nat
           /\ IsFiniteSet(Looking(r)') /\ Cardinality(Looking(r)') \in Nat
<1>1. Looking(r) \subseteq Thread /\ Looking(r)' \subseteq Thread
  BY DEF Looking
<1> QED
  BY <1>1, FS_Subset, FS_CardinalityType

\* The audit comes before the preview.
LEMMA AuditFirst ==
    ASSUME IsFiniteSet(Thread), TypeOK, Audited, NEW t \in Thread, ViewAudit(t)
    PROVE  Audited'
<1> DEFINE q == task[t].id
<1>1. /\ q \in Report /\ task[t].pc = "view" /\ task[t] \in Task
      /\ views' = [views EXCEPT ![q] = views[q] + 1] /\ served' = served
      /\ task' = [task EXCEPT ![t] = [task[t] EXCEPT !.pc = "serve"]]
  BY DEF TypeOK, ViewAudit
<1>2. /\ task'[t].pc = "serve" /\ task'[t].id = q
      /\ \A u \in Thread \ {t} : task'[u] = task[u]
  BY <1>1 DEF TypeOK, Task
<1> SUFFICES ASSUME NEW r \in Report PROVE (served[r] + Cardinality(Looking(r)) <= views[r])'
  BY DEF Audited
<1>3. served[r] + Cardinality(Looking(r)) <= views[r] /\ served[r] \in Nat /\ views[r] \in Nat
  BY DEF Audited, TypeOK
<1>4. CASE r = q
  <2>1. Looking(r)' = Looking(r) \cup {t} /\ t \notin Looking(r)
    BY <1>1, <1>2, <1>4 DEF Looking
  <2>2. Cardinality(Looking(r)') = Cardinality(Looking(r)) + 1
    BY <2>1, Finite, FS_AddElement
  <2>3. views'[r] = views[r] + 1 /\ served'[r] = served[r]
    BY <1>1, <1>4 DEF TypeOK
  <2> QED
    BY <1>3, <2>2, <2>3, Finite
<1>5. CASE r # q
  <2>1. Looking(r)' = Looking(r)
    BY <1>1, <1>2, <1>5 DEF Looking
  <2>2. views'[r] = views[r] /\ served'[r] = served[r]
    BY <1>1, <1>5 DEF TypeOK
  <2> QED
    BY <1>3, <2>1, <2>2
<1> QED
  BY <1>4, <1>5

\* A preview is handed out by a thread that was counted.
LEMMA ServeCounted ==
    ASSUME IsFiniteSet(Thread), TypeOK, Audited, NEW t \in Thread, Serve(t)
    PROVE  Audited'
<1> DEFINE q == task[t].id
<1>1. /\ q \in Report /\ task[t].pc = "serve"
      /\ served' = [served EXCEPT ![q] = served[q] + 1] /\ views' = views
      /\ task' = [task EXCEPT ![t] = Idle]
  BY DEF TypeOK, Serve
<1>2. task'[t].pc = "idle" /\ \A u \in Thread \ {t} : task'[u] = task[u]
  BY <1>1, IdleType DEF TypeOK
<1> SUFFICES ASSUME NEW r \in Report PROVE (served[r] + Cardinality(Looking(r)) <= views[r])'
  BY DEF Audited
<1>3. served[r] + Cardinality(Looking(r)) <= views[r] /\ served[r] \in Nat /\ views[r] \in Nat
  BY DEF Audited, TypeOK
<1>4. CASE r = q
  <2>1. Looking(r)' = Looking(r) \ {t} /\ t \in Looking(r)
    BY <1>1, <1>2, <1>4 DEF Looking
  <2>2. Cardinality(Looking(r)') = Cardinality(Looking(r)) - 1
    BY <2>1, Finite, FS_RemoveElement
  <2>3. served'[r] = served[r] + 1 /\ views'[r] = views[r]
    BY <1>1, <1>4 DEF TypeOK
  <2> QED
    BY <1>3, <2>2, <2>3, Finite
<1>5. CASE r # q
  <2>1. Looking(r)' = Looking(r)
    BY <1>1, <1>2, <1>5 DEF Looking
  <2>2. served'[r] = served[r] /\ views'[r] = views[r]
    BY <1>1, <1>5 DEF TypeOK
  <2> QED
    BY <1>3, <2>1, <2>2
<1> QED
  BY <1>4, <1>5

\* No other step brings a thread closer to handing out a preview.
LEMMA NoLooker ==
    ASSUME IsFiniteSet(Thread), TypeOK, Audited, UNCHANGED looks,
           \A t \in Thread : task'[t] = task[t] \/ task'[t].pc # "serve"
    PROVE  Audited'
<1> SUFFICES ASSUME NEW r \in Report PROVE (served[r] + Cardinality(Looking(r)) <= views[r])'
  BY DEF Audited
<1>1. Looking(r)' \subseteq Looking(r)
  BY DEF Looking
<1>2. Cardinality(Looking(r)') <= Cardinality(Looking(r))
  BY <1>1, Finite, FS_Subset
<1>3. served[r] + Cardinality(Looking(r)) <= views[r] /\ served[r] \in Nat /\ views[r] \in Nat
  BY DEF Audited, TypeOK
<1> QED
  BY <1>2, <1>3, Finite DEF looks

\* Each step keeps what the audit owes to the previews under way.
LEMMA AuditStep ==
    ASSUME IsFiniteSet(Thread), TypeOK, Audited, [Next]_vars
    PROVE  Audited'
<1>1. CASE \E t \in Thread : ViewAudit(t) \/ Serve(t)
  BY <1>1, AuditFirst, ServeCounted
<1>2. CASE ~\E t \in Thread : ViewAudit(t) \/ Serve(t)
  <2>1. UNCHANGED looks
    BY <1>2 DEF Next, Proceed, Compose, Submit, Review, View, WithdrawLock, WithdrawCommit,
       PurgePhotos, PurgeCommit, Fail, BreakDeadlock, Restart, Tick, vars
  <2>2. \A u \in Thread : task'[u] = task[u] \/ task'[u].pc # "serve"
    <3>0. task \in [Thread -> Task] /\ Idle.pc # "serve"
      BY IdleType DEF TypeOK
    <3>1. ASSUME NEW t \in Thread, NEW r \in Report, View(t, r) \/ WithdrawLock(t, r)
          PROVE  \A u \in Thread : task'[u] = task[u] \/ task'[u].pc # "serve"
      BY <3>0, <3>1 DEF View, WithdrawLock, Idle
    <3>2. ASSUME NEW t \in Thread,
                 \/ PurgePhotos(t) \/ WithdrawCommit(t) \/ PurgeCommit(t)
                 \/ Fail(t) \/ BreakDeadlock(t)
          PROVE  \A u \in Thread : task'[u] = task[u] \/ task'[u].pc # "serve"
      BY <3>0, <3>2 DEF PurgePhotos, WithdrawCommit, PurgeCommit, Fail, BreakDeadlock, Idle
    <3>3. ASSUME Restart PROVE \A u \in Thread : task'[u].pc # "serve"
      BY <3>0, <3>3 DEF Restart
    <3> QED
      BY <1>2, <3>1, <3>2, <3>3 DEF Next, Proceed, Compose, Submit, Review, Tick, vars
  <2> QED
    BY <2>1, <2>2, NoLooker
<1> QED
  BY <1>1, <1>2

\* ReportStore.photo hands out no preview without its entry in the audit.
THEOREM ViewsCounted == ASSUME IsFiniteSet(Thread) PROVE Spec => []ServedAreAudited
<1>1. Init => Audited
  <2> SUFFICES ASSUME Init, NEW r \in Report PROVE served[r] + Cardinality(Looking(r)) <= views[r]
    BY DEF Audited
  <2>1. Looking(r) = {}
    BY IdleType DEF Init, Looking
  <2> QED
    BY <2>1, FS_EmptySet DEF Init
<1>2. TypeOK /\ Audited /\ [Next]_vars => Audited'
  BY AuditStep
<1>3. TypeOK /\ Audited => ServedAreAudited
  <2> SUFFICES ASSUME TypeOK, Audited, NEW r \in Report PROVE served[r] <= views[r]
    BY DEF ServedAreAudited
  <2> QED
    BY Finite DEF Audited, TypeOK
<1> QED
  BY <1>1, <1>2, <1>3, TypeCorrect, PTL DEF Spec

=============================================================================
