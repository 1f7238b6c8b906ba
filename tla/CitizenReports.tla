---------------------------- MODULE CitizenReports ----------------------------
(***************************************************************************)
(* Private citizen reports and their moderation: backend/app/reports.py.   *)
(*                                                                         *)
(* A page sends a report under a random token, and sends it again when it  *)
(* hears nothing; delayed copies arrive whenever they like.  An            *)
(* administrator moderates what a page loaded earlier showed, looks at the *)
(* photo and removes expired evidence, while the citizen may withdraw.     *)
(* Review and submission are one locked transaction each; withdrawing,     *)
(* purging and viewing a photo are split where another transaction can     *)
(* come in between or where they wait for each other's rows.               *)
(***************************************************************************)
EXTENDS Naturals, Sequences, FiniteSets

CONSTANTS
    Report,     \* request_id values of the pages
    Content,    \* contents a report may have
    WithPhoto,  \* the contents with a photo
    Thread,
    Modes,      \* values of SHELTER_DIRECTORY_MODE across restarts
    PhotoLife,  \* days a photo is kept: 7
    ReportLifetime, \* days private text and position are kept: 30
    MaxClock,   \* bound: days that pass
    MaxViews,   \* bound: photo previews audited
    MaxSends,   \* bound: different submissions sent
    None

ASSUME ReportAssumption ==
    /\ WithPhoto \subseteq Content
    /\ PhotoLife \in Nat \ {0} /\ ReportLifetime \in Nat /\ PhotoLife < ReportLifetime
    /\ MaxClock \in Nat /\ MaxViews \in Nat /\ MaxSends \in Nat
    /\ Modes # {}

State == {"SUBMITTED", "UNDER_REVIEW", "APPROVED", "REJECTED", "WITHDRAWN"}

\* A row of citizen_reports: sha is what payload_sha256 is the hash of, and
\* evidence says whether description and position are still there.
Row == [state : State, revision : 1..4, sha : Content, evidence : BOOLEAN,
        mode : Modes, received : 0..MaxClock]

ASSUME NoneAssumption == None \notin Row \cup State \cup 0..(MaxClock + PhotoLife)

VARIABLES
    clock,    \* days
    mode,     \* SHELTER_DIRECTORY_MODE of the running server
    wire,     \* submissions sent, which the server may get at any time, again
    receipts, \* [id, content] acknowledged to the citizen
    report,   \* citizen_reports (with citizen_report_positions), or None
    photo,    \* citizen_report_images: when the photo expires, or None
    trail,    \* citizen_report_audit, transitions of state in commit order
    views,    \* citizen_report_audit, photo previews
    served,   \* previews administrators received
    task      \* what each request thread is doing

client == <<wire, receipts>>
rows == <<report, photo, trail>>
looks == <<views, served>>
vars == <<clock, mode, client, rows, looks, task>>

-----------------------------------------------------------------------------
Idle == [pc |-> "idle", id |-> None, row |-> None, photos |-> {}]

Exists(r) == report[r] # None
InMode(r) == Exists(r) /\ report[r].mode = mode

\* Mutant: rows are read without FOR UPDATE.
NeverLocked(r) == FALSE

\* A withdrawal holds the row's lock (SELECT ... FOR UPDATE).
Locked(r) == \E t \in Thread : task[t].pc = "withdraw" /\ task[t].id = r

\* A purge has deleted the photo and not committed.
PhotoHeld(r, t) == \E u \in Thread \ {t} : task[u].pc = "purge" /\ r \in task[u].photos

Log(r, before, after) == trail' = [trail EXCEPT ![r] = Append(@, [before |-> before, after |-> after])]

\* erase: text, position and photo go with the state.
Erased(row) == [row EXCEPT !.state = "WITHDRAWN", !.revision = @ + 1, !.evidence = FALSE]

Init ==
    /\ clock = 0 /\ mode \in Modes
    /\ wire = {} /\ receipts = {}
    /\ report = [r \in Report |-> None] /\ photo = [r \in Report |-> None]
    /\ trail = [r \in Report |-> <<>>]
    /\ views = [r \in Report |-> 0] /\ served = [r \in Report |-> 0]
    /\ task = [t \in Thread |-> Idle]

-----------------------------------------------------------------------------
(* Submission.                                                             *)

\* A page sends a report; its observation and position are of today.
Compose(r, c) ==
    /\ Cardinality(wire) < MaxSends
    /\ wire' = wire \cup {[id |-> r, content |-> c, at |-> clock]}
    /\ UNCHANGED <<clock, mode, receipts, rows, looks, task>>

Receive(m) ==
    /\ report' = [report EXCEPT ![m.id] =
          [state |-> "SUBMITTED", revision |-> 1, sha |-> m.content, evidence |-> TRUE,
           mode |-> mode, received |-> clock]]
    /\ photo' = [photo EXCEPT ![m.id] = IF m.content \in WithPhoto THEN clock + PhotoLife ELSE None]
    /\ Log(m.id, None, "SUBMITTED")

\* Mutant: a known token is enough for a receipt.
SubmitUnchecked(m) ==
    /\ \/ Exists(m.id) /\ UNCHANGED rows
       \/ ~Exists(m.id) /\ m.at = clock /\ Receive(m)
    /\ receipts' \in {receipts, receipts \cup {[id |-> m.id, content |-> m.content]}}
    /\ UNCHANGED <<clock, mode, wire, looks, task>>

\* submit, under the advisory lock of the token: a repeated submission gets
\* its receipt again at any time, a new one must be fresh.  The receipt may
\* get lost; a refusal changes nothing.
Submit(m) ==
    /\ \/ Exists(m.id) /\ report[m.id].sha = m.content /\ UNCHANGED rows
       \/ ~Exists(m.id) /\ m.at = clock /\ Receive(m)
    /\ receipts' \in {receipts, receipts \cup {[id |-> m.id, content |-> m.content]}}
    /\ UNCHANGED <<clock, mode, wire, looks, task>>

-----------------------------------------------------------------------------
(* Moderation.                                                             *)

Allowed(from) == CASE from = "SUBMITTED" -> {"UNDER_REVIEW"}
                   [] from = "UNDER_REVIEW" -> {"APPROVED", "REJECTED"}
                   [] OTHER -> {}

\* review, asked for from a page that showed some revision of the report.
Review(r, revision, state) ==
    /\ InMode(r) /\ ~Locked(r)
    /\ revision = report[r].revision
    /\ state \in Allowed(report[r].state)
    /\ report' = [report EXCEPT ![r] = [report[r] EXCEPT !.state = state, !.revision = @ + 1]]
    /\ Log(r, report[r].state, state)
    /\ UNCHANGED <<clock, mode, client, photo, looks, task>>

-----------------------------------------------------------------------------
(* Looking at the photo.                                                   *)

\* The preview is read.
View(t, r) ==
    /\ task[t] = Idle /\ views[r] < MaxViews
    /\ InMode(r) /\ report[r].state # "WITHDRAWN"
    /\ photo[r] # None /\ clock < photo[r]
    /\ task' = [task EXCEPT ![t] = [Idle EXCEPT !.pc = "view", !.id = r]]
    /\ UNCHANGED <<clock, mode, client, rows, looks>>

\* Mutant: the preview is returned before its audit row is committed.
ViewUnaudited(t) ==
    /\ task[t].pc = "view"
    /\ task' = [task EXCEPT ![t] = [task[t] EXCEPT !.pc = "serve"]]
    /\ UNCHANGED <<clock, mode, client, rows, looks>>

\* The audit row is committed; its reference to the report waits for the row's
\* lock.
ViewAudit(t) ==
    /\ task[t].pc = "view" /\ ~Locked(task[t].id)
    /\ views[task[t].id] < MaxViews
    /\ views' = [views EXCEPT ![task[t].id] = @ + 1]
    /\ task' = [task EXCEPT ![t] = [task[t] EXCEPT !.pc = "serve"]]
    /\ UNCHANGED <<clock, mode, client, rows, served>>

\* The administrator receives the preview.
Serve(t) ==
    /\ task[t].pc = "serve"
    /\ served' = [served EXCEPT ![task[t].id] = @ + 1]
    /\ task' = [task EXCEPT ![t] = Idle]
    /\ UNCHANGED <<clock, mode, client, rows, views>>

-----------------------------------------------------------------------------
(* Withdrawal and retention.                                               *)

\* withdraw locks and reads the row; whoever has a receipt has the secret.
WithdrawLock(t, r) ==
    /\ task[t] = Idle
    /\ \E x \in receipts : x.id = r
    /\ report[r].state # "WITHDRAWN" /\ ~Locked(r)
    /\ task' = [task EXCEPT ![t] = [Idle EXCEPT !.pc = "withdraw", !.id = r, !.row = report[r]]]
    /\ UNCHANGED <<clock, mode, client, rows, looks>>

\* Mutant: withdrawing leaves the photo to the next purge.
WithdrawTextOnly(t) ==
    LET r == task[t].id IN
    /\ task[t].pc = "withdraw"
    /\ report' = [report EXCEPT ![r] = Erased(task[t].row)]
    /\ Log(r, task[t].row.state, "WITHDRAWN")
    /\ task' = [task EXCEPT ![t] = Idle]
    /\ UNCHANGED <<clock, mode, client, photo, looks>>

\* Deleting the photo waits for a purge that is deleting it.
WithdrawCommit(t) ==
    LET r == task[t].id IN
    /\ task[t].pc = "withdraw"
    /\ photo[r] # None => ~PhotoHeld(r, t)
    /\ report' = [report EXCEPT ![r] = Erased(task[t].row)]
    /\ photo' = [photo EXCEPT ![r] = None]
    /\ Log(r, task[t].row.state, "WITHDRAWN")
    /\ task' = [task EXCEPT ![t] = Idle]
    /\ UNCHANGED <<clock, mode, client, looks>>

Expired == {r \in Report : InMode(r) /\ photo[r] # None /\ photo[r] <= clock}

Due == {r \in Report : /\ InMode(r) /\ report[r].state # "WITHDRAWN"
                       /\ report[r].received + ReportLifetime <= clock}

\* purge deletes the expired photos and keeps them locked until it commits.
PurgePhotos(t) ==
    /\ task[t] = Idle
    /\ \A r \in Expired : ~PhotoHeld(r, t)
    /\ task' = [task EXCEPT ![t] = [Idle EXCEPT !.pc = "purge", !.photos = Expired]]
    /\ UNCHANGED <<clock, mode, client, rows, looks>>

\* Mutant: a purge without a report to erase does not commit.
PurgeNothing(t) ==
    LET gone == task[t].photos \cup Due IN
    /\ task[t].pc = "purge" /\ Due # {}
    /\ \A r \in Due : ~Locked(r) /\ (photo[r] # None => ~PhotoHeld(r, t))
    /\ report' = [r \in Report |-> IF r \in Due THEN Erased(report[r]) ELSE report[r]]
    /\ photo' = [r \in Report |-> IF r \in gone THEN None ELSE photo[r]]
    /\ trail' = [r \in Report |-> IF r \in Due
                    THEN Append(trail[r], [before |-> report[r].state, after |-> "WITHDRAWN"])
                    ELSE trail[r]]
    /\ task' = [task EXCEPT ![t] = Idle]
    /\ UNCHANGED <<clock, mode, client, looks>>

\* It then locks and erases every report that is due, and commits.
PurgeCommit(t) ==
    LET gone == task[t].photos \cup Due IN
    /\ task[t].pc = "purge"
    /\ \A r \in Due : ~Locked(r) /\ (photo[r] # None => ~PhotoHeld(r, t))
    /\ report' = [r \in Report |-> IF r \in Due THEN Erased(report[r]) ELSE report[r]]
    /\ photo' = [r \in Report |-> IF r \in gone THEN None ELSE photo[r]]
    /\ trail' = [r \in Report |-> IF r \in Due
                    THEN Append(trail[r], [before |-> report[r].state, after |-> "WITHDRAWN"])
                    ELSE trail[r]]
    /\ task' = [task EXCEPT ![t] = Idle]
    /\ UNCHANGED <<clock, mode, client, looks>>

-----------------------------------------------------------------------------
(* The surroundings.                                                       *)

\* A database error or a dead thread: the transaction rolls back.
Fail(t) ==
    /\ task[t] # Idle
    /\ task' = [task EXCEPT ![t] = Idle]
    /\ UNCHANGED <<clock, mode, client, rows, looks>>

\* A withdrawal waits for a photo a purge deleted, and the purge for its row.
Deadlocked(t) ==
    /\ task[t].pc = "withdraw" /\ photo[task[t].id] # None
    /\ PhotoHeld(task[t].id, t) /\ task[t].id \in Due

\* PostgreSQL's deadlock detector ends one of the two.
BreakDeadlock(t) ==
    /\ Deadlocked(t)
    /\ \E u \in Thread : /\ u = t \/ (task[u].pc = "purge" /\ task[t].id \in task[u].photos)
                         /\ task' = [task EXCEPT ![u] = Idle]
    /\ UNCHANGED <<clock, mode, client, rows, looks>>

Restart ==
    /\ mode' \in Modes
    /\ task' = [t \in Thread |-> Idle]
    /\ UNCHANGED <<clock, client, rows, looks>>

Tick ==
    /\ clock < MaxClock /\ clock' = clock + 1
    /\ UNCHANGED <<mode, client, rows, looks, task>>

Proceed(t) == ViewAudit(t) \/ Serve(t) \/ WithdrawCommit(t) \/ PurgeCommit(t)

Next ==
    \/ \E r \in Report, c \in Content : Compose(r, c)
    \/ \E m \in wire : Submit(m)
    \/ \E r \in Report, n \in 1..4, s \in State : Review(r, n, s)
    \/ \E t \in Thread, r \in Report : View(t, r) \/ WithdrawLock(t, r)
    \/ \E t \in Thread : PurgePhotos(t) \/ Proceed(t) \/ Fail(t) \/ BreakDeadlock(t)
    \/ Restart \/ Tick

Spec == Init /\ [][Next]_vars

\* Threads run, the database grants a row's lock in the order it was asked for
\* (hence strong fairness) and resolves deadlocks; nothing else has to happen.
FairSpec == Spec /\ \A t \in Thread : SF_vars(Proceed(t)) /\ WF_vars(BreakDeadlock(t))

-----------------------------------------------------------------------------
(* Properties.                                                             *)

Task == [pc : {"idle", "view", "serve", "withdraw", "purge"}, id : Report \cup {None},
         row : Row \cup {None}, photos : SUBSET Report]

\* Every row, page and thread has its shape; a report is moderated at most
\* twice before it is withdrawn, so its revision stays below five.
TypeOK ==
    /\ clock \in 0..MaxClock /\ mode \in Modes
    /\ wire \subseteq [id : Report, content : Content, at : 0..MaxClock]
    /\ receipts \subseteq [id : Report, content : Content]
    /\ report \in [Report -> Row \cup {None}]
    /\ photo \in [Report -> 0..(MaxClock + PhotoLife) \cup {None}]
    /\ trail \in [Report -> Seq([before : State \cup {None}, after : State])]
    /\ views \in [Report -> Nat] /\ served \in [Report -> Nat]
    /\ task \in [Thread -> Task]
    /\ \A t \in Thread : task[t].pc \in {"view", "serve", "withdraw"} => task[t].id \in Report

\* The audit trail explains the row: it starts with the submission, each
\* transition starts where the one before ended, the last one gives the state,
\* and the revision counts them, however withdrawals, purges and reviews meet.
TrailIsChain ==
    \A r \in Report :
        IF ~Exists(r) THEN trail[r] = <<>>
        ELSE LET n == Len(trail[r]) IN
             /\ n = report[r].revision
             /\ trail[r][1].before = None /\ trail[r][n].after = report[r].state
             /\ \A i \in 1..(n-1) : trail[r][i+1].before = trail[r][i].after

\* A citizen is told that a report was recorded only if that very content was:
\* one token never acknowledges two contents, whatever copies arrive late.
ReceiptsHonest == \A x \in receipts : Exists(x.id) /\ report[x.id].sha = x.content

\* No preview reaches an administrator without its row in the audit.
ServedAreAudited == \A r \in Report : served[r] <= views[r]

Life == [r \in Report |-> IF Exists(r) THEN report[r].state ELSE "none"]
Private == [r \in Report |-> (IF Exists(r) /\ report[r].evidence THEN {"text"} ELSE {})
                             \cup (IF photo[r] # None THEN {"photo"} ELSE {})]
Promise == INSTANCE ReportLife WITH life <- Life, private <- Private

\* The life a report was promised: private data go together and for good; and a
\* report of the other mode is only ever changed by the citizen's withdrawal.
LifeKept ==
    /\ Promise!Spec
    /\ [][\A r \in Report : Exists(r) /\ report[r].mode # mode =>
             \/ report'[r] = report[r] /\ photo'[r] = photo[r]
             \/ \E t \in Thread : task[t].pc = "withdraw" /\ task[t].id = r]_vars

\* A withdrawal or purge that began ends, in a commit or an error, also when
\* they wait for each other.
ErasureEnds ==
    \A t \in Thread : (task[t].pc \in {"withdraw", "purge"}) ~> (task[t].pc \notin {"withdraw", "purge"})
=============================================================================
