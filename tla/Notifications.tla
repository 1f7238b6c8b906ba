---------------------------- MODULE Notifications ----------------------------
(***************************************************************************)
(* Administrator-approved alerts: backend/app/notifications.py.            *)
(*                                                                         *)
(* An administrator previews a message (create), reviews it and approves   *)
(* it (claim); the claim is committed before Telegram is called (send),    *)
(* each recipient's result is committed (delivery) and finally the outcome *)
(* (finish, finish_district).  Requests run in threads, may be repeated    *)
(* after a lost response, and may die at any step.  Subscriptions, the     *)
(* shelter, the configuration and the clock change underneath.             *)
(***************************************************************************)
EXTENDS Naturals, FiniteSets

CONSTANTS
    Admin,      \* administrators
    Request,    \* request_id values they choose for a preview
    Key,        \* subscribers of the district
    Operator,   \* the chat of the configured private destination
    Thread,     \* request threads
    Payloads,   \* drafts composed: [target, shelter]
    Configs,    \* Telegram configurations the server may be restarted with
    Shelters,   \* contents of the shelter's public record while verified open
    None,
    Limit,      \* attempts per window: 20
    Window,     \* length of a budget window in ticks: 15 minutes
    Hour,       \* for how long sign-ins keep rows of attempts at least, in ticks
    Patience,   \* until the lock and the statements under it are waited for, in ticks
    Expiry,     \* lifetime of a preview in ticks: 30 minutes
    MaxRecipients, \* MAX_DISTRICT_RECIPIENTS
    MaxClock    \* bound: ticks that pass

\* created_by and request_id together are unique and name the notification.
Id == Admin \X Request
Recipient == Key \cup {Operator}
Content == [target : {"district", "direct"}, shelter : Shelters \cup {None}, config : Configs]

\* TelegramSender.send's results; a refusal with code 403 is told apart.
Result == {"accepted", "rejected", "blocked", "delivery_unknown"}
Settled == {"accepted", "rejected", "delivery_unknown"}

\* A row of admin_notifications with its district_notifications count.
Note == [content : Content, createdAt : 0..MaxClock,
         status : {"draft", "sending"} \cup Settled,
         attemptedAt : 0..MaxClock \cup {None}, recipients : Nat \cup {None}]

ASSUME NotificationAssumption ==
    /\ Payloads \subseteq [target : {"district", "direct"}, shelter : BOOLEAN]
    /\ Operator \notin Key /\ IsFiniteSet(Key)
    /\ None \notin 0..MaxClock /\ None \notin Note /\ None \notin Result
    /\ None \notin [start : 0..MaxClock, attempts : Nat]
    /\ Limit \in Nat /\ Window \in Nat \ {0} /\ Expiry \in Nat
    /\ Hour \in Nat /\ Patience \in Nat /\ Patience + Window <= Hour
    /\ MaxRecipients \in Nat /\ MaxClock \in Nat

VARIABLES
    clock,
    config,      \* the configuration: token, destinations and labels
    shelter,     \* what available_shelter returns, None when not verified open
    consent,     \* subscribers, and Operator while opted in
    note,        \* admin_notifications with district_notifications, or None
    deliveries,  \* telegram_district_deliveries
    bucket,      \* the limits row 'telegram-dispatch-global', or None
    missed,      \* history: messages whose attempt was not counted
    dead,        \* history: messages whose thread died before they were settled
    task,        \* what each thread is doing
    handed       \* how often Telegram was asked to deliver each message

outside == <<config, shelter>>
ledger == <<bucket, missed, dead>>
vars == <<clock, outside, consent, note, deliveries, ledger, task, handed>>

-----------------------------------------------------------------------------
NoResults == [r \in Recipient |-> None]
Idle == [pc |-> "idle", id |-> None, content |-> None, at |-> 0, row |-> FALSE,
         targets |-> {}, results |-> NoResults]

StartOf(t) == Window * (t \div Window)

\* Exactly the recipients the message goes to if it is approved now.
Targets(content) == IF content.target = "district" THEN consent \cap Key
                    ELSE consent \cap {Operator}

\* with_for_update: another claim of the row has not committed yet.
RowLocked(id) == \E t \in Thread : task[t].pc \in {"check", "claim", "count"} /\ task[t].id = id

Init ==
    /\ clock = 0 /\ config \in Configs /\ shelter \in Shelters \cup {None}
    /\ consent \in SUBSET Recipient
    /\ note = [id \in Id |-> None]
    /\ deliveries = [id \in Id |-> NoResults]
    /\ bucket = None /\ missed = {} /\ dead = {}
    /\ task = [t \in Thread |-> Idle]
    /\ handed = [id \in Id |-> [r \in Recipient |-> 0]]

-----------------------------------------------------------------------------
(* Preview: NotificationStore.create.                                      *)

\* Reads the configuration and the shelter before the transaction begins.
Preview(t, id, p) ==
    /\ task[t] = Idle
    /\ p.shelter => shelter # None
    /\ task' = [task EXCEPT ![t] = [Idle EXCEPT
           !.pc = "preview", !.id = id,
           !.content = [target |-> p.target, config |-> config,
                        shelter |-> IF p.shelter THEN shelter ELSE None]]]
    /\ UNCHANGED <<clock, outside, consent, note, deliveries, ledger, handed>>

\* One transaction: a repeated request finds its own draft, or is refused when
\* the content is another by now.
Draft(t) ==
    /\ task[t].pc = "preview"
    /\ Targets(task[t].content) # {}
    /\ note' = IF note[task[t].id] # None THEN note
               ELSE [note EXCEPT ![task[t].id] =
                       [content |-> task[t].content, createdAt |-> clock,
                        status |-> "draft", attemptedAt |-> None, recipients |-> None]]
    /\ task' = [task EXCEPT ![t] = Idle]
    /\ UNCHANGED <<clock, outside, consent, deliveries, ledger, handed>>

-----------------------------------------------------------------------------
(* Approval: NotificationStore.claim.                                      *)

\* Mutant: an attempt that died may be approved again.
ClaimedIsFree(id) == note[id].status \in {"draft", "sending"}

\* A message is claimed once: the check, and the condition of the update.
Unclaimed(id) == note[id].status = "draft"

\* Mutant: the fingerprint and label of the destination are not compared.
AnyConfiguration(id, admin, content) ==
    /\ note[id] # None
    /\ id[1] = admin /\ note[id].content = content
    /\ Unclaimed(id)
    /\ clock < note[id].createdAt + Expiry
    /\ Targets(content) # {} /\ Cardinality(Targets(content)) <= MaxRecipients

\* The draft is what the composing administrator reviewed, and may still go out.
Claimable(id, admin, content) ==
    /\ note[id] # None
    /\ id[1] = admin /\ note[id].content = content
    /\ Unclaimed(id)
    /\ clock < note[id].createdAt + Expiry
    /\ content.config = config
    /\ Targets(content) # {} /\ Cardinality(Targets(content)) <= MaxRecipients

\* claim locks the row, checks it and fixes the recipients.  A refused
\* approval, and one of a message claimed before, changes nothing.
Approve(t, id, admin, content) ==
    /\ task[t] = Idle /\ ~RowLocked(id)
    /\ Claimable(id, admin, content)
    /\ task' = [task EXCEPT ![t] = [Idle EXCEPT
           !.pc = "check", !.id = id, !.content = content, !.targets = Targets(content)]]
    /\ UNCHANGED <<clock, outside, consent, note, deliveries, ledger, handed>>

\* Then the shelter is read again, on a connection of its own, and the time of
\* the claim is taken.
Stamp(t) ==
    /\ task[t].pc = "check"
    /\ task[t].content.shelter \in {None, shelter}
    /\ task' = [task EXCEPT ![t] = [task[t] EXCEPT !.pc = "claim", !.at = clock]]
    /\ UNCHANGED <<clock, outside, consent, note, deliveries, ledger, handed>>

\* Mutant: the counted attempts are never found again.
Uncounted(start) == 0

\* Attempts counted so far in the window that began at start.
Counted(start) == IF bucket # None /\ bucket.start = start THEN bucket.attempts ELSE 0

\* Under advisory lock 814211, which it keeps: the row of the budget is looked up.
Look(t) ==
    /\ task[t].pc = "claim" /\ \A u \in Thread : task[u].pc # "count"
    /\ Counted(StartOf(task[t].at)) < Limit
    /\ task' = [task EXCEPT ![t] = [task[t] EXCEPT !.pc = "count", !.row = (bucket # None)]]
    /\ UNCHANGED <<clock, outside, consent, note, deliveries, ledger, handed>>

\* A row that was found and has been purged since: its update changes nothing.
Gone(t) == task[t].row /\ bucket = None

\* Count the attempt and commit the claim.
Commit(t) ==
    LET start == StartOf(task[t].at)
        id == task[t].id
    IN
    /\ task[t].pc = "count" /\ Unclaimed(id)
    /\ bucket' = IF Gone(t) THEN None ELSE [start |-> start, attempts |-> Counted(start) + 1]
    /\ missed' = IF Gone(t) THEN missed \cup {id} ELSE missed
    /\ note' = [note EXCEPT ![id] = [note[id] EXCEPT
           !.status = "sending", !.attemptedAt = task[t].at,
           !.recipients = Cardinality(task[t].targets)]]
    /\ task' = [task EXCEPT ![t].pc = "sending"]
    /\ UNCHANGED <<clock, outside, consent, deliveries, dead, handed>>

-----------------------------------------------------------------------------
(* Dispatch: the send endpoint.                                            *)

\* sender.send: Telegram is asked once and its answer kept in memory.
Hand(t, r, result) ==
    /\ task[t].pc = "sending" /\ r \in task[t].targets
    /\ handed' = [handed EXCEPT ![task[t].id][r] = @ + 1]
    /\ task' = [task EXCEPT ![t] = [task[t] EXCEPT
           !.targets = @ \ {r}, !.results = [@ EXCEPT ![r] = result],
           !.pc = IF task[t].content.target = "district" THEN "record" ELSE "finish"]]
    /\ UNCHANGED <<clock, outside, consent, note, deliveries, ledger>>

\* The recipient whose result the thread has not recorded yet.
Unrecorded(t) == {r \in Key : /\ task[t].results[r] # None
                              /\ deliveries[task[t].id][r] = None}

\* Mutant: a blocked person is forgotten instead of being recorded.
BlockedUnrecorded(t) ==
    /\ task[t].pc = "record"
    /\ \E r \in Unrecorded(t) :
          IF task[t].results[r] = "blocked"
          THEN consent' = consent \ {r} /\ UNCHANGED deliveries
          ELSE /\ deliveries' = [deliveries EXCEPT ![task[t].id][r] = task[t].results[r]]
               /\ UNCHANGED consent
    /\ task' = [task EXCEPT ![t].pc = IF task[t].targets = {} THEN "finish" ELSE "sending"]
    /\ UNCHANGED <<clock, outside, note, ledger, handed>>

\* Mutant: the loop over the recipients does not end.
RecordForEver(t) ==
    /\ task[t].pc = "record"
    /\ \E r \in Unrecorded(t) :
          deliveries' = [deliveries EXCEPT ![task[t].id][r] = task[t].results[r]]
    /\ task' = [task EXCEPT ![t].pc = "sending"]
    /\ UNCHANGED <<clock, outside, consent, note, ledger, handed>>

\* delivery: the result is committed; a blocked person's chat ID is deleted.
Record(t) ==
    /\ task[t].pc = "record"
    /\ \E r \in Unrecorded(t) :
          /\ deliveries' = [deliveries EXCEPT ![task[t].id][r] = task[t].results[r]]
          /\ consent' = IF task[t].results[r] = "blocked" THEN consent \ {r} ELSE consent
    /\ task' = [task EXCEPT ![t].pc = IF task[t].targets = {} THEN "finish" ELSE "sending"]
    /\ UNCHANGED <<clock, outside, note, ledger, handed>>

\* Mutant: a refusal is passed on as Telegram worded it.
RawOutcome(results) ==
    LET values == {results[r] : r \in Recipient} IN
    IF "accepted" \in values THEN "accepted" ELSE CHOOSE v \in values : v # None

\* What finish and finish_district write: any doubt makes the whole uncertain.
Outcome(results) ==
    LET values == {results[r] : r \in Recipient} IN
    IF "delivery_unknown" \in values THEN "delivery_unknown"
    ELSE IF "accepted" \in values THEN "accepted" ELSE "rejected"

Finish(t) ==
    /\ task[t].pc = "finish" /\ note[task[t].id].status = "sending"
    /\ note' = [note EXCEPT ![task[t].id].status = Outcome(task[t].results)]
    /\ task' = [task EXCEPT ![t] = Idle]
    /\ UNCHANGED <<clock, outside, consent, deliveries, ledger, handed>>

\* The messages that some of the threads have claimed and not settled.
Served(threads) ==
    {task[t].id : t \in {u \in threads : task[u].pc \in {"sending", "record", "finish"}}}

\* The thread gives up: a refusal (429, 409), a database error (503), a crash.
\* The transaction under way rolls back; nothing is ever resumed.
Fail(t) ==
    /\ task[t] # Idle
    /\ task' = [task EXCEPT ![t] = Idle]
    /\ dead' = dead \cup Served({t})
    /\ UNCHANGED <<clock, outside, consent, note, deliveries, bucket, missed, handed>>

-----------------------------------------------------------------------------
(* The surroundings.                                                       *)

Tick ==
    /\ clock < MaxClock /\ clock' = clock + 1
    /\ \A t \in Thread : task[t].pc \in {"claim", "count"} => task[t].at + Patience > clock
    /\ UNCHANGED <<outside, consent, note, deliveries, ledger, task, handed>>

\* Somebody subscribes or stops (DistrictSubscriptions).
Consent(r) ==
    /\ consent' = IF r \in consent THEN consent \ {r} ELSE consent \cup {r}
    /\ UNCHANGED <<clock, outside, note, deliveries, ledger, task, handed>>

\* The shelter's record changes or stops being verified open (ShelterRecords).
ShelterChange(s) ==
    /\ s # shelter /\ shelter' = s
    /\ UNCHANGED <<clock, config, consent, note, deliveries, ledger, task, handed>>

\* A sign-in deletes rows of over an hour ago, under a lock of its own (Accounts).
Purge ==
    /\ bucket # None /\ bucket.start + Hour < StartOf(clock)
    /\ bucket' = None
    /\ UNCHANGED <<clock, outside, consent, note, deliveries, missed, dead, task, handed>>

\* The server is restarted with another configuration.
Reconfigure(c) ==
    /\ c # config /\ config' = c
    /\ task' = [t \in Thread |-> Idle]
    /\ dead' = dead \cup Served(Thread)
    /\ UNCHANGED <<clock, shelter, consent, note, deliveries, bucket, missed, handed>>

Serve(t) ==
    \/ Draft(t) \/ Stamp(t) \/ Look(t) \/ Commit(t) \/ Record(t) \/ Finish(t)
    \/ \E r \in Recipient, result \in Result : Hand(t, r, result)

Next ==
    \/ \E t \in Thread, id \in Id :
          \/ \E p \in Payloads : Preview(t, id, p)
          \/ \E a \in Admin, c \in Content : Approve(t, id, a, c)
    \/ \E t \in Thread : Serve(t) \/ Fail(t)
    \/ \E r \in Recipient : Consent(r)
    \/ \E s \in Shelters \cup {None} : ShelterChange(s)
    \/ \E c \in Configs : Reconfigure(c)
    \/ Purge \/ Tick

Spec == Init /\ [][Next]_vars

\* A thread that serves a request goes on, unless it dies.
FairSpec == Spec /\ \A t \in Thread : WF_vars(Serve(t))

-----------------------------------------------------------------------------
(* Properties.                                                             *)

Task == [pc : {"idle", "preview", "check", "claim", "count", "sending", "record", "finish"},
         id : Id \cup {None}, content : Content \cup {None}, at : 0..MaxClock, row : BOOLEAN,
         targets : SUBSET Recipient, results : [Recipient -> Result \cup {None}]]

\* Every row and every thread has its shape, and a busy thread has a message.
TypeOK ==
    /\ clock \in 0..MaxClock /\ config \in Configs /\ shelter \in Shelters \cup {None}
    /\ consent \subseteq Recipient
    /\ note \in [Id -> Note \cup {None}]
    /\ deliveries \in [Id -> [Recipient -> Result \cup {None}]]
    /\ bucket = None \/ bucket \in [start : 0..MaxClock, attempts : Nat]
    /\ missed \subseteq Id /\ dead \subseteq Id
    /\ task \in [Thread -> Task]
    /\ \A t \in Thread : task[t] # Idle => task[t].id \in Id /\ task[t].content \in Content
    /\ handed \in [Id -> [Recipient -> Nat]]

\* Nobody is sent the same approved message twice, however requests repeat,
\* overlap, time out or die.
AtMostOnce == \A id \in Id, r \in Recipient : handed[id][r] <= 1

\* A settled broadcast has a row for each of its recipients and for nobody
\* else, everyone with a row was contacted, and its status is what the rows say.
SettledIsComplete ==
    \A id \in Id : note[id] # None /\ note[id].content.target = "district" =>
        LET rows == {r \in Recipient : deliveries[id][r] # None} IN
        /\ \A r \in rows : handed[id][r] = 1
        /\ note[id].status \in Settled =>
              /\ Cardinality(rows) = note[id].recipients
              /\ \A r \in Recipient \ rows : handed[id][r] = 0
              /\ note[id].status = Outcome(deliveries[id])

\* The messages whose attempt falls into a window.
AttemptedIn(start) == {id \in Id : /\ note[id] # None /\ note[id].attemptedAt # None
                                   /\ StartOf(note[id].attemptedAt) = start}

\* Twenty attempts per fixed 15-minute window, over all administrators, and at
\* most one more that is not counted: a sign-in may delete the row, older than an
\* hour, between claim's select and its update (notifications.py:234-237 against
\* shelters.py:100, under different locks).
BudgetKept ==
    \A start \in {StartOf(t) : t \in 0..MaxClock} :
        /\ Cardinality(AttemptedIn(start) \ missed) <= Limit
        /\ \A i, j \in AttemptedIn(start) \cap missed : i = j

\* What a thread sends was reviewed with the token, chat and label the server
\* has now, and it still is the draft's content: a restart with another
\* configuration leaves no thread, and no approved draft, that uses the old one.
ReviewIsFresh ==
    \A t \in Thread : task[t].pc \in {"check", "claim", "count", "sending", "record"} =>
        /\ task[t].content.config = config
        /\ note[task[t].id].content = task[t].content

\* Where each message is in its life.
Phase == [id \in Id |-> IF note[id] = None THEN "none"
                        ELSE IF note[id].status \in Settled THEN "settled"
                        ELSE note[id].status]

\* Messages are claimed once and handed out only between claim and result.
Promise == INSTANCE Dispatch WITH phase <- Phase
DispatchKept == Promise!Spec

\* A claimed message is settled, whatever other threads and the surroundings do,
\* unless the very thread that serves it dies or the server is restarted: such a
\* message stays 'sending' for good, as nothing resumes it.
ClaimsSettle ==
    \A id \in Id : (note[id] # None /\ note[id].status = "sending")
                      ~> (id \in dead \/ (note[id] # None /\ note[id].status \in Settled))
=============================================================================
