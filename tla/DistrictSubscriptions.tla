------------------------ MODULE DistrictSubscriptions ------------------------
(***************************************************************************)
(* Consent for Telegram alerts: backend/app/telegram_subscriptions.py      *)
(* (SubscriptionStore.intake and .operator) and district_alerts.py         *)
(* (DistrictSubscriptions.handle, recipients, forget_blocked).             *)
(*                                                                         *)
(* Telegram keeps every command a person sent until the webhook answers    *)
(* it; it sends several at a time, in any order, and sends one again when  *)
(* the answer was an error or got lost.  A webhook thread (Worker) runs    *)
(* intake: the operator transaction, then the district transaction, which  *)
(* holds the advisory lock of its key to the end: it reads the last entry  *)
(* of the log, reads the subscriber, and writes.  The thread sending a     *)
(* broadcast deletes subscribers Telegram reports as having blocked the    *)
(* bot; it takes no advisory lock, and so comes between any two of these   *)
(* statements, also after the last when that changed no row.               *)
(***************************************************************************)
EXTENDS Naturals, Sequences
SeqX == INSTANCE SequencesExt

CONSTANTS
    Key,          \* people, by subscriber_key
    District,     \* district ids of the active place directory
    Worker,       \* webhook threads
    Operators,    \* keys of the configured private TELEGRAM_DESTINATIONS
    TestChats,    \* the operators marked test_only
    Approved,     \* districts an administrator approves alerts for
    Modes,        \* the values SHELTER_DIRECTORY_MODE takes across restarts
    Commands,     \* the commands people send
    MaxUpdates,   \* bound: commands sent in a behaviour
    MaxClock,     \* bound: half seconds that pass
    MaxAge,       \* half seconds after which a command is too old to apply
    None

\* A command, the audit row of a refused delivery, and the rows of the stores.
Order == [key : Key, action : Commands, district : District \cup {None},
          at : 0..MaxClock, id : 1..MaxUpdates]
Refusal == [key : Key, action : {"blocked"}, district : {None}, at : 0..MaxClock, id : {0}]
OptIn == [active : BOOLEAN, at : 0..MaxClock, id : 1..MaxUpdates]
Subscriber == [demonstration : BOOLEAN]

ASSUME ConsentAssumption ==
    /\ Approved \subseteq District
    /\ Commands \subseteq {"subscribe", "unsubscribe", "stop", "start"}
    /\ TestChats \subseteq Operators /\ Operators \subseteq Key
    /\ Modes \subseteq {"live", "demonstration"} /\ Modes # {}
    /\ MaxUpdates \in Nat /\ MaxClock \in Nat /\ MaxAge \in Nat
    /\ None \notin Key \cup District /\ None \notin OptIn /\ None \notin Subscriber

VARIABLES
    clock,        \* server time in half seconds
    mode,         \* SHELTER_DIRECTORY_MODE of the running server
    sent,         \* every command, in the order people sent them
    pending,      \* positions in sent that Telegram will still deliver
    work,         \* what each webhook thread is doing
    optin,        \* telegram_subscriptions: [active, at, id] or None
    subscriber,   \* telegram_district_subscribers: [demonstration] or None
    districts,    \* telegram_district_subscriptions
    audit,        \* telegram_district_audit, in commit order
    blocked,      \* whether the person blocks the bot
    targets,      \* recipients the broadcast under way has not contacted
    refusal       \* the 403 result being recorded: [key, at] or None

queueVars == <<sent, pending>>
storeVars == <<subscriber, districts, audit>>
sendVars  == <<targets, refusal>>
vars == <<clock, mode, queueVars, work, optin, storeVars, blocked, sendVars>>

-----------------------------------------------------------------------------
Idle == [pc |-> "idle", u |-> 0, row |-> FALSE]

\* A Telegram message date counts whole seconds; the server clock does not.
WholeSeconds(t) == 2 * (t \div 2)

\* Mutant: the order of update identifiers decides alone.
NoNewerId(a, b) == a.id <= b.id

\* (command_at, update_id) <= (last.command_at, last.update_id)
NoNewer(a, b) == a.at < b.at \/ (a.at = b.at /\ a.id <= b.id)

\* The audit row of a key that is last by (command_at, update_id).
LastRows(k) == {r \in {audit[k][i] : i \in DOMAIN audit[k]} :
                   \A i \in DOMAIN audit[k] : NoNewer(audit[k][i], r)}

Demonstration == mode = "demonstration"
IsOperator(k) == k \in Operators /\ (Demonstration => k \in TestChats)

\* Mutant: anybody may subscribe in demonstration mode.
Everybody(k) == TRUE

Public(k) == Demonstration => k \in TestChats

\* '/start floodpulse' is an operator's opt-in and a help request otherwise.
ForOperator(c) == IsOperator(c.key) /\ c.action \in {"start", "stop"}
ForDistricts(c) == Public(c.key) /\ ~(IsOperator(c.key) /\ c.action = "start")

Recipients(d) == {k \in Key : /\ subscriber[k] # None
                              /\ d \in districts[k]
                              /\ subscriber[k].demonstration = Demonstration}

Command(w) == sent[work[w].u]
GoTo(w, pc) == work' = [work EXCEPT ![w].pc = pc]

Init ==
    /\ clock = 0 /\ mode \in Modes
    /\ sent = <<>> /\ pending = {}
    /\ work = [w \in Worker |-> Idle]
    /\ optin = [k \in Key |-> None]
    /\ subscriber = [k \in Key |-> None]
    /\ districts = [k \in Key |-> {}]
    /\ audit = [k \in Key |-> <<>>]
    /\ blocked = [k \in Key |-> FALSE]
    /\ targets = {} /\ refusal = None

-----------------------------------------------------------------------------
(* The people and Telegram.                                                *)

\* A person sends a command, which unblocks the bot.  Update identifiers grow
\* within a second and may be reseeded later.
Send(k, action, d) ==
    /\ Len(sent) < MaxUpdates
    /\ (d = None) = (action \in {"stop", "start"})
    /\ \E id \in 1..MaxUpdates :
          /\ \A i \in DOMAIN sent :
                /\ sent[i].id # id
                /\ sent[i].at = WholeSeconds(clock) => sent[i].id < id
          /\ sent' = Append(sent, [key |-> k, action |-> action, district |-> d,
                                   at |-> WholeSeconds(clock), id |-> id])
    /\ pending' = pending \cup {Len(sent')}
    /\ blocked' = [blocked EXCEPT ![k] = FALSE]
    /\ UNCHANGED <<clock, mode, work, optin, storeVars, sendVars>>

\* Only a broadcast notices a block.
Block(k) ==
    /\ Approved # {} /\ ~blocked[k]
    /\ blocked' = [blocked EXCEPT ![k] = TRUE]
    /\ UNCHANGED <<clock, mode, queueVars, work, optin, storeVars, sendVars>>

Tick ==
    /\ clock < MaxClock
    /\ clock' = clock + 1
    /\ UNCHANGED <<mode, queueVars, work, optin, storeVars, blocked, sendVars>>

-----------------------------------------------------------------------------
(* The webhook.                                                            *)

\* Telegram kept the command for more than seven days.
TooOld(c) == c.at + MaxAge < clock

\* intake's checks: a command for neither store, or too old, is answered without
\* effect.
Receive(w, u) ==
    /\ work[w] = Idle /\ u \in pending
    /\ LET c == sent[u] IN
       work' = [work EXCEPT ![w] =
          [Idle EXCEPT !.u = u,
                       !.pc = IF TooOld(c) THEN "answer"
                              ELSE IF ForOperator(c) THEN "operator"
                              ELSE IF ForDistricts(c) THEN "handle" ELSE "answer"]]
    /\ UNCHANGED <<clock, mode, queueVars, optin, storeVars, blocked, sendVars>>

\* Mutant: the operator's last command in order of arrival wins.
OperatorUnordered(w) ==
    /\ work[w].pc = "operator"
    /\ LET c == Command(w) IN
       optin' = [optin EXCEPT ![c.key] = [active |-> c.action = "start", at |-> c.at, id |-> c.id]]
    /\ GoTo(w, IF ForDistricts(Command(w)) THEN "handle" ELSE "answer")
    /\ UNCHANGED <<clock, mode, queueVars, storeVars, blocked, sendVars>>

\* SubscriptionStore.operator: one transaction under the lock of its key.
Operator(w) ==
    /\ work[w].pc = "operator"
    /\ LET c == Command(w)  old == optin[c.key] IN
       optin' = IF old # None /\ NoNewer(c, old) THEN optin
                ELSE [optin EXCEPT ![c.key] =
                        [active |-> c.action = "start", at |-> c.at, id |-> c.id]]
    /\ GoTo(w, IF ForDistricts(Command(w)) THEN "handle" ELSE "answer")
    /\ UNCHANGED <<clock, mode, queueVars, storeVars, blocked, sendVars>>

\* The thread is inside handle's transaction and holds the advisory lock.
Holds(w) == work[w].pc \in {"row", "write", "commit"}

\* The advisory lock of the key is free.
LockFree(k) == \A v \in Worker : Holds(v) => Command(v).key # k

\* Mutant: the audit log is not consulted.
NeverSuperseded(c) == FALSE

\* The log holds this command, or one sent later.
Superseded(c) == \E r \in LastRows(c.key) : NoNewer(c, r)

\* Mutant: a superseded command gets no answer.
SupersededWaits(w) ==
    /\ work[w].pc = "handle"
    /\ LET c == Command(w) IN
       \/ c.action = "start" /\ GoTo(w, "answer")
       \/ c.action # "start" /\ LockFree(c.key) /\ ~Superseded(c) /\ GoTo(w, "row")
    /\ UNCHANGED <<clock, mode, queueVars, optin, storeVars, blocked, sendVars>>

\* handle up to the last entry of the log: help needs no transaction; a command
\* that is no longer the latest ends it.
ReadLog(w) ==
    /\ work[w].pc = "handle"
    /\ LET c == Command(w) IN
       \/ c.action = "start" /\ GoTo(w, "answer")
       \/ /\ c.action # "start" /\ LockFree(c.key)
          /\ GoTo(w, IF Superseded(c) THEN "answer" ELSE "row")
    /\ UNCHANGED <<clock, mode, queueVars, optin, storeVars, blocked, sendVars>>

\* The subscriber's row: a stop from someone who is no subscriber ends here.
ReadRow(w) ==
    /\ work[w].pc = "row"
    /\ LET c == Command(w) IN
       IF c.action = "stop" /\ subscriber[c.key] = None THEN GoTo(w, "answer")
       ELSE work' = [work EXCEPT ![w].pc = "write", ![w].row = subscriber[c.key] # None]
    /\ UNCHANGED <<clock, mode, queueVars, optin, storeVars, blocked, sendVars>>

\* The row read for the command is still there, or there was none.
RowStands(w) == work[w].row => subscriber[Command(w).key] # None

\* Insert the subscriber, or update the one that was read; add the district.
Subscribe(w) ==
    LET c == Command(w) IN
    /\ subscriber' = IF RowStands(w)
                     THEN [subscriber EXCEPT ![c.key] = [demonstration |-> Demonstration]]
                     ELSE subscriber
    /\ districts' = [districts EXCEPT ![c.key] = @ \cup {c.district}]

\* Mutant: the chat ID outlives the last district.
UnsubscribeKeepingChat(c) ==
    /\ districts' = [districts EXCEPT ![c.key] = @ \ {c.district}]
    /\ UNCHANGED subscriber

\* Deleting the subscriber cascades to the districts.
Unsubscribe(c) ==
    LET remaining == districts[c.key] \ {c.district} IN
    /\ districts' = [districts EXCEPT ![c.key] = remaining]
    /\ subscriber' = IF remaining = {} THEN [subscriber EXCEPT ![c.key] = None]
                     ELSE subscriber

Stop(c) ==
    /\ subscriber' = [subscriber EXCEPT ![c.key] = None]
    /\ districts' = [districts EXCEPT ![c.key] = {}]

\* A district may only be added to an existing subscriber.
ForeignKeyHolds(w) == Command(w).action = "subscribe" => RowStands(w)

\* The command finds its row and its district as it wants them: no row is
\* updated, ON CONFLICT DO NOTHING inserts none, and none is locked.
InPlace(w) ==
    LET c == Command(w) IN
    /\ c.action = "subscribe" /\ c.district \in districts[c.key]
    /\ subscriber[c.key] = [demonstration |-> Demonstration]

Log(c) == audit' = [audit EXCEPT ![c.key] = Append(@, c)]

\* Writes that change a row: it is locked from the first of them to the commit, so
\* that a deletion waits for the commit, and all is one step.
HandleWrite(w) ==
    /\ work[w].pc = "write" /\ ForeignKeyHolds(w) /\ ~InPlace(w)
    /\ LET c == Command(w) IN
       /\ Log(c)
       /\ \/ c.action = "subscribe" /\ Subscribe(w)
          \/ c.action = "unsubscribe" /\ Unsubscribe(c)
          \/ c.action = "stop" /\ Stop(c)
    /\ GoTo(w, "answer")
    /\ UNCHANGED <<clock, mode, queueVars, optin, blocked, sendVars>>

\* Writes that change no row but the log's, which others see at the commit.
WriteNothing(w) ==
    /\ work[w].pc = "write" /\ InPlace(w)
    /\ GoTo(w, "commit")
    /\ UNCHANGED <<clock, mode, queueVars, optin, storeVars, blocked, sendVars>>

Commit(w) ==
    /\ work[w].pc = "commit"
    /\ Log(Command(w))
    /\ GoTo(w, "answer")
    /\ UNCHANGED <<clock, mode, queueVars, optin, subscriber, districts, blocked, sendVars>>

\* The subscriber was deleted since the read: the transaction rolls back, the
\* webhook answers 503 and Telegram keeps the update.
ForeignKeyFails(w) ==
    /\ work[w].pc = "write" /\ ~ForeignKeyHolds(w)
    /\ work' = [work EXCEPT ![w] = Idle]
    /\ UNCHANGED <<clock, mode, queueVars, optin, storeVars, blocked, sendVars>>

\* HTTP 200 reaches Telegram, which forgets the update.
Answer(w) ==
    /\ work[w].pc = "answer"
    /\ pending' = pending \ {work[w].u}
    /\ work' = [work EXCEPT ![w] = Idle]
    /\ UNCHANGED <<clock, mode, sent, optin, storeVars, blocked, sendVars>>

\* A database error (503), a lost answer or a killed thread: the transaction
\* under way rolls back and Telegram keeps the update.
Fail(w) ==
    /\ work[w].pc # "idle"
    /\ work' = [work EXCEPT ![w] = Idle]
    /\ UNCHANGED <<clock, mode, queueVars, optin, storeVars, blocked, sendVars>>

\* The server stops and starts again, possibly in the other mode.
Restart ==
    /\ mode' \in Modes
    /\ work' = [w \in Worker |-> Idle]
    /\ targets' = {} /\ refusal' = None
    /\ UNCHANGED <<clock, queueVars, optin, storeVars, blocked>>

-----------------------------------------------------------------------------
(* The broadcast, as far as it meets consent (notifications.py).           *)

\* claim: the recipients are the subscribers at approval time.
Claim(d) ==
    /\ targets = {} /\ refusal = None /\ Recipients(d) # {}
    /\ targets' = Recipients(d)
    /\ UNCHANGED <<clock, mode, queueVars, work, optin, storeVars, blocked, refusal>>

\* sender.send to one recipient; Telegram refuses when the person blocked the
\* bot.  The delivery transaction reads now() before it deletes.
Contact(k) ==
    /\ refusal = None /\ k \in targets
    /\ targets' = targets \ {k}
    /\ refusal' = IF blocked[k] THEN [key |-> k, at |-> clock] ELSE None
    /\ UNCHANGED <<clock, mode, queueVars, work, optin, storeVars, blocked>>

\* Mutant: forgetting a blocked person leaves no row in the log.
ForgetSilently ==
    /\ refusal # None
    /\ subscriber' = [subscriber EXCEPT ![refusal.key] = None]
    /\ districts' = [districts EXCEPT ![refusal.key] = {}]
    /\ refusal' = None
    /\ UNCHANGED <<clock, mode, queueVars, work, optin, audit, blocked, targets>>

\* forget_blocked, committed.
Forget ==
    /\ refusal # None
    /\ LET k == refusal.key IN
       IF subscriber[k] = None THEN UNCHANGED storeVars
       ELSE /\ subscriber' = [subscriber EXCEPT ![k] = None]
            /\ districts' = [districts EXCEPT ![k] = {}]
            /\ audit' = [audit EXCEPT ![k] =
                   Append(@, [key |-> k, action |-> "blocked", district |-> None,
                              at |-> refusal.at, id |-> 0])]
    /\ refusal' = None
    /\ UNCHANGED <<clock, mode, queueVars, work, optin, blocked, targets>>

\* The result could not be recorded: the remaining recipients are not contacted.
DeliveryLost ==
    /\ refusal # None
    /\ refusal' = None /\ targets' = {}
    /\ UNCHANGED <<clock, mode, queueVars, work, optin, storeVars, blocked>>

-----------------------------------------------------------------------------
Webhook(w) == \/ \E u \in pending : Receive(w, u)
              \/ Operator(w) \/ ReadLog(w) \/ ReadRow(w)
              \/ HandleWrite(w) \/ WriteNothing(w) \/ Commit(w)
              \/ ForeignKeyFails(w) \/ Answer(w)

Next ==
    \/ \E k \in Key, a \in Commands, d \in District \cup {None} : Send(k, a, d)
    \/ \E k \in Key : Block(k) \/ Contact(k)
    \/ \E w \in Worker : Webhook(w) \/ Fail(w)
    \/ \E d \in Approved : Claim(d)
    \/ Tick \/ Restart \/ Forget \/ DeliveryLost

Spec == Init /\ [][Next]_vars

\* Telegram delivers what it keeps and the thread pool runs; nothing obliges
\* people, the clock or the database to do anything.
FairSpec == Spec /\ \A w \in Worker : WF_vars(Webhook(w))

-----------------------------------------------------------------------------
(* Properties.                                                             *)

Sent == {sent[i] : i \in DOMAIN sent}
Task == [pc : {"idle", "operator", "handle", "row", "write", "commit", "answer"},
         u : 0..MaxUpdates, row : BOOLEAN]

\* Every variable has the shape of the row or queue it stands for; a resting
\* thread holds no command, the log has the commands sent and the refusals met,
\* and no recipient is contacted twice.
TypeOK ==
    /\ clock \in 0..MaxClock /\ mode \in Modes
    /\ sent \in Seq(Order) /\ pending \subseteq DOMAIN sent
    /\ work \in [Worker -> Task]
    /\ \A w \in Worker : IF work[w].pc = "idle" THEN work[w] = Idle ELSE work[w].u \in DOMAIN sent
    /\ optin \in [Key -> OptIn \cup {None}]
    /\ subscriber \in [Key -> Subscriber \cup {None}]
    /\ districts \in [Key -> SUBSET District]
    /\ audit \in [Key -> Seq(Order \cup Refusal)]
    /\ \A k \in Key : \A i \in DOMAIN audit[k] :
          audit[k][i].key = k /\ (audit[k][i].action = "blocked" \/ audit[k][i] \in Sent)
    /\ blocked \in [Key -> BOOLEAN]
    /\ targets \subseteq Key
    /\ refusal = None \/ (refusal \in [key : Key, at : 0..clock] /\ refusal.key \notin targets)

\* The chat ID is stored exactly while some district needs it: no chat ID is
\* left behind by the last /stop <district>, and no district without one, also
\* when forget_blocked deletes between the read and the writes of a command.
ChatIdOnlyWhileNeeded == \A k \in Key : subscriber[k] # None <=> districts[k] # {}

\* Replaying the audit rows of a key in commit order gives its districts: no
\* change of consent escapes the append-only log, and none is logged that did
\* not happen but a subscription that was there already and committed right after
\* the refusal which took it away (district_alerts.py:189, 225).
Apply(d, r) ==
    CASE r.action = "subscribe" -> d \cup {r.district}
      [] r.action = "unsubscribe" -> d \ {r.district}
      [] OTHER -> {}
Replay(rows) == SeqX!FoldLeft(Apply, {}, rows)
Lost(rows) ==
    {rows[i].district : i \in {n \in 2..Len(rows) :
        /\ rows[n-1].action = "blocked" /\ rows[n].action = "subscribe"
        /\ \A m \in (n+1)..Len(rows) : /\ rows[m].action \in {"subscribe", "unsubscribe"}
                                      /\ rows[m].district # rows[n].district}}
AuditReplays ==
    \A k \in Key : /\ districts[k] \subseteq Replay(audit[k])
                  /\ Replay(audit[k]) \ districts[k] \subseteq Lost(audit[k])

\* The latest row of the log by (command_at, update_id) decides: after a stop
\* nothing is stored, after /stop <district> not that district.  After a refusal
\* nothing is stored but what was subscribed to later, as the log was committed.
OptOutHolds ==
    \A k \in Key :
        /\ \A r \in LastRows(k) :
              /\ r.action = "stop" => subscriber[k] = None
              /\ r.action = "unsubscribe" => r.district \notin districts[k]
        /\ \A i \in DOMAIN audit[k] : audit[k][i].action = "blocked" /\ subscriber[k] # None
              => \E j \in DOMAIN audit[k] : j > i /\ audit[k][j].action = "subscribe"

\* A demonstration subscription belongs to a configured private test chat, so
\* a demonstration broadcast reaches nobody else.
DemonstrationIsPrivate ==
    \A k \in Key : subscriber[k] # None /\ subscriber[k].demonstration => k \in TestChats

\* No /stop that was answered is undone by a command sent before it.
StopIsFinal ==
    \A k \in Key : \A u \in DOMAIN sent \ pending :
        sent[u].key = k /\ sent[u].action = "stop" /\ districts[k] # {}
            => \E v \in (u+1)..Len(sent), i \in DOMAIN audit[k] :
                   audit[k][i] = sent[v] /\ sent[v].action = "subscribe"

\* The position in sent of the last command that was applied.
PositionOf(r) == CHOOSE i \in DOMAIN sent : sent[i] = r
Latest(rows) == LET P == {PositionOf(r) : r \in rows} IN
                IF P = {} THEN 0 ELSE CHOOSE p \in P : \A q \in P : q <= p

\* The consents of a key, and the position of the command each comes from.
LastApplied == [k \in Key |-> Latest({audit[k][i] : i \in 1..Len(audit[k])} \cap Sent)]
OptedIn == [k \in Key |-> optin[k] # None /\ optin[k].active]
LastOptIn == [k \in Key |->
    IF optin[k] = None THEN 0
    ELSE Latest({r \in Sent : r.at = optin[k].at /\ r.id = optin[k].id})]

\* Both stores implement the ledger that only a later command may move.
DistrictLedger == INSTANCE ConsentLedger WITH
    Off <- {}, consent <- districts, latest <- LastApplied
DistrictsFollowLedger == DistrictLedger!Spec

OperatorLedger == INSTANCE ConsentLedger WITH
    Off <- FALSE, consent <- OptedIn, latest <- LastOptIn
OptInsFollowLedger == OperatorLedger!Spec

\* When the database and the server stop failing, every command gets its
\* answer: a stale, refused or useless command does not stay in Telegram's queue.
Failure == Restart \/ \E w \in Worker : Fail(w)
CommandsAnswered ==
    <>[][~Failure]_vars => \A u \in 1..MaxUpdates : u \in pending ~> u \notin pending
=============================================================================
