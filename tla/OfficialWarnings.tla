--------------------------- MODULE OfficialWarnings ---------------------------
(***************************************************************************)
(* Official warnings, displayed as issued: OfficialService and active of   *)
(* backend/app/official.py.                                                *)
(*                                                                         *)
(* A request waits for the service's one lock and then reads, at the same  *)
(* time, each source whose cached answer is too old.  A bulletin (district *)
(* warnings, nowcast) is one call.  The CAP feed is a list of the newest   *)
(* messages, each read by a call of its own unless it was read before.     *)
(* Any call may fail.  The lock is released and what is still valid is     *)
(* shown.                                                                  *)
(***************************************************************************)
EXTENDS Integers, Sequences, FiniteSets

CONSTANTS
    Task,      \* requests under way
    Message,   \* CAP messages
    Actual,    \* those with status Actual
    Cancels,   \* the message that a Cancel refers to; None for other messages
    Expires,   \* when a message expires; None if it gives no readable time
    Zoneless,  \* messages that give a time without its zone
    Bulletin,  \* "imd", "nowcast"
    Life,      \* for how long a bulletin is current: STALE_DAYS, NOWCAST_VALID
    Ttl,       \* IMD_TTL, NOWCAST_TTL, RSS_TTL
    FailTtl,   \* FAIL_TTL
    MaxAlerts, \* MAX_ALERTS
    MaxClock,  \* bound: minutes that pass
    MaxIssues, \* bound: times at which a bulletin is issued
    None

Source == Bulletin \cup {"sachet"}

\* What is kept of a source's last answer, and of a request.
Times == 0..MaxClock
Entries == [expires : Nat, retrieved : Times, ok : BOOLEAN, issued : Times,
            listed : SUBSET Message, unread : SUBSET Message]
Request == [pc : {"idle", "waiting", "fetching"}, want : SUBSET Source, asked : Times,
            fetch : [Source -> {"no", "reading", "messages", "done"}],
            listed : SUBSET Message, unread : SUBSET Message, rest : Seq(Message)]

ASSUME OfficialAssumption ==
    /\ IsFiniteSet(Message) /\ Actual \subseteq Message /\ None \notin Message
    /\ Cancels \in [Message -> Message \cup {None}] /\ Expires \in [Message -> Nat \cup {None}]
    /\ Zoneless \subseteq Message /\ None \notin Nat
    /\ "imd" \in Bulletin /\ "sachet" \notin Bulletin /\ Life \in [Bulletin -> Nat]
    /\ Ttl \in [Source -> Nat \ {0}] /\ FailTtl \in Nat \ {0}
    /\ MaxAlerts \in Nat \ {0}
    /\ MaxClock \in Nat /\ MaxIssues \in Nat /\ None \notin Entries

VARIABLES
    clock,
    issued,  \* when each bulletin was issued so far
    feed,    \* the CAP feed, newest message first
    cache,   \* the last answer of each source, or None
    read,    \* cap_cache: messages read
    queue,   \* the lock: its holder and those who wait, in order
    task     \* what each request is doing

vars == <<clock, issued, feed, cache, read, queue, task>>

-----------------------------------------------------------------------------
Latest(S) == CHOOSE i \in S : \A j \in S : j <= i

Idle == [pc |-> "idle", want |-> {}, asked |-> 0, fetch |-> [s \in Source |-> "no"],
         listed |-> {}, unread |-> {}, rest |-> <<>>]

\* Mutant: a failure is kept as long as a success.
KeptAlike(s, ok) == Ttl[s]

Keep(s, ok) == IF ok THEN Ttl[s] ELSE FailTtl

\* What a source's cache holds after a reading.
Entry(s, ok, at, listed, unread) ==
    [expires |-> clock + Keep(s, ok), retrieved |-> clock, ok |-> ok,
     issued |-> at, listed |-> listed, unread |-> unread]

Fresh(s) == cache[s] # None /\ cache[s].expires > clock

\* Mutant: the lock is not waited for.
NoLock(t) == TRUE

\* The lock is granted in the order it was asked for.
Turn(t) == queue # <<>> /\ Head(queue) = t

\* The newest messages of the feed.
Newest == SubSeq(feed, 1, IF Len(feed) < MaxAlerts THEN Len(feed) ELSE MaxAlerts)

\* The warnings among the messages, in force or not.
Warnings(S) == {m \in S : m \in Actual /\ Cancels[m] = None}

\* Those with a readable expiry that has not come.
Unexpired(S) == {m \in S : Expires[m] # None /\ Expires[m] > clock}

\* active: the warnings among the messages read, unexpired and not cancelled by
\* another one (of whatever status).  One without a readable expiry is skipped.
Active(S) == {m \in Unexpired(Warnings(S)) : \A c \in S : Cancels[c] # m}

\* A time without a zone cannot be compared with the clock: the request fails.
Fails(S) == Warnings(S) \cap Zoneless # {}

\* Mutant: messages that cannot be read are not mentioned.
NeverPartial(e) == IF e.ok THEN "available" ELSE "unavailable"

FeedStatus(e) ==
    IF ~e.ok THEN "unavailable" ELSE IF e.unread # {} THEN "partial" ELSE "available"

\* A bulletin that was read and is still current.
Shown(s) == cache[s].ok /\ clock - cache[s].issued <= Life[s]

Init ==
    /\ clock = 0 /\ issued = [b \in Bulletin |-> {0}] /\ feed = <<>>
    /\ cache = [s \in Source |-> None] /\ read = {} /\ queue = <<>>
    /\ task = [t \in Task |-> Idle]

-----------------------------------------------------------------------------
(* Requests.                                                               *)

\* warnings asks for every source, statewide for the district warnings.
Ask(t, want) ==
    /\ task[t] = Idle
    /\ task' = [task EXCEPT ![t] = [Idle EXCEPT !.pc = "waiting", !.want = want, !.asked = clock]]
    /\ queue' = Append(queue, t)
    /\ UNCHANGED <<clock, issued, feed, cache, read>>

\* The lock is acquired, and every source wanted is looked up.
Start(t) ==
    /\ task[t].pc = "waiting" /\ Turn(t)
    /\ task' = [task EXCEPT ![t].pc = "fetching",
           ![t].fetch = [s \in Source |->
               IF s \in task[t].want /\ ~Fresh(s) THEN "reading" ELSE "done"]]
    /\ UNCHANGED <<clock, issued, feed, cache, read, queue>>

\* wfs: the call ends, with the latest bulletin or in vain.
ReadBulletin(t, b, ok) ==
    /\ task[t].fetch[b] = "reading"
    /\ cache' = [cache EXCEPT ![b] = Entry(b, ok, Latest(issued[b]), {}, {})]
    /\ task' = [task EXCEPT ![t].fetch[b] = "done"]
    /\ UNCHANGED <<clock, issued, feed, read, queue>>

\* Messages are left to be read, or the feed's answer is complete.
Proceed(t, listed, unread, rest) ==
    IF rest = <<>>
    THEN /\ cache' = [cache EXCEPT !["sachet"] = Entry("sachet", TRUE, 0, listed, unread)]
         /\ task' = [task EXCEPT ![t].fetch["sachet"] = "done", ![t].listed = {},
                                 ![t].unread = {}, ![t].rest = <<>>]
    ELSE /\ cache' = cache
         /\ task' = [task EXCEPT ![t].fetch["sachet"] = "messages", ![t].listed = listed,
                                 ![t].unread = unread, ![t].rest = rest]

\* sachet: the list of messages is read, or not.
ReadFeed(t, ok) ==
    /\ task[t].fetch["sachet"] = "reading"
    /\ IF ok THEN Proceed(t, {Newest[i] : i \in DOMAIN Newest}, {}, Newest)
       ELSE /\ cache' = [cache EXCEPT !["sachet"] = Entry("sachet", FALSE, 0, {}, {})]
            /\ task' = [task EXCEPT ![t].fetch["sachet"] = "done"]
    /\ UNCHANGED <<clock, issued, feed, read, queue>>

\* cap: the next message, which is asked for unless it was read before.
ReadMessage(t, ok) ==
    LET m == Head(task[t].rest) IN
    /\ task[t].fetch["sachet"] = "messages"
    /\ m \in read => ok
    /\ read' = IF ok THEN read \cup {m} ELSE read
    /\ Proceed(t, task[t].listed, IF ok THEN task[t].unread ELSE task[t].unread \cup {m},
               Tail(task[t].rest))
    /\ UNCHANGED <<clock, issued, feed, queue>>

\* All sources have answered.
Ready(t) == task[t].pc = "fetching" /\ \A s \in Source : task[t].fetch[s] = "done"

\* What a request is then told; nothing but an error if it fails.
Answer(t) ==
    LET want == task[t].want
        messages == cache["sachet"].listed \ cache["sachet"].unread
        failed == "sachet" \in want /\ Fails(messages)
    IN  [found |-> [s \in want |-> cache[s]],
         current |-> {b \in Bulletin \cap want : ~failed /\ Shown(b)},
         status |-> IF failed THEN "error"
                    ELSE IF "sachet" \in want THEN FeedStatus(cache["sachet"]) ELSE None,
         alerts |-> IF "sachet" \in want /\ ~failed THEN Active(messages) ELSE {}]

\* The lock is released and the answer given.
Serve(t) ==
    /\ Ready(t)
    /\ queue' = Tail(queue)
    /\ task' = [task EXCEPT ![t] = Idle]
    /\ UNCHANGED <<clock, issued, feed, cache, read>>

-----------------------------------------------------------------------------
(* IMD, NDMA and the clock.                                                *)

Issue(b) ==
    /\ Cardinality(issued[b]) < MaxIssues
    /\ issued' = [issued EXCEPT ![b] = @ \cup {clock}]
    /\ UNCHANGED <<clock, feed, cache, read, queue, task>>

\* A message enters the feed; what it cancels was published before.
Publish(m) ==
    /\ \A i \in DOMAIN feed : feed[i] # m
    /\ Cancels[m] # None => \E i \in DOMAIN feed : feed[i] = Cancels[m]
    /\ feed' = <<m>> \o feed
    /\ UNCHANGED <<clock, issued, cache, read, queue, task>>

Tick ==
    /\ clock < MaxClock /\ clock' = clock + 1
    /\ UNCHANGED <<issued, feed, cache, read, queue, task>>

Wanted == {Source, {"imd"}}

Next ==
    \/ \E t \in Task :
          \/ \E want \in Wanted : Ask(t, want)
          \/ Start(t) \/ Serve(t)
          \/ \E ok \in BOOLEAN :
                \/ \E b \in Bulletin : ReadBulletin(t, b, ok)
                \/ ReadFeed(t, ok) \/ ReadMessage(t, ok)
    \/ \E b \in Bulletin : Issue(b)
    \/ \E m \in Message : Publish(m)
    \/ Tick

Spec == Init /\ [][Next]_vars

-----------------------------------------------------------------------------
(* Properties.                                                             *)

\* Caches, queue and requests keep their shape; what a request or an answer
\* could not read was listed, and a request that reads messages has one to read.
TypeOK ==
    /\ clock \in Times /\ issued \in [Bulletin -> SUBSET Times]
    /\ feed \in Seq(Message) /\ read \subseteq Message
    /\ cache \in [Source -> Entries \cup {None}]
    /\ \A s \in Source : cache[s] # None => cache[s].unread \subseteq cache[s].listed
    /\ queue \in Seq(Task)
    /\ task \in [Task -> Request]
    /\ \A t \in Task :
          /\ task[t].unread \subseteq task[t].listed
          /\ task[t].fetch["sachet"] = "messages" => task[t].rest # <<>>

\* No source is asked by two requests at once, nor while its last answer is
\* good enough.
AskedSparingly ==
    \A t \in Task, s \in Source : task[t].fetch[s] \in {"reading", "messages"} =>
        /\ ~Fresh(s)
        /\ \A u \in Task \ {t} : task[u].fetch[s] \notin {"reading", "messages"}

\* However long a request waits and for whatever it waits, what it is told was
\* found out less than its time to live before the request came, also a
\* failure; and a bulletin issued before that is not missed.
FreshEnough ==
    \A t \in Task : Ready(t) =>
        \A s \in task[t].want :
            LET e == Answer(t).found[s] IN
            /\ e # None /\ e.retrieved > task[t].asked - (IF e.ok THEN Ttl[s] ELSE FailTtl)
            /\ s \in Answer(t).current =>
                  \A i \in issued[s] : i <= task[t].asked - Ttl[s] => i <= e.issued

\* Unless an answer says that something could not be read, it shows every alert
\* in the newest messages that is Actual, not cancelled by one of them, and known
\* to be unexpired when the answer is given; and whatever it says, it shows no
\* drill, no expired alert, none without a readable expiry (official.py:308-311
\* drops it without a word), and a cancelled one only when it says so.  An answer
\* that failed shows none.
NoSilentGap ==
    \A t \in Task : Ready(t) /\ "sachet" \in task[t].want =>
        LET listed == cache["sachet"].listed
            Cancelled == {m \in Message : \E c \in listed : Cancels[c] = m}
            Valid == Unexpired(Warnings(listed))
        IN  /\ Answer(t).alerts \subseteq Valid
            /\ Answer(t).status = "available" => Answer(t).alerts = Valid \ Cancelled
            /\ Answer(t).status \in {"unavailable", "error"} => Answer(t).alerts = {}

\* Violated: "missing data never means no warning" (official.py:6-7).  An answer
\* that does not say something is missing shows every listed warning that no
\* listed message cancels, unless it is known to have expired.
NothingDropped ==
    \A t \in Task : Ready(t) /\ Answer(t).status = "available" =>
        LET listed == cache["sachet"].listed
        IN  \A m \in Warnings(listed) : (\A c \in listed : Cancels[c] # m) =>
                m \in Answer(t).alerts \/ (Expires[m] # None /\ Expires[m] <= clock)
=============================================================================
