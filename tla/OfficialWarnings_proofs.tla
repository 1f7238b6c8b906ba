----------------------- MODULE OfficialWarnings_proofs -----------------------
(***************************************************************************)
(* Proofs about OfficialWarnings, for any number of requests, bulletins    *)
(* and messages, and any times to live.                                    *)
(***************************************************************************)
EXTENDS OfficialWarnings, TLAPS

\* A kept answer knows when it was found out and for how long it is good; a
\* failure lists nothing; a bulletin issued before the answer is not newer.
Honest(s) == cache[s] # None =>
    /\ cache[s].retrieved <= clock
    /\ cache[s].expires = cache[s].retrieved + Keep(s, cache[s].ok)
    /\ ~cache[s].ok => cache[s].listed = {}
    /\ s \in Bulletin => \A i \in issued[s] : i < cache[s].retrieved => i <= cache[s].issued

\* No bulletin comes from the future, and one is the latest.
Dated(b) == issued[b] \subseteq 0..clock /\ \E m \in issued[b] : \A i \in issued[b] : i <= m

\* The requests under way, and no others, are in line for the lock, each once;
\* the one that holds it is first.
InLine ==
    /\ \A i, j \in DOMAIN queue : queue[i] = queue[j] => i = j
    /\ \A t \in Task : task[t].pc # "idle" <=> \E i \in DOMAIN queue : queue[i] = t
    /\ \A t \in Task : task[t].pc = "fetching" => queue # <<>> /\ Head(queue) = t

\* A request without the lock reads nothing.  One with it reads sources whose
\* cached answer is too old; of all others it wants, the answer was still good
\* when the request came.  The messages it has still to read were listed.
Asking(t) ==
    LET r == task[t] IN
    /\ r.asked <= clock
    /\ r.fetch["sachet"] = "messages" => \A i \in DOMAIN r.rest : r.rest[i] \in r.listed
    /\ r.pc # "fetching" => \A s \in Source : r.fetch[s] = "no"
    /\ r.pc = "fetching" => \A s \in Source :
          /\ r.fetch[s] # "no" /\ (r.fetch[s] = "messages" => s = "sachet")
          /\ r.fetch[s] \in {"reading", "messages"} => ~Fresh(s)
          /\ r.fetch[s] = "done" /\ s \in r.want => cache[s] # None /\ cache[s].expires > r.asked

IInv ==
    /\ TypeOK /\ InLine
    /\ \A b \in Bulletin : Dated(b)
    /\ \A s \in Source : Honest(s)
    /\ \A t \in Task : Asking(t)

-----------------------------------------------------------------------------
(* The parts of a step.                                                    *)

\* Lifetimes are positive, and the feed is a source of its own.
LEMMA Numbers ==
    /\ MaxClock \in Nat
    /\ \A s \in Source, ok \in BOOLEAN : Keep(s, ok) \in Nat \ {0}
    /\ Bulletin \subseteq Source /\ "sachet" \in Source /\ "sachet" \notin Bulletin
    /\ \A e \in Entries : e # None
BY OfficialAssumption DEF Keep, Source

\* An answer not replaced stays honest: a bulletin issued now is no older.
LEMMA AnswerRests ==
    ASSUME TypeOK, clock' \in Nat, clock <= clock', NEW s \in Source, Honest(s), cache'[s] = cache[s],
           s \in Bulletin => issued'[s] \subseteq issued[s] \cup {clock}
    PROVE  Honest(s)'
<1>1. CASE cache[s] = None
  BY <1>1 DEF Honest
<1>2. CASE cache[s] # None
  <2>1. cache[s].retrieved \in Nat /\ clock \in Nat
    BY <1>2, Numbers DEF TypeOK, Entries, Times
  <2> QED
    BY <1>2, <2>1 DEF Honest
<1> QED
  BY <1>1, <1>2

\* A request that does not move stays as it was, unless it reads and another
\* one replaces an answer.
LEMMA RequestRests ==
    ASSUME TypeOK, clock' \in Nat, clock <= clock', NEW t \in Task, Asking(t), task'[t] = task[t],
           task[t].pc = "fetching" => cache' = cache
    PROVE  Asking(t)'
<1>1. clock \in Nat /\ task[t].asked \in Nat
  BY Numbers DEF TypeOK, Request, Times
<1>2. CASE task[t].pc # "fetching"
  BY <1>1, <1>2 DEF Asking
<1>3. CASE task[t].pc = "fetching"
  <2>1. \A s \in Source : ~Fresh(s) => ~Fresh(s)'
    <3> SUFFICES ASSUME NEW s \in Source, ~Fresh(s), cache[s] # None PROVE ~(cache[s].expires > clock')
      BY <1>3 DEF Fresh
    <3>1. cache[s].expires \in Nat /\ ~(cache[s].expires > clock)
      BY DEF TypeOK, Entries, Fresh
    <3> QED
      BY <1>1, <3>1
  <2> QED
    BY <1>1, <1>3, <2>1 DEF Asking
<1> QED
  BY <1>2, <1>3

\* One request at a time holds the lock.
LEMMA OneReads ==
    ASSUME IInv, NEW t \in Task, NEW s \in Source, task[t].fetch[s] \in {"reading", "messages"}
    PROVE  /\ task[t].pc = "fetching"
           /\ \A u \in Task \ {t} : task[u].pc # "fetching"
BY DEF IInv, Asking, InLine

\* What was just found out is honest, and good for a request that came before.
LEMMA EntryHonest ==
    ASSUME IInv, NEW s \in Source, NEW ok \in BOOLEAN, NEW at \in Times,
           NEW listed \in SUBSET Message, NEW unread \in SUBSET listed, ok \/ listed = {},
           s \in Bulletin => at = Latest(issued[s]),
           cache' = [cache EXCEPT ![s] = Entry(s, ok, at, listed, unread)],
           UNCHANGED <<clock, issued>>
    PROVE  /\ cache' \in [Source -> Entries \cup {None}]
           /\ \A q \in Source : cache'[q] # None => cache'[q].unread \subseteq cache'[q].listed
           /\ \A q \in Source : Honest(q)'
           /\ cache'[s] # None /\ cache'[s].expires > clock
<1>1. PICK e : e = Entry(s, ok, at, listed, unread)
  OBVIOUS
<1>2. /\ e.expires = clock + Keep(s, ok) /\ e.retrieved = clock /\ e.ok = ok /\ e.issued = at
      /\ e.listed = listed /\ e.unread = unread
  BY <1>1 DEF Entry
<1>3. clock \in Nat /\ clock \in Times /\ Keep(s, ok) \in Nat \ {0}
  BY Numbers DEF IInv, TypeOK, Times
<1>4. e \in Entries /\ e # None /\ e.expires > clock
  <2>1. clock + Keep(s, ok) \in Nat /\ clock + Keep(s, ok) > clock
    BY <1>3
  <2>2. e \in Entries
    BY <1>1, <1>3, <2>1 DEF Entry, Entries
  <2> QED
    BY <1>2, <2>1, <2>2, Numbers
<1>5. cache' \in [Source -> Entries \cup {None}] /\ cache'[s] = e /\ \A q \in Source \ {s} : cache'[q] = cache[q]
  BY <1>1, <1>4 DEF IInv, TypeOK
<1>6. s \in Bulletin => \A i \in issued[s] : i <= at
  BY DEF IInv, Dated, Latest
<1>7. Honest(s)'
  BY <1>2, <1>3, <1>5, <1>6 DEF Honest
<1>8. \A q \in Source \ {s} : Honest(q)'
  BY <1>3, <1>5, AnswerRests DEF IInv
<1> QED
  BY <1>2, <1>4, <1>5, <1>7, <1>8 DEF IInv, TypeOK

\* The messages left to read were listed.
RestListed(r) == r.fetch["sachet"] = "messages" =>
    r.rest # <<>> /\ \A i \in DOMAIN r.rest : r.rest[i] \in r.listed

\* A request with the lock goes on reading: of one source it has the answer now,
\* or still not.
LEMMA ReadGoes ==
    ASSUME IInv, NEW t \in Task, NEW s \in Source, task[t].fetch[s] \in {"reading", "messages"},
           UNCHANGED <<clock, issued, feed, queue>>, read' \subseteq Message,
           NEW x \in Request, task' = [task EXCEPT ![t] = x],
           x.pc = "fetching", x.want = task[t].want, x.asked = task[t].asked,
           x.unread \subseteq x.listed, RestListed(x),
           \A q \in Source \ {s} : x.fetch[q] = task[t].fetch[q],
           cache' \in [Source -> Entries \cup {None}],
           \A q \in Source : cache'[q] # None => cache'[q].unread \subseteq cache'[q].listed,
           \A q \in Source : Honest(q)',
           \A q \in Source \ {s} : cache'[q] = cache[q],
           x.fetch[s] \in {"done", "messages"},
           x.fetch[s] = "done" => cache'[s] # None /\ cache'[s].expires > clock,
           x.fetch[s] = "messages" => s = "sachet" /\ cache' = cache
    PROVE  IInv'
<1>1. task'[t] = x /\ \A u \in Task \ {t} : task'[u] = task[u] /\ task[u].pc # "fetching"
  BY OneReads DEF IInv, TypeOK
<1>2. task[t].pc = "fetching" /\ clock \in Nat
  BY OneReads, Numbers DEF IInv, TypeOK, Times
<1>3. TypeOK'
  BY <1>1 DEF IInv, TypeOK, RestListed
<1>4. InLine'
  BY <1>1, <1>2 DEF IInv, InLine
<1>5. \A b \in Bulletin : Dated(b)'
  BY DEF IInv, Dated
<1>6. \A u \in Task \ {t} : Asking(u)'
  BY <1>1, <1>2, RequestRests DEF IInv
<1>7. Asking(t)'
  <2>1. Asking(t) /\ x.asked \in Nat /\ x.asked <= clock
    BY Numbers DEF IInv, Asking, TypeOK, Request, Times
  <2>2. ASSUME NEW q \in Source, q # s
        PROVE  /\ x.fetch[q] # "no" /\ (x.fetch[q] = "messages" => q = "sachet")
               /\ x.fetch[q] \in {"reading", "messages"} => ~Fresh(q)'
               /\ x.fetch[q] = "done" /\ q \in x.want => cache'[q] # None /\ cache'[q].expires > x.asked
    BY <1>2, <2>1, <2>2 DEF Asking, Fresh
  <2>3. /\ x.fetch[s] # "no" /\ (x.fetch[s] = "messages" => s = "sachet")
        /\ x.fetch[s] \in {"reading", "messages"} => ~Fresh(s)'
        /\ x.fetch[s] = "done" /\ s \in x.want => cache'[s] # None /\ cache'[s].expires > x.asked
    <3>1. CASE x.fetch[s] = "done" /\ cache'[s] # None /\ cache'[s].expires > clock
      <4>1. cache'[s].expires \in Nat
        BY <3>1 DEF Entries
      <4> QED
        BY <1>2, <2>1, <3>1, <4>1
    <3>2. CASE x.fetch[s] = "messages" /\ s = "sachet" /\ cache' = cache
      BY <1>2, <2>1, <3>2 DEF Asking, Fresh
    <3> QED
      BY <3>1, <3>2
  <2> QED
    BY <1>1, <2>1, <2>2, <2>3 DEF Asking, RestListed
<1> QED
  BY <1>3, <1>4, <1>5, <1>6, <1>7 DEF IInv

-----------------------------------------------------------------------------
(* The steps.                                                              *)

\* The call for a bulletin ends, well or not.
LEMMA ReadBulletinStep ==
    ASSUME IInv, NEW t \in Task, NEW b \in Bulletin, NEW ok \in BOOLEAN, ReadBulletin(t, b, ok)
    PROVE  IInv'
<1>1. /\ b \in Source /\ b # "sachet" /\ task[t].fetch[b] = "reading" /\ task[t] \in Request
      /\ Latest(issued[b]) \in Times
  <2>1. Latest(issued[b]) \in issued[b]
    BY DEF IInv, Dated, Latest
  <2> QED
    BY <2>1, Numbers DEF IInv, TypeOK, ReadBulletin
<1>2. PICK x : x = [task[t] EXCEPT !.fetch = [task[t].fetch EXCEPT ![b] = "done"]]
  OBVIOUS
<1>3. x.fetch \in [Source -> {"no", "reading", "messages", "done"}]
  BY <1>1, <1>2 DEF Request
<1>4. /\ x \in Request /\ x.pc = task[t].pc /\ x.want = task[t].want /\ x.asked = task[t].asked
      /\ x.listed = task[t].listed /\ x.unread = task[t].unread /\ x.rest = task[t].rest
      /\ x.fetch[b] = "done" /\ \A q \in Source \ {b} : x.fetch[q] = task[t].fetch[q]
  BY <1>1, <1>2, <1>3 DEF Request
<1>5. task' = [task EXCEPT ![t] = x]
  BY <1>1, <1>2 DEF ReadBulletin, IInv, TypeOK, Request
<1>6. /\ cache' \in [Source -> Entries \cup {None}]
      /\ \A q \in Source : cache'[q] # None => cache'[q].unread \subseteq cache'[q].listed
      /\ \A q \in Source : Honest(q)'
      /\ cache'[b] # None /\ cache'[b].expires > clock
  <2>1. cache' = [cache EXCEPT ![b] = Entry(b, ok, Latest(issued[b]), {}, {})] /\ UNCHANGED <<clock, issued>>
    BY DEF ReadBulletin
  <2>2. {} \in SUBSET Message /\ {} \in SUBSET {}
    OBVIOUS
  <2> QED
    BY <1>1, <2>1, <2>2, EntryHonest
<1>7. \A q \in Source \ {b} : cache'[q] = cache[q]
  BY DEF ReadBulletin, IInv, TypeOK
<1>8. x.pc = "fetching"
  BY <1>1, <1>4, OneReads
<1>9. x.unread \subseteq x.listed /\ RestListed(x)
  BY <1>1, <1>4, Numbers DEF IInv, TypeOK, Asking, RestListed
<1>10. UNCHANGED <<clock, issued, feed, queue>> /\ read' \subseteq Message
  BY DEF ReadBulletin, IInv, TypeOK
<1>11. task[t].fetch[b] \in {"reading", "messages"}
  BY <1>1
<1>12. /\ b \in Source /\ x \in Request /\ x.want = task[t].want /\ x.asked = task[t].asked
       /\ x.fetch[b] = "done" /\ cache'[b] # None /\ cache'[b].expires > clock
       /\ \A q \in Source \ {b} : x.fetch[q] = task[t].fetch[q]
  BY <1>1, <1>4, <1>6
<1> QED
  BY <1>5, <1>6, <1>7, <1>8, <1>9, <1>10, <1>11, <1>12, ReadGoes

\* The messages of the feed are read one after the other, or its list failed.
LEMMA FeedGoes ==
    ASSUME IInv, NEW t \in Task, task[t].fetch["sachet"] \in {"reading", "messages"},
           UNCHANGED <<clock, issued, feed, queue>>, read' \subseteq Message,
           NEW listed \in SUBSET Message, NEW unread \in SUBSET listed, NEW rest \in Seq(Message),
           \A i \in DOMAIN rest : rest[i] \in listed,
           Proceed(t, listed, unread, rest)
    PROVE  IInv'
<1>1. task[t] \in Request /\ task \in [Task -> Request] /\ task[t].pc = "fetching" /\ "sachet" \in Source
  BY OneReads, Numbers DEF IInv, TypeOK
<1>2. CASE rest = <<>>
  <2>1. PICK x : x = [task[t] EXCEPT !.fetch = [task[t].fetch EXCEPT !["sachet"] = "done"], !.listed = {},
                                     !.unread = {}, !.rest = <<>>]
    OBVIOUS
  <2>2. x.fetch \in [Source -> {"no", "reading", "messages", "done"}]
    BY <1>1, <2>1 DEF Request
  <2>3. /\ x \in Request /\ x.pc = "fetching" /\ x.want = task[t].want /\ x.asked = task[t].asked
        /\ x.unread \subseteq x.listed /\ x.fetch["sachet"] = "done"
        /\ \A q \in Source \ {"sachet"} : x.fetch[q] = task[t].fetch[q]
    <3>0. PICK nothing \in SUBSET Message : nothing = {}
      OBVIOUS
    <3>1. x = [task[t] EXCEPT !.fetch = [task[t].fetch EXCEPT !["sachet"] = "done"],
                              !.listed = nothing, !.unread = nothing, !.rest = rest]
      BY <1>2, <2>1, <3>0
    <3>2. x \in Request
      BY <1>1, <2>2, <3>1 DEF Request
    <3>3. x.pc = "fetching" /\ x.want = task[t].want /\ x.asked = task[t].asked
      BY <1>1, <3>1 DEF Request
    <3>4. x.unread = x.listed
      BY <1>1, <3>1 DEF Request
    <3>5. x.fetch["sachet"] = "done"
        /\ \A q \in Source \ {"sachet"} : x.fetch[q] = task[t].fetch[q]
      BY <1>1, <3>1 DEF Request
    <3> QED
      BY <3>2, <3>3, <3>4, <3>5
  <2>4. task' = [task EXCEPT ![t] = x]
    BY <1>1, <1>2, <2>1 DEF Proceed, Request
  <2>5. /\ cache' \in [Source -> Entries \cup {None}]
        /\ \A q \in Source : cache'[q] # None => cache'[q].unread \subseteq cache'[q].listed
        /\ \A q \in Source : Honest(q)'
        /\ cache'["sachet"] # None /\ cache'["sachet"].expires > clock
    <3>1. cache' = [cache EXCEPT !["sachet"] = Entry("sachet", TRUE, 0, listed, unread)]
      BY <1>2 DEF Proceed
    <3>2. 0 \in Times /\ TRUE \in BOOLEAN
      BY Numbers DEF Times
    <3> QED
      BY <3>1, <3>2, Numbers, EntryHonest
  <2>6. \A q \in Source \ {"sachet"} : cache'[q] = cache[q]
    BY <1>2 DEF Proceed, IInv, TypeOK
  <2> QED
    BY <1>1, <2>3, <2>4, <2>5, <2>6, ReadGoes DEF RestListed
<1>3. CASE rest # <<>>
  <2>1. PICK x : x = [task[t] EXCEPT !.fetch = [task[t].fetch EXCEPT !["sachet"] = "messages"],
                                     !.listed = listed, !.unread = unread, !.rest = rest]
    OBVIOUS
  <2>2. x.fetch \in [Source -> {"no", "reading", "messages", "done"}]
    BY <1>1, <2>1 DEF Request
  <2>3. /\ x \in Request /\ x.pc = "fetching" /\ x.want = task[t].want /\ x.asked = task[t].asked
        /\ x.unread \subseteq x.listed /\ x.fetch["sachet"] = "messages"
        /\ x.rest # <<>> /\ \A i \in DOMAIN x.rest : x.rest[i] \in x.listed
        /\ \A q \in Source \ {"sachet"} : x.fetch[q] = task[t].fetch[q]
    BY <1>1, <1>3, <2>1, <2>2 DEF Request
  <2>4. task' = [task EXCEPT ![t] = x] /\ cache' = cache
    BY <1>1, <1>3, <2>1 DEF Proceed, Request
  <2>5. /\ cache' \in [Source -> Entries \cup {None}]
        /\ \A q \in Source : cache'[q] # None => cache'[q].unread \subseteq cache'[q].listed
        /\ \A q \in Source : Honest(q)'
    <3>1. \A q \in Source : Honest(q)'
      BY <2>4 DEF IInv, Honest
    <3> QED
      BY <2>4, <3>1 DEF IInv, TypeOK
  <2> QED
    BY <1>1, <2>3, <2>4, <2>5, ReadGoes DEF RestListed
<1> QED
  BY <1>2, <1>3

\* The newest messages, and what is left of them.
LEMMA NewestType ==
    ASSUME feed \in Seq(Message)
    PROVE  Newest \in Seq(Message) /\ {Newest[i] : i \in DOMAIN Newest} \in SUBSET Message
<1>1. Len(feed) \in Nat /\ MaxAlerts \in Nat
  BY OfficialAssumption
<1>2. PICK n \in Nat : n = (IF Len(feed) < MaxAlerts THEN Len(feed) ELSE MaxAlerts) /\ n <= Len(feed)
  BY <1>1
<1>3. Newest \in Seq(Message)
  BY <1>2 DEF Newest
<1> QED
  BY <1>3

\* The call for the feed ends, well or not.
LEMMA ReadFeedStep ==
    ASSUME IInv, NEW t \in Task, NEW ok \in BOOLEAN, ReadFeed(t, ok)
    PROVE  IInv'
<1>1. /\ task[t].fetch["sachet"] = "reading" /\ UNCHANGED <<clock, issued, feed, read, queue>>
      /\ read' \subseteq Message
  BY DEF ReadFeed, IInv, TypeOK
<1>2. CASE ok
  <2>1. Newest \in Seq(Message) /\ {Newest[i] : i \in DOMAIN Newest} \in SUBSET Message
    BY NewestType DEF IInv, TypeOK
  <2>2. Proceed(t, {Newest[i] : i \in DOMAIN Newest}, {}, Newest)
    BY <1>2 DEF ReadFeed
  <2>3. /\ {} \in SUBSET {Newest[i] : i \in DOMAIN Newest}
        /\ \A j \in DOMAIN Newest : Newest[j] \in {Newest[i] : i \in DOMAIN Newest}
    OBVIOUS
  <2> QED
    BY <1>1, <2>1, <2>2, <2>3, FeedGoes
<1>3. CASE ~ok
  <2>1. task[t] \in Request /\ task[t].pc = "fetching" /\ "sachet" \in Source
    BY <1>1, OneReads, Numbers DEF IInv, TypeOK
  <2>2. PICK x : x = [task[t] EXCEPT !.fetch = [task[t].fetch EXCEPT !["sachet"] = "done"]]
    OBVIOUS
  <2>3. x.fetch \in [Source -> {"no", "reading", "messages", "done"}]
    BY <2>1, <2>2 DEF Request
  <2>4. /\ x \in Request /\ x.pc = "fetching" /\ x.want = task[t].want /\ x.asked = task[t].asked
        /\ x.listed = task[t].listed /\ x.unread = task[t].unread /\ x.fetch["sachet"] = "done"
        /\ \A q \in Source \ {"sachet"} : x.fetch[q] = task[t].fetch[q]
    BY <2>1, <2>2, <2>3 DEF Request
  <2>5. task' = [task EXCEPT ![t] = x] /\ x.unread \subseteq x.listed
    BY <1>3, <2>1, <2>2, <2>4 DEF ReadFeed, IInv, TypeOK, Request
  <2>6. cache' = [cache EXCEPT !["sachet"] = Entry("sachet", FALSE, 0, {}, {})]
    BY <1>3 DEF ReadFeed
  <2>7. /\ cache' \in [Source -> Entries \cup {None}]
        /\ \A q \in Source : cache'[q] # None => cache'[q].unread \subseteq cache'[q].listed
        /\ \A q \in Source : Honest(q)'
        /\ cache'["sachet"] # None /\ cache'["sachet"].expires > clock
    <3>1. 0 \in Times /\ FALSE \in BOOLEAN /\ {} \in SUBSET Message /\ {} \in SUBSET {}
      BY Numbers DEF Times
    <3> QED
      BY <1>1, <2>6, <3>1, Numbers, EntryHonest
  <2>8. \A q \in Source \ {"sachet"} : cache'[q] = cache[q]
    BY <2>6 DEF IInv, TypeOK
  <2> QED
    BY <1>1, <2>1, <2>4, <2>5, <2>7, <2>8, ReadGoes DEF RestListed
<1> QED
  BY <1>2, <1>3

\* The call for the next message ends, well or not.
LEMMA ReadMessageStep ==
    ASSUME IInv, NEW t \in Task, NEW ok \in BOOLEAN, ReadMessage(t, ok)
    PROVE  IInv'
<1>1. /\ task[t].fetch["sachet"] = "messages" /\ task[t].rest # <<>>
      /\ task[t].rest \in Seq(Message) /\ task[t].listed \in SUBSET Message
      /\ task[t].unread \in SUBSET task[t].listed
  BY DEF ReadMessage, IInv, TypeOK, Request
<1>2. /\ Head(task[t].rest) \in task[t].listed /\ Head(task[t].rest) \in Message
      /\ Tail(task[t].rest) \in Seq(Message)
      /\ \A i \in DOMAIN Tail(task[t].rest) : Tail(task[t].rest)[i] \in task[t].listed
  <2>1. \A i \in DOMAIN task[t].rest : task[t].rest[i] \in task[t].listed
    BY <1>1 DEF IInv, Asking
  <2> QED
    BY <1>1, <2>1
<1>3. read' \subseteq Message /\ UNCHANGED <<clock, issued, feed, queue>>
  BY <1>2 DEF ReadMessage, IInv, TypeOK
<1>4. CASE ok
  BY <1>1, <1>2, <1>3, <1>4, FeedGoes DEF ReadMessage
<1>5. CASE ~ok
  <2>1. /\ Proceed(t, task[t].listed, task[t].unread \cup {Head(task[t].rest)}, Tail(task[t].rest))
        /\ task[t].unread \cup {Head(task[t].rest)} \in SUBSET task[t].listed
    BY <1>1, <1>2, <1>5 DEF ReadMessage
  <2> QED
    BY <1>1, <1>2, <1>3, <2>1, FeedGoes
<1> QED
  BY <1>4, <1>5

\* Who does nothing has no call under way.
LEMMA IdleType == Idle \in Request /\ Idle.pc = "idle" /\ Idle.fetch["sachet"] = "no"
<1>1. <<>> \in Seq(Message) /\ 0 \in Times
  BY Numbers DEF Times
<1>2. [s \in Source |-> "no"] \in [Source -> {"no", "reading", "messages", "done"}]
  OBVIOUS
<1> QED
  BY <1>1, <1>2, Numbers DEF Idle, Request

\* A request comes, or takes or releases the lock; answers stay.
LEMMA LineMoves ==
    ASSUME IInv, NEW t \in Task, NEW x \in Request, task' = [task EXCEPT ![t] = x],
           UNCHANGED <<clock, issued, feed, cache, read>>,
           queue' \in Seq(Task), InLine', Asking(t)',
           x.unread \subseteq x.listed, x.fetch["sachet"] # "messages"
    PROVE  IInv'
<1>1. task'[t] = x /\ \A u \in Task \ {t} : task'[u] = task[u]
  BY DEF IInv, TypeOK
<1>2. TypeOK'
  BY <1>1 DEF IInv, TypeOK
<1>3. \A b \in Bulletin : Dated(b)'
  BY DEF IInv, Dated
<1>4. clock' \in Nat /\ clock <= clock'
  BY Numbers DEF IInv, TypeOK, Times
<1>5. \A s \in Source : Honest(s)'
  BY DEF IInv, Honest
<1>6. \A u \in Task : Asking(u)'
  BY <1>1, <1>4, RequestRests DEF IInv
<1> QED
  BY <1>2, <1>3, <1>5, <1>6 DEF IInv

\* A request joins the line.
LEMMA AskStep ==
    ASSUME IInv, NEW t \in Task, NEW want \in Wanted, Ask(t, want)
    PROVE  IInv'
<1>1. PICK x : x = [Idle EXCEPT !.pc = "waiting", !.want = want, !.asked = clock]
  OBVIOUS
<1>2. want \in SUBSET Source /\ clock \in Times /\ clock \in Nat
  BY Numbers, OfficialAssumption DEF IInv, TypeOK, Wanted, Times, Source
<1>3. /\ x \in Request /\ x.pc = "waiting" /\ x.asked = clock
      /\ x.fetch = Idle.fetch /\ x.unread = Idle.unread
  BY <1>1, <1>2, IdleType DEF Request
<1>4. /\ task' = [task EXCEPT ![t] = x] /\ task'[t] = x /\ queue' = Append(queue, t)
      /\ UNCHANGED <<clock, issued, feed, cache, read>> /\ task[t].pc = "idle"
      /\ \A u \in Task \ {t} : task'[u] = task[u]
  BY <1>1, IdleType DEF Ask, IInv, TypeOK
<1>5. /\ queue \in Seq(Task) /\ queue' \in Seq(Task) /\ DOMAIN queue = 1..Len(queue) /\ Len(queue) \in Nat
      /\ DOMAIN queue' = 1..(Len(queue)+1) /\ \A i \in DOMAIN queue : queue'[i] = queue[i]
      /\ queue'[Len(queue)+1] = t /\ (queue # <<>> => queue' # <<>> /\ Head(queue') = Head(queue))
  <2>1. queue \in Seq(Task) /\ Len(queue) \in Nat /\ DOMAIN queue = 1..Len(queue)
    BY DEF IInv, TypeOK
  <2>2. /\ queue' \in Seq(Task) /\ DOMAIN queue' = 1..(Len(queue)+1) /\ queue'[Len(queue)+1] = t
        /\ \A i \in DOMAIN queue : queue'[i] = queue[i]
    BY <1>4, <2>1
  <2>3. queue # <<>> => queue' # <<>> /\ Head(queue') = Head(queue)
    <3> SUFFICES ASSUME queue # <<>> PROVE queue' # <<>> /\ queue'[1] = queue[1]
      BY <2>1, <2>2
    <3>1. 1 \in DOMAIN queue /\ 1 \in DOMAIN queue'
      BY <2>1, <2>2
    <3> QED
      BY <2>2, <3>1
  <2> QED
    BY <2>1, <2>2, <2>3
<1>6. \A i \in DOMAIN queue : queue[i] # t
  BY <1>4 DEF IInv, InLine
<1>7. InLine'
  <2>1. \A i, j \in DOMAIN queue' : queue'[i] = queue'[j] => i = j
    BY <1>5, <1>6 DEF IInv, InLine
  <2>2. \A u \in Task : task'[u].pc # "idle" <=> \E i \in DOMAIN queue' : queue'[i] = u
    BY <1>3, <1>4, <1>5 DEF IInv, InLine
  <2>3. \A u \in Task : task'[u].pc = "fetching" => queue' # <<>> /\ Head(queue') = u
    BY <1>3, <1>4, <1>5 DEF IInv, InLine
  <2> QED
    BY <2>1, <2>2, <2>3 DEF InLine
<1>8. Asking(t)'
  BY <1>2, <1>3, <1>4, IdleType DEF Asking, Idle
<1>9. x.unread \subseteq x.listed /\ x.fetch["sachet"] # "messages"
  BY <1>3, IdleType DEF Idle
<1> QED
  BY <1>3, <1>4, <1>5, <1>7, <1>8, <1>9, LineMoves

\* Whose turn it is looks at the caches and calls what is out of date.
LEMMA StartStep ==
    ASSUME IInv, NEW t \in Task, Start(t)
    PROVE  IInv'
<1> DEFINE f == [s \in Source |-> IF s \in task[t].want /\ ~Fresh(s) THEN "reading" ELSE "done"]
<1>1. PICK x : x = [task[t] EXCEPT !.pc = "fetching", !.fetch = f]
  OBVIOUS
<1>2. /\ f \in [Source -> {"no", "reading", "messages", "done"}]
      /\ \A s \in Source : f[s] = IF s \in task[t].want /\ ~Fresh(s) THEN "reading" ELSE "done"
  OBVIOUS
<1>3. task' = [task EXCEPT ![t] = x]
  BY <1>1 DEF Start, IInv, TypeOK, Request
<1> HIDE DEF f
<1>4. /\ x \in Request /\ x.pc = "fetching" /\ x.asked = task[t].asked /\ x.want = task[t].want
      /\ x.fetch = f /\ x.unread = task[t].unread /\ x.listed = task[t].listed
  BY <1>1, <1>2 DEF IInv, TypeOK, Request
<1>5. /\ task'[t] = x /\ \A u \in Task \ {t} : task'[u] = task[u]
      /\ UNCHANGED <<clock, issued, feed, cache, read, queue>>
  BY <1>3 DEF Start, IInv, TypeOK
<1>6. InLine'
  <2>1. /\ task[t].pc # "idle" /\ queue # <<>> /\ Head(queue) = t
        /\ \A u \in Task \ {t} : task[u].pc # "fetching"
    BY DEF Start, Turn, IInv, InLine
  <2>2. \A u \in Task : task'[u].pc # "idle" <=> task[u].pc # "idle"
    BY <1>4, <1>5, <2>1
  <2>3. \A u \in Task : task'[u].pc = "fetching" => u = t
    BY <1>4, <1>5, <2>1
  <2> QED
    BY <1>5, <2>1, <2>2, <2>3 DEF IInv, InLine
<1>7. Asking(t)'
  <2>1. task[t].asked \in Nat /\ clock \in Nat /\ task[t].asked <= clock
    BY Numbers DEF IInv, TypeOK, Request, Asking, Times
  <2>2. \A s \in Source : Fresh(s) => cache[s] # None /\ cache[s].expires > task[t].asked
    BY <2>1, Numbers DEF Fresh, IInv, TypeOK, Entries
  <2>3. \A s \in Source : Fresh(s)' <=> Fresh(s)
    BY <1>5 DEF Fresh
  <2>4. x.fetch["sachet"] # "messages"
    BY <1>2, <1>4, Numbers
  <2> QED
    BY <1>2, <1>4, <1>5, <2>1, <2>2, <2>3, <2>4 DEF Asking
<1>8. x.unread \subseteq x.listed /\ x.fetch["sachet"] # "messages" /\ queue' \in Seq(Task)
  BY <1>2, <1>4, <1>5, Numbers DEF IInv, TypeOK
<1> QED
  BY <1>3, <1>4, <1>5, <1>6, <1>7, <1>8, LineMoves

\* All calls have ended: the answer is given, and the line goes on.
LEMMA ServeStep ==
    ASSUME IInv, NEW t \in Task, Serve(t)
    PROVE  IInv'
<1>1. /\ task[t].pc = "fetching" /\ queue' = Tail(queue) /\ task' = [task EXCEPT ![t] = Idle]
      /\ UNCHANGED <<clock, issued, feed, cache, read>>
      /\ task'[t] = Idle /\ \A u \in Task \ {t} : task'[u] = task[u]
  BY DEF Serve, Ready, IInv, TypeOK
<1>2. /\ queue \in Seq(Task) /\ queue # <<>> /\ Head(queue) = t /\ Len(queue) \in Nat /\ Len(queue) >= 1
      /\ DOMAIN queue = 1..Len(queue) /\ queue[1] = t
      /\ queue' \in Seq(Task) /\ DOMAIN queue' = 1..(Len(queue)-1)
      /\ \A i \in DOMAIN queue' : queue'[i] = queue[i+1]
  BY <1>1 DEF IInv, TypeOK, InLine
<1>3. InLine'
  <2>1. \A i, j \in DOMAIN queue' : queue'[i] = queue'[j] => i = j
    BY SMTT(30), <1>2 DEF IInv, InLine
  <2>2. \A u \in Task \ {t} : (\E i \in DOMAIN queue : queue[i] = u) <=> \E i \in DOMAIN queue' : queue'[i] = u
    <3> SUFFICES ASSUME NEW u \in Task \ {t}, NEW i \in DOMAIN queue, queue[i] = u
                 PROVE  \E j \in DOMAIN queue' : queue'[j] = u
      BY <1>2
    <3>1. i - 1 \in DOMAIN queue' /\ queue'[i-1] = queue[i]
      BY <1>2
    <3> QED
      BY <3>1
  <2>3. \A i \in DOMAIN queue' : queue'[i] # t
    BY <1>2 DEF IInv, InLine
  <2>4. \A u \in Task : task'[u].pc # "idle" <=> \E i \in DOMAIN queue' : queue'[i] = u
    BY <1>1, <2>2, <2>3, IdleType DEF IInv, InLine
  <2>5. \A u \in Task : task'[u].pc # "fetching"
    BY <1>1, <1>2, IdleType DEF IInv, InLine
  <2> QED
    BY <2>1, <2>4, <2>5 DEF InLine
<1>4. Asking(t)'
  <2>1. clock \in Nat
    BY Numbers DEF IInv, TypeOK, Times
  <2> QED
    BY <1>1, <2>1, IdleType DEF Asking, Idle
<1>5. Idle.unread \subseteq Idle.listed /\ Idle \in Request /\ Idle.fetch["sachet"] # "messages"
  BY IdleType DEF Idle
<1> QED
  BY <1>1, <1>2, <1>3, <1>4, <1>5, LineMoves

\* IMD, NDMA and the clock.
LEMMA OutsideStep ==
    ASSUME IInv, Tick \/ (\E b \in Bulletin : Issue(b)) \/ \E m \in Message : Publish(m)
    PROVE  IInv'
<1>1. /\ UNCHANGED <<cache, read, queue, task>> /\ clock \in Nat /\ clock' \in Times /\ clock' \in Nat
      /\ clock <= clock'
  <2>1. clock \in Times /\ clock \in Nat /\ MaxClock \in Nat
    BY Numbers DEF IInv, TypeOK, Times
  <2>2. CASE Tick
    BY <2>1, <2>2 DEF Tick, Times
  <2>3. CASE (\E b \in Bulletin : Issue(b)) \/ \E m \in Message : Publish(m)
    <3>1. UNCHANGED <<clock, cache, read, queue, task>>
      BY <2>3 DEF Issue, Publish
    <3> QED
      BY <2>1, <3>1
  <2> QED
    BY <2>2, <2>3
<1>2. \A b \in Bulletin : /\ issued'[b] = issued[b] \/ (clock' = clock /\ issued'[b] = issued[b] \cup {clock})
                          /\ issued'[b] \subseteq issued[b] \cup {clock}
  BY DEF Tick, Issue, Publish, IInv, TypeOK
<1>3. TypeOK'
  <2>1. issued' \in [Bulletin -> SUBSET Times] /\ feed' \in Seq(Message)
    <3>1. issued' = issued \/ \E b \in Bulletin : issued' = [issued EXCEPT ![b] = @ \cup {clock}]
      BY DEF Tick, Issue, Publish
    <3>2. feed' = feed \/ \E m \in Message : feed' = <<m>> \o feed
      BY DEF Tick, Issue, Publish
    <3>3. clock \in Times /\ issued \in [Bulletin -> SUBSET Times] /\ feed \in Seq(Message)
      BY DEF IInv, TypeOK
    <3>4. \A b \in Bulletin : issued[b] \cup {clock} \in SUBSET Times
      BY <3>3
    <3>5. issued' \in [Bulletin -> SUBSET Times]
      BY <3>1, <3>3, <3>4
    <3>6. ASSUME NEW m \in Message PROVE <<m>> \o feed \in Seq(Message)
      <4>1. <<m>> \in Seq(Message)
        OBVIOUS
      <4> QED
        BY <3>3, <4>1
    <3> QED
      BY <3>2, <3>3, <3>5, <3>6
  <2> QED
    BY <1>1, <2>1 DEF IInv, TypeOK
<1>4. InLine'
  BY <1>1 DEF IInv, InLine
<1>5. ASSUME NEW b \in Bulletin PROVE Dated(b)'
  <2>1. PICK m \in issued[b] : \A i \in issued[b] : i <= m
    BY DEF IInv, Dated
  <2>2. issued[b] \subseteq 0..clock
    BY DEF IInv, Dated
  <2>3. CASE issued'[b] = issued[b]
    BY <1>1, <2>1, <2>2, <2>3 DEF Dated
  <2>4. CASE clock' = clock /\ issued'[b] = issued[b] \cup {clock}
    <3>1. \A i \in issued'[b] : i <= clock
      BY <1>1, <2>2, <2>4
    <3> QED
      BY <1>1, <2>2, <2>4, <3>1 DEF Dated
  <2> QED
    BY <1>2, <2>3, <2>4
<1>6. \A s \in Source : Honest(s)'
  BY <1>1, <1>2, AnswerRests DEF IInv
<1>7. \A t \in Task : Asking(t)'
  BY <1>1, RequestRests DEF IInv
<1> QED
  BY <1>3, <1>4, <1>5, <1>6, <1>7 DEF IInv

\* Nothing is cached at the start.
LEMMA InitInv == Init => IInv
<1> SUFFICES ASSUME Init PROVE IInv
  OBVIOUS
<1>1. 0 \in Times /\ <<>> \in Seq(Message) /\ <<>> \in Seq(Task) /\ 0 \in 0..0
  BY Numbers DEF Times
<1>2. TypeOK
  <2>1. issued \in [Bulletin -> SUBSET Times]
    BY <1>1 DEF Init
  <2>2. cache \in [Source -> Entries \cup {None}] /\ \A s \in Source : cache[s] = None
    BY DEF Init
  <2>3. task \in [Task -> Request] /\ \A t \in Task : task[t] = Idle
    BY IdleType DEF Init
  <2>4. Idle.unread \subseteq Idle.listed
    BY DEF Idle
  <2> QED
    BY <1>1, <2>1, <2>2, <2>3, <2>4, IdleType DEF Init, TypeOK
<1>3. InLine
  BY IdleType DEF Init, InLine
<1>4. \A b \in Bulletin : Dated(b)
  BY <1>1 DEF Init, Dated
<1>5. \A s \in Source : Honest(s)
  BY DEF Init, Honest
<1>6. \A t \in Task : Asking(t)
  BY <1>1, IdleType DEF Init, Asking, Idle
<1> QED
  BY <1>2, <1>3, <1>4, <1>5, <1>6 DEF IInv

\* Each action keeps the invariant, in whatever order the calls end.
LEMMA InvStep == IInv /\ [Next]_vars => IInv'
<1> SUFFICES ASSUME IInv, [Next]_vars PROVE IInv'
  OBVIOUS
<1>1. CASE UNCHANGED vars
  <2>1. TypeOK'
    BY <1>1 DEF vars, IInv, TypeOK
  <2>2. InLine' /\ \A b \in Bulletin : Dated(b)'
    BY <1>1 DEF vars, IInv, InLine, Dated
  <2>3. (\A s \in Source : Honest(s)') /\ \A t \in Task : Asking(t)'
    BY <1>1 DEF vars, IInv, Honest, Asking, Fresh
  <2> QED
    BY <2>1, <2>2, <2>3 DEF IInv
<1>2. ASSUME NEW t \in Task, (\E want \in Wanted : Ask(t, want)) \/ Start(t) \/ Serve(t) PROVE IInv'
  BY <1>2, AskStep, StartStep, ServeStep
<1>3. ASSUME NEW t \in Task, NEW ok \in BOOLEAN,
             (\E b \in Bulletin : ReadBulletin(t, b, ok)) \/ ReadFeed(t, ok) \/ ReadMessage(t, ok)
      PROVE  IInv'
  BY <1>3, ReadBulletinStep, ReadFeedStep, ReadMessageStep
<1>4. CASE Tick \/ (\E b \in Bulletin : Issue(b)) \/ \E m \in Message : Publish(m)
  BY <1>4, OutsideStep
<1> QED
  BY <1>1, <1>2, <1>3, <1>4 DEF Next

-----------------------------------------------------------------------------
(* The theorems.                                                           *)

\* The inductive invariant, for any number of requests and sources.
THEOREM Invariant == Spec => []IInv
BY InitInv, InvStep, PTL DEF Spec

\* OfficialService.lock: no source is asked by two requests at once, nor while
\* its last answer is good enough.
THEOREM SourcesSpared == Spec => []AskedSparingly
<1>1. IInv => AskedSparingly
  <2> SUFFICES ASSUME IInv, NEW t \in Task, NEW s \in Source, task[t].fetch[s] \in {"reading", "messages"}
               PROVE  /\ ~Fresh(s)
                      /\ \A u \in Task \ {t} : task[u].fetch[s] \notin {"reading", "messages"}
    BY DEF AskedSparingly
  <2>1. task[t].pc = "fetching" /\ \A u \in Task \ {t} : task[u].pc # "fetching"
    BY OneReads
  <2> QED
    BY <2>1 DEF IInv, Asking
<1> QED
  BY <1>1, Invariant, PTL

\* OfficialService.warnings: what a request is told was found out less than its
\* time to live before it came, and no bulletin issued before that is missed.
THEOREM ToldInTime == Spec => []FreshEnough
<1>1. IInv => FreshEnough
  <2> SUFFICES ASSUME IInv, NEW t \in Task, Ready(t), NEW s \in task[t].want
               PROVE  LET e == Answer(t).found[s] IN
                      /\ e # None /\ e.retrieved > task[t].asked - (IF e.ok THEN Ttl[s] ELSE FailTtl)
                      /\ s \in Answer(t).current =>
                            \A i \in issued[s] : i <= task[t].asked - Ttl[s] => i <= e.issued
    BY DEF FreshEnough
  <2>1. s \in Source /\ task[t].asked \in Nat
    BY Numbers DEF IInv, TypeOK, Request, Times
  <2>2. Answer(t).found[s] = cache[s]
    BY DEF Answer
  <2>3. cache[s] # None /\ cache[s].expires > task[t].asked
    BY <2>1 DEF Ready, IInv, Asking
  <2>4. PICK e \in Entries : e = cache[s]
    BY <2>1, <2>3 DEF IInv, TypeOK
  <2>5. /\ e.retrieved \in Nat /\ e.ok \in BOOLEAN /\ Keep(s, e.ok) \in Nat
        /\ e.expires = e.retrieved + Keep(s, e.ok)
    BY <2>1, <2>3, <2>4, Numbers DEF IInv, Honest, Entries, Times
  <2>6. e.retrieved > task[t].asked - Keep(s, e.ok)
    BY <2>1, <2>3, <2>4, <2>5
  <2>7. ASSUME s \in Answer(t).current, NEW i \in issued[s], i <= task[t].asked - Ttl[s]
        PROVE  i <= e.issued
    <3>1. s \in Bulletin /\ Shown(s)
      BY <2>7 DEF Answer
    <3>2. e.ok /\ Ttl[s] = Keep(s, e.ok)
      BY <2>4, <3>1 DEF Shown, Keep
    <3>3. i \in Nat
      BY <3>1, Numbers DEF IInv, TypeOK, Times
    <3>4. i < e.retrieved
      <4>1. i <= task[t].asked - Keep(s, e.ok)
        BY <2>7, <3>2
      <4> QED
        BY <2>1, <2>5, <2>6, <3>3, <4>1
    <3> QED
      BY <2>1, <2>3, <2>4, <3>1, <3>4 DEF IInv, Honest
  <2> QED
    BY <2>2, <2>3, <2>4, <2>6, <2>7 DEF Keep
<1> QED
  BY <1>1, Invariant, PTL

\* OfficialService.sachet and active: an answer that does not say something is
\* missing shows every alert of the newest messages that holds, and none shows
\* more.
THEOREM GapsAreSaid == Spec => []NoSilentGap
<1>1. IInv => NoSilentGap
  <2> SUFFICES ASSUME IInv, NEW t \in Task, Ready(t), "sachet" \in task[t].want PROVE
        LET listed == cache["sachet"].listed
            Cancelled == {m \in Message : \E c \in listed : Cancels[c] = m}
            Valid == Unexpired(Warnings(listed))
        IN  /\ Answer(t).alerts \subseteq Valid
            /\ Answer(t).status = "available" => Answer(t).alerts = Valid \ Cancelled
            /\ Answer(t).status \in {"unavailable", "error"} => Answer(t).alerts = {}
    BY DEF NoSilentGap
  <2>1. cache["sachet"] # None
    BY Numbers DEF Ready, IInv, Asking
  <2>2. PICK e \in Entries : e = cache["sachet"]
    BY <2>1, Numbers DEF IInv, TypeOK
  <2>3. /\ e.listed \subseteq Message /\ e.ok \in BOOLEAN /\ (~e.ok => e.listed = {})
    BY <2>1, <2>2, Numbers DEF IInv, Honest, Entries
  <2>4. CASE Fails(e.listed \ e.unread)
    <3>1. Answer(t).alerts = {} /\ Answer(t).status = "error"
      BY <2>2, <2>4 DEF Answer
    <3> QED
      BY <3>1
  <2>5. CASE ~Fails(e.listed \ e.unread)
    <3>1. Answer(t).alerts = Active(e.listed \ e.unread) /\ Answer(t).status = FeedStatus(e)
      BY <2>2, <2>5 DEF Answer
    <3>2. Active(e.listed \ e.unread) \subseteq Unexpired(Warnings(e.listed))
      BY DEF Active, Unexpired, Warnings
    <3>3. CASE ~e.ok
      <4>1. Active(e.listed \ e.unread) = {} /\ FeedStatus(e) = "unavailable"
        BY <2>3, <3>3 DEF Active, Unexpired, Warnings, FeedStatus
      <4> QED
        BY <3>1, <4>1
    <3>4. CASE e.ok /\ e.unread # {}
      <4>1. FeedStatus(e) = "partial"
        BY <3>4 DEF FeedStatus
      <4> QED
        BY <2>2, <3>1, <3>2, <4>1
    <3>5. CASE e.ok /\ e.unread = {}
      <4>1. Active(e.listed) = Unexpired(Warnings(e.listed))
                                \ {m \in Message : \E c \in e.listed : Cancels[c] = m}
        BY <2>3 DEF Active, Unexpired, Warnings
      <4>2. e.listed \ e.unread = e.listed /\ FeedStatus(e) = "available"
        BY <3>5 DEF FeedStatus
      <4> QED
        BY <2>2, <3>1, <4>1, <4>2
    <3> QED
      BY <3>3, <3>4, <3>5
  <2> QED
    BY <2>4, <2>5
<1> QED
  BY <1>1, Invariant, PTL

=============================================================================
