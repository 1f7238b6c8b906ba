--------------------- MODULE DistrictSubscriptions_proofs ---------------------
(***************************************************************************)
(* Proofs about DistrictSubscriptions, for any number of people, districts *)
(* and webhook threads, any configuration and any number of commands.      *)
(***************************************************************************)
EXTENDS DistrictSubscriptions, WellFoundedInduction, TLAPS

Entry == Order \cup Refusal
Newer(a, b) == ~NoNewer(a, b)

\* Commands are numbered and dated in the order people send them, and name a
\* district exactly when they are about one.
CommandsInOrder ==
    /\ Len(sent) <= MaxUpdates
    /\ \A i, j \in DOMAIN sent : i < j => Newer(sent[j], sent[i])
    /\ \A i \in DOMAIN sent : /\ sent[i].at <= WholeSeconds(clock)
                              /\ sent[i].district = None <=> sent[i].action \in {"stop", "start"}

\* A thread inside its transaction: its command was sent after every command in
\* the log, and a subscriber it did not find is still missing.
Fresh(w) ==
    LET c == Command(w) IN
    /\ c.action # "start"
    /\ \A i \in DOMAIN audit[c.key] :
          audit[c.key][i].action # "blocked" => Newer(c, audit[c.key][i])
    /\ work[w].pc # "row" /\ ~work[w].row => subscriber[c.key] = None

\* What a thread about to commit found in place is there, or was taken away by
\* the refusal that is the last entry of the log.
Found(w) ==
    LET c == Command(w)  n == Len(audit[c.key]) IN
    /\ c.action = "subscribe"
    /\ \/ subscriber[c.key] # None /\ c.district \in districts[c.key]
       \/ subscriber[c.key] = None /\ n > 0 /\ audit[c.key][n].action = "blocked"

Working(w) ==
    /\ work[w].pc = "handle" \/ Holds(w) => Public(Command(w).key)
    /\ Holds(w) => Fresh(w)
    /\ work[w].pc = "commit" => Found(w)

\* One thread at a time is in a transaction of a key: it holds the advisory lock.
OneWriter == \A v, w \in Worker :
    Holds(v) /\ Holds(w) /\ v # w => Command(v).key # Command(w).key

\* The entries of a log that are last.
End(log) == {r \in {log[i] : i \in DOMAIN log} : \A i \in DOMAIN log : NoNewer(log[i], r)}

\* The positions in sent of the commands applied to a key.
Applied(k) == {i \in DOMAIN sent : \E j \in DOMAIN audit[k] : audit[k][j] = sent[i]}

\* Chat ID, districts and log of a key agree; log and commands have a last.
Consistent(k) ==
    /\ subscriber[k] # None <=> districts[k] # {}
    /\ \A r \in LastRows(k) : /\ r.action = "stop" => subscriber[k] = None
                              /\ r.action = "unsubscribe" => r.district \notin districts[k]
    /\ \A i \in DOMAIN audit[k] : audit[k][i].action = "blocked" /\ subscriber[k] # None
          => \E j \in DOMAIN audit[k] : j > i /\ audit[k][j].action = "subscribe"
    /\ subscriber[k] # None /\ subscriber[k].demonstration => k \in TestChats
    /\ audit[k] # <<>> => LastRows(k) # {}
    /\ Applied(k) # {} => \E p \in Applied(k) : \A q \in Applied(k) : q <= p

IInv ==
    /\ TypeOK /\ CommandsInOrder /\ OneWriter
    /\ \A w \in Worker : Working(w)
    /\ \A k \in Key : Consistent(k)

-----------------------------------------------------------------------------
(* The order of commands.                                                  *)

\* An entry is dated and numbered.
LEMMA EntryType ==
    ASSUME NEW a \in Entry
    PROVE  a.at \in Nat /\ a.id \in Nat /\ a.at \in 0..MaxClock
BY ConsentAssumption DEF Entry, Order, Refusal

\* Entries are ordered by time and update identifier.
LEMMA Ordered ==
    /\ \A a \in Entry : NoNewer(a, a)
    /\ \A a, b \in Entry : NoNewer(a, b) \/ NoNewer(b, a)
    /\ \A a, b, c \in Entry : NoNewer(a, b) /\ NoNewer(b, c) => NoNewer(a, c)
BY EntryType DEF NoNewer

\* A log with one entry more has a last entry: one of those before or the new one.
LEMMA EndGrows ==
    ASSUME NEW log \in Seq(Entry), log # <<>> => End(log) # {}, NEW r \in Entry
    PROVE  LET more == Append(log, r) IN
           /\ End(more) # {} /\ End(more) \subseteq End(log) \cup {r}
           /\ \A e \in End(more) : NoNewer(r, e)
<1> DEFINE more == Append(log, r)
           n == Len(log)
<1>1. /\ n \in Nat /\ DOMAIN log = 1..n /\ DOMAIN more = 1..(n+1)
      /\ \A i \in 1..n : more[i] = log[i] /\ log[i] \in Entry
      /\ more[n+1] = r
  OBVIOUS
<1> HIDE DEF more
<1>2. End(more) \subseteq End(log) \cup {r}
  <2> SUFFICES ASSUME NEW e \in End(more), e # r PROVE e \in End(log)
    OBVIOUS
  <2>1. PICK i \in DOMAIN more : e = more[i]
    BY DEF End
  <2>2. i \in 1..n
    BY <1>1, <2>1
  <2>3. \A j \in DOMAIN log : NoNewer(log[j], e)
    BY <1>1 DEF End
  <2> QED
    BY <1>1, <2>1, <2>2, <2>3 DEF End
<1>3. \A e \in End(more) : NoNewer(r, e)
  BY <1>1 DEF End
<1>4. End(more) # {}
  <2>1. CASE log = <<>>
    <3>1. n = 0 /\ DOMAIN more = {1} /\ more[1] = r
      BY <1>1, <2>1
    <3>2. r \in End(more)
      BY <3>1, Ordered DEF End
    <3> QED
      BY <3>2
  <2>2. CASE log # <<>>
    <3>1. PICK l \in End(log) : TRUE
      BY <2>2
    <3>2. l \in Entry /\ \A i \in 1..n : NoNewer(log[i], l)
      BY <1>1 DEF End
    <3>3. PICK m \in 1..n : l = log[m]
      BY <1>1 DEF End
    <3>4. CASE NoNewer(r, l)
      <4>1. \A i \in DOMAIN more : NoNewer(more[i], l)
        BY <1>1, <3>2, <3>4
      <4>2. m \in DOMAIN more /\ l = more[m]
        BY <1>1, <3>3
      <4>3. l \in End(more)
        BY <4>1, <4>2 DEF End
      <4> QED
        BY <4>3
    <3>5. CASE Newer(r, l)
      <4>1. \A i \in DOMAIN more : NoNewer(more[i], r)
        BY <1>1, <3>2, <3>5, Ordered DEF Newer
      <4>2. n + 1 \in DOMAIN more /\ r = more[n+1]
        BY <1>1
      <4>3. r \in End(more)
        BY <4>1, <4>2 DEF End
      <4> QED
        BY <4>3
    <3> QED
      BY <3>4, <3>5 DEF Newer
  <2> QED
    BY <2>1, <2>2
<1> QED
  BY <1>2, <1>3, <1>4 DEF more

-----------------------------------------------------------------------------
(* The parts of a step.                                                    *)

\* A row is never what stands for the absence of one.
LEMMA NotNone == /\ \A k \in Key : k # None
                 /\ \A d \in District : d # None
                 /\ \A x \in OptIn : x # None
                 /\ \A x \in Subscriber : x # None
BY ConsentAssumption

\* A command that was sent is an entry, and not one of those a broadcast writes.
LEMMA SentType ==
    ASSUME TypeOK, NEW u \in DOMAIN sent
    PROVE  /\ u \in 1..Len(sent) /\ u \in Nat
           /\ sent[u] \in Order /\ sent[u] \in Entry /\ sent[u].key \in Key
           /\ sent[u].action \in Commands /\ sent[u].action # "blocked"
<1>1. sent \in Seq(Order) /\ DOMAIN sent = 1..Len(sent)
  BY DEF TypeOK
<1>2. u \in 1..Len(sent) /\ u \in Nat /\ sent[u] \in Order
  BY <1>1
<1>3. sent[u].key \in Key /\ sent[u].action \in Commands
  BY <1>2 DEF Order
<1> QED
  BY <1>2, <1>3, ConsentAssumption DEF Entry

\* What a thread works on is a command that was sent.
LEMMA CommandType ==
    ASSUME TypeOK, NEW w \in Worker, work[w].pc # "idle"
    PROVE  /\ work[w].u \in DOMAIN sent /\ Command(w) \in Order /\ Command(w) \in Entry
           /\ Command(w).key \in Key /\ Command(w).action \in Commands
           /\ Command(w).action # "blocked"
<1>1. work[w].u \in DOMAIN sent
  BY DEF TypeOK
<1> QED
  BY <1>1, SentType DEF Command

\* A chat's log holds its own entries: of commands that were sent, and of broadcasts.
LEMMA LogType ==
    ASSUME TypeOK, NEW k \in Key
    PROVE  /\ audit[k] \in Seq(Entry) /\ LastRows(k) = End(audit[k])
           /\ DOMAIN audit[k] = 1..Len(audit[k])
           /\ \A i \in DOMAIN audit[k] :
                 audit[k][i] \in Entry /\ audit[k][i].key = k
                 /\ (audit[k][i].action = "blocked" \/ audit[k][i] \in Sent)
BY DEF TypeOK, LastRows, End, Entry

\* Whole seconds follow the clock.
LEMMA SecondsGrow ==
    ASSUME NEW a \in Nat, NEW b \in Nat, a <= b
    PROVE  /\ WholeSeconds(a) \in Nat /\ WholeSeconds(b) \in Nat
           /\ WholeSeconds(a) <= a /\ WholeSeconds(a) <= WholeSeconds(b)
<1>1. /\ a \div 2 \in Nat /\ a % 2 \in 0..1 /\ a = 2 * (a \div 2) + (a % 2)
      /\ b \div 2 \in Nat /\ b % 2 \in 0..1 /\ b = 2 * (b \div 2) + (b % 2)
  OBVIOUS
<1> QED
  BY <1>1 DEF WholeSeconds

\* Commands, stores and mode stay: keys stay consistent, and so does a thread
\* that does not move.
LEMMA KeyRests ==
    ASSUME NEW k \in Key, Consistent(k), UNCHANGED sent,
           subscriber'[k] = subscriber[k], districts'[k] = districts[k], audit'[k] = audit[k]
    PROVE  Consistent(k)'
BY DEF Consistent, LastRows, Applied

\* A thread's task stands while nobody writes the rows it has read.
LEMMA WorkerRests ==
    ASSUME TypeOK, NEW w \in Worker, Working(w), work'[w] = work[w], UNCHANGED <<mode, sent>>,
           Holds(w) => /\ subscriber'[Command(w).key] = subscriber[Command(w).key]
                       /\ districts'[Command(w).key] = districts[Command(w).key]
                       /\ audit'[Command(w).key] = audit[Command(w).key]
    PROVE  Working(w)'
<1>1. Command(w)' = Command(w)
  BY DEF Command
<1>2. CASE Holds(w)
  <2>1. Fresh(w)'
    BY <1>1, <1>2 DEF Working, Fresh
  <2>2. work[w].pc = "commit" => Found(w)'
    BY <1>1, <1>2 DEF Working, Found
  <2> QED
    BY <1>1, <1>2, <2>1, <2>2 DEF Working, Holds, Public, Demonstration
<1>3. CASE ~Holds(w)
  BY <1>1, <1>3 DEF Working, Holds, Public, Demonstration
<1> QED
  BY <1>2, <1>3

\* A thread goes on, without any effect on the stores of the districts.
LEMMA WorkerGoes ==
    ASSUME IInv, UNCHANGED <<clock, mode, sent, storeVars, blocked, sendVars>>,
           pending' \subseteq pending, optin' \in [Key -> OptIn \cup {None}],
           NEW w \in Worker, NEW x \in Task, work' = [work EXCEPT ![w] = x],
           IF x.pc = "idle" THEN x = Idle ELSE x.u \in DOMAIN sent,
           Working(w)',
           x.pc \in {"row", "write", "commit"}
             => \A v \in Worker \ {w} : Holds(v) => Command(v).key # sent[x.u].key
    PROVE  IInv'
<1> USE DEF IInv, storeVars, sendVars
<1>1. /\ work' \in [Worker -> Task] /\ work'[w] = x
      /\ \A v \in Worker \ {w} : work'[v] = work[v] /\ Command(v)' = Command(v)
      /\ Command(w)' = sent[x.u]
  BY DEF TypeOK, Command
<1>2. TypeOK'
  BY <1>1 DEF TypeOK, Sent
<1>3. CommandsInOrder'
  BY DEF CommandsInOrder
<1>4. OneWriter'
  BY <1>1 DEF OneWriter, Holds
<1>5. \A v \in Worker : Working(v)'
  BY <1>1, WorkerRests
<1>6. \A k \in Key : Consistent(k)'
  BY KeyRests
<1> QED
  BY <1>2, <1>3, <1>4, <1>5, <1>6

\* Time passes, threads end and broadcasts go on.
LEMMA OthersGo ==
    ASSUME IInv, UNCHANGED <<sent, pending, optin, storeVars>>,
           clock' \in 0..MaxClock, clock <= clock', mode' \in Modes,
           work' \in [Worker -> Task],
           \A w \in Worker : work'[w] = Idle \/ (work'[w] = work[w] /\ mode' = mode),
           blocked' \in [Key -> BOOLEAN], targets' \subseteq Key,
           refusal' = None \/ (refusal' \in [key : Key, at : 0..clock'] /\ refusal'.key \notin targets')
    PROVE  IInv'
<1> USE DEF IInv, storeVars
<1>1. TypeOK'
  BY DEF TypeOK, Sent, Idle
<1>2. CommandsInOrder'
  <2>1. clock \in Nat /\ clock' \in Nat
    BY ConsentAssumption DEF TypeOK
  <2>2. WholeSeconds(clock) <= WholeSeconds(clock') /\ WholeSeconds(clock) \in Nat
        /\ WholeSeconds(clock') \in Nat
    BY <2>1, SecondsGrow
  <2>3. \A i \in DOMAIN sent : sent[i].at \in Nat
    BY SentType, EntryType
  <2> QED
    BY <2>2, <2>3 DEF CommandsInOrder
<1>3. \A w \in Worker : work'[w].pc = "idle" \/ (work'[w] = work[w] /\ mode' = mode)
  BY DEF Idle
<1>4. OneWriter'
  BY <1>3 DEF OneWriter, Holds, Command
<1>5. ASSUME NEW w \in Worker PROVE Working(w)'
  <2>1. CASE work'[w].pc = "idle"
    BY <2>1 DEF Working, Holds
  <2>2. CASE work'[w] = work[w] /\ mode' = mode
    BY <2>2, WorkerRests
  <2> QED
    BY <1>3, <2>1, <2>2
<1>6. \A k \in Key : Consistent(k)'
  BY KeyRests
<1> QED
  BY <1>1, <1>2, <1>4, <1>5, <1>6

-----------------------------------------------------------------------------
(* Writing an entry of the log.                                            *)

\* The order of commands is the order of their positions.
LEMMA Positions ==
    ASSUME TypeOK, CommandsInOrder, NEW i \in DOMAIN sent, NEW j \in DOMAIN sent
    PROVE  /\ Newer(sent[j], sent[i]) <=> i < j
           /\ NoNewer(sent[j], sent[i]) => j <= i
           /\ sent[i] = sent[j] => i = j
<1>1. i \in Nat /\ j \in Nat /\ sent[i] \in Entry /\ sent[j] \in Entry
  BY SentType
<1>2. /\ i < j => Newer(sent[j], sent[i])
      /\ j < i => Newer(sent[i], sent[j])
  BY DEF CommandsInOrder
<1>3. i = j => ~Newer(sent[j], sent[i])
  BY <1>1, Ordered DEF Newer
<1>4. ~(Newer(sent[i], sent[j]) /\ Newer(sent[j], sent[i]))
  BY <1>1, Ordered DEF Newer
<1>5. sent[i] = sent[j] => ~Newer(sent[i], sent[j]) /\ ~Newer(sent[j], sent[i])
  BY <1>1, Ordered DEF Newer
<1> QED
  BY <1>1, <1>2, <1>3, <1>4, <1>5 DEF Newer

\* A refusal is no command; a command newer than those applied is the latest.
LEMMA AppliedGrows ==
    ASSUME TypeOK, CommandsInOrder, UNCHANGED sent, NEW k \in Key, NEW r \in Entry,
           audit'[k] = Append(audit[k], r)
    PROVE  /\ r.action = "blocked" => Applied(k)' = Applied(k)
           /\ \A m \in DOMAIN sent :
                 /\ r = sent[m]
                 /\ \A i \in DOMAIN audit[k] :
                       audit[k][i].action # "blocked" => Newer(r, audit[k][i])
                 => Applied(k)' = Applied(k) \cup {m} /\ \A q \in Applied(k) : q < m
<1> DEFINE n == Len(audit[k])
<1>1. /\ n \in Nat /\ DOMAIN audit[k] = 1..n /\ DOMAIN Append(audit[k], r) = 1..(n+1)
      /\ \A i \in 1..n : Append(audit[k], r)[i] = audit[k][i]
      /\ Append(audit[k], r)[n+1] = r
  BY LogType
<1>2. \A i \in DOMAIN sent : i \in Applied(k)' <=> (i \in Applied(k) \/ sent[i] = r)
  BY <1>1 DEF Applied
<1>3. Applied(k) \subseteq DOMAIN sent /\ Applied(k)' \subseteq DOMAIN sent
  BY DEF Applied
<1>4. ASSUME r.action = "blocked" PROVE Applied(k)' = Applied(k)
  BY <1>2, <1>3, <1>4, SentType
<1>5. ASSUME NEW m \in DOMAIN sent, r = sent[m],
             \A i \in DOMAIN audit[k] : audit[k][i].action # "blocked" => Newer(r, audit[k][i])
      PROVE  Applied(k)' = Applied(k) \cup {m} /\ \A q \in Applied(k) : q < m
  <2>1. Applied(k)' = Applied(k) \cup {m}
    BY <1>2, <1>3, <1>5, Positions
  <2>2. ASSUME NEW q \in Applied(k) PROVE q < m
    <3>1. PICK j \in DOMAIN audit[k] : audit[k][j] = sent[q]
      BY DEF Applied
    <3>2. Newer(sent[m], sent[q])
      BY <1>3, <1>5, <3>1, SentType
    <3> QED
      BY <1>3, <3>2, Positions
  <2> QED
    BY <2>1, <2>2
<1> QED
  BY <1>4, <1>5

\* The rows of one key are written together with an entry.
Writes(k, x, D, r) ==
    /\ subscriber' = [subscriber EXCEPT ![k] = x]
    /\ districts' = [districts EXCEPT ![k] = D]
    /\ audit' = [audit EXCEPT ![k] = Append(audit[k], r)]

\* Row, districts and log written together agree: a command is newer than those in
\* the log, and only a subscription brings back a person who was forgotten.
LEMMA WriteConsistent ==
    ASSUME IInv, UNCHANGED <<clock, mode, sent>>,
           NEW k \in Key, NEW x \in Subscriber \cup {None}, NEW D \in SUBSET District, NEW r \in Entry,
           Writes(k, x, D, r),
           r.key = k, r.action = "blocked" \/ r \in Sent,
           x # None <=> D # {}, x # None /\ x.demonstration => k \in TestChats,
           r.action \in {"stop", "blocked"} => x = None,
           r.action = "unsubscribe" => r.district \notin D,
           r.action # "subscribe" /\ subscriber[k] = None => x = None,
           \A i \in DOMAIN audit[k] :
               r.action # "blocked" /\ audit[k][i].action # "blocked" => Newer(r, audit[k][i])
    PROVE  \A q \in Key : Consistent(q)'
<1>1. /\ subscriber'[k] = x /\ districts'[k] = D /\ audit'[k] = Append(audit[k], r)
      /\ \A q \in Key \ {k} : /\ subscriber'[q] = subscriber[q] /\ districts'[q] = districts[q]
                              /\ audit'[q] = audit[q]
  BY DEF Writes, IInv, TypeOK
<1>2. \A q \in Key \ {k} : Consistent(q)'
  BY <1>1, KeyRests DEF IInv
<1>3. /\ audit[k] \in Seq(Entry) /\ LastRows(k) = End(audit[k]) /\ LastRows(k)' = End(audit'[k])
  BY LogType DEF IInv, LastRows, End
<1>4. /\ LastRows(k)' # {} /\ LastRows(k)' \subseteq LastRows(k) \cup {r}
      /\ \A e \in LastRows(k)' : NoNewer(r, e)
  <2>1. audit[k] # <<>> => End(audit[k]) # {}
    BY <1>3 DEF IInv, Consistent
  <2> QED
    BY <1>1, <1>3, <2>1, EndGrows
<1>5. ASSUME NEW e \in LastRows(k)'
      PROVE  /\ e.action = "stop" => x = None
             /\ e.action = "unsubscribe" => e.district \notin D
  <2>1. CASE e = r
    BY <2>1
  <2>2. CASE r.action = "blocked"
    BY <2>2
  <2>3. CASE e # r /\ r.action # "blocked"
    <3>1. e \in LastRows(k) /\ NoNewer(r, e)
      BY <1>4, <2>3
    <3>2. PICK i \in DOMAIN audit[k] : e = audit[k][i]
      BY <1>3, <3>1 DEF End
    <3>3. e.action = "blocked"
      BY <2>3, <3>1, <3>2 DEF Newer
    <3> QED
      BY <3>3
  <2> QED
    BY <2>1, <2>2, <2>3
<1>6. ASSUME NEW i \in DOMAIN audit'[k], audit'[k][i].action = "blocked", x # None
      PROVE  \E j \in DOMAIN audit'[k] : j > i /\ audit'[k][j].action = "subscribe"
  <2> DEFINE n == Len(audit[k])
  <2>1. /\ n \in Nat /\ DOMAIN audit[k] = 1..n /\ DOMAIN audit'[k] = 1..(n+1) /\ audit'[k][n+1] = r
        /\ \A j \in 1..n : audit'[k][j] = audit[k][j]
    BY <1>1, <1>3
  <2> HIDE DEF n
  <2>2. i \in 1..n
    BY <1>6, <2>1
  <2>3. CASE r.action = "subscribe"
    <3>1. n + 1 \in DOMAIN audit'[k] /\ n + 1 > i
      BY <2>1, <2>2
    <3> QED
      BY <2>1, <2>3, <3>1
  <2>4. CASE r.action # "subscribe"
    <3>1. subscriber[k] # None /\ i \in DOMAIN audit[k] /\ audit[k][i].action = "blocked"
      BY <1>6, <2>1, <2>2, <2>4
    <3>2. PICK j \in DOMAIN audit[k] : j > i /\ audit[k][j].action = "subscribe"
      BY <3>1 DEF IInv, Consistent
    <3>3. j \in 1..n /\ j \in DOMAIN audit'[k]
      BY <2>1, <3>2
    <3> QED
      BY <2>1, <3>2, <3>3
  <2> QED
    BY <2>3, <2>4
<1>7. Applied(k)' # {} => \E p \in Applied(k)' : \A q \in Applied(k)' : q <= p
  <2>1. CASE r.action = "blocked"
    BY <1>1, <2>1, AppliedGrows DEF IInv, Consistent
  <2>2. CASE r.action # "blocked"
    <3>1. PICK m \in DOMAIN sent : r = sent[m]
      BY <2>2 DEF Sent
    <3>2. Applied(k)' = Applied(k) \cup {m} /\ \A q \in Applied(k) : q < m
      BY <1>1, <2>2, <3>1, AppliedGrows DEF IInv
    <3>3. m \in Nat /\ \A q \in Applied(k) : q \in Nat
      BY SentType DEF IInv, Applied
    <3> QED
      BY <3>2, <3>3
  <2> QED
    BY <2>1, <2>2
<1>8. Consistent(k)'
  BY <1>1, <1>4, <1>5, <1>6, <1>7 DEF Consistent
<1> QED
  BY <1>2, <1>8


\* What is written together keeps its shape, and so does the rest.
LEMMA WriteType ==
    ASSUME TypeOK, UNCHANGED <<clock, mode, queueVars, optin, blocked, targets>>,
           NEW k \in Key, NEW x \in Subscriber \cup {None}, NEW D \in SUBSET District, NEW r \in Entry,
           Writes(k, x, D, r), r.key = k, r.action = "blocked" \/ r \in Sent,
           refusal' \in {refusal, None}, work' \in [Worker -> Task],
           \A w \in Worker : IF work'[w].pc = "idle" THEN work'[w] = Idle
                             ELSE work'[w].u \in DOMAIN sent
    PROVE  TypeOK'
<1> USE DEF queueVars
<1>1. audit' \in [Key -> Seq(Order \cup Refusal)]
  BY DEF TypeOK, Writes, Entry
<1>2. \A q \in Key : \A i \in DOMAIN audit'[q] :
        audit'[q][i].key = q /\ (audit'[q][i].action = "blocked" \/ audit'[q][i] \in Sent')
  <2> SUFFICES ASSUME NEW q \in Key, NEW i \in DOMAIN audit'[q]
               PROVE  audit'[q][i].key = q /\ (audit'[q][i].action = "blocked" \/ audit'[q][i] \in Sent)
    BY DEF Sent
  <2>1. CASE q # k
    BY <2>1 DEF TypeOK, Writes
  <2>2. CASE q = k
    <3>1. /\ audit'[q] = Append(audit[k], r) /\ audit[k] \in Seq(Entry)
      BY <2>2 DEF TypeOK, Writes, Entry
    <3>2. i \in 1..(Len(audit[k])+1)
      BY <3>1
    <3>3. CASE i = Len(audit[k]) + 1
      BY <2>2, <3>1, <3>3
    <3>4. CASE i \in DOMAIN audit[k]
      <4>1. audit'[q][i] = audit[k][i]
        BY <3>1, <3>4
      <4> QED
        BY <2>2, <3>4, <4>1 DEF TypeOK
    <3> QED
      BY <3>1, <3>2, <3>3, <3>4
  <2> QED
    BY <2>1, <2>2
<1>3. subscriber' \in [Key -> Subscriber \cup {None}] /\ districts' \in [Key -> SUBSET District]
  BY DEF TypeOK, Writes
<1>4. refusal' = None \/ (refusal' \in [key : Key, at : 0..clock] /\ refusal'.key \notin targets)
  BY DEF TypeOK
<1>5. TypeOK'
  BY <1>1, <1>2, <1>3, <1>4 DEF TypeOK
<1> QED
  BY <1>5

\* A subscription that was in place, right after the refusal that took it away.
Forgone(k, r) ==
    LET n == Len(audit[k]) IN
    r.action = "subscribe" /\ districts[k] = {} /\ n > 0 /\ audit[k][n].action = "blocked"

\* What a thread commits for its command.
Committed(c, x, D) ==
    /\ Writes(c.key, x, D, c)
    /\ D = Apply(districts[c.key], c) \/ (D = {} /\ Forgone(c.key, c))
    /\ x # None <=> D # {}
    /\ x # None /\ x.demonstration => c.key \in TestChats
    /\ c.action = "stop" => x = None
    /\ c.action = "unsubscribe" => c.district \notin D
    /\ c.action # "subscribe" /\ subscriber[c.key] = None => x = None

\* Writing to the rows and to the log at once.
LEMMA CommandWritten ==
    ASSUME IInv, NEW w \in Worker, HandleWrite(w)
    PROVE  \E x \in Subscriber \cup {None}, D \in SUBSET District : Committed(Command(w), x, D)
<1>1. PICK c \in Order : c = Command(w) /\ c.key \in Key /\ c.action # "blocked"
  BY CommandType DEF HandleWrite, IInv
<1>2. Fresh(w) /\ Public(c.key) /\ ForeignKeyHolds(w)
  BY <1>1 DEF HandleWrite, IInv, Working, Holds
<1>3. /\ audit' = [audit EXCEPT ![c.key] = Append(audit[c.key], c)]
      /\ \/ c.action = "subscribe" /\ Subscribe(w)
         \/ c.action = "unsubscribe" /\ Unsubscribe(c)
         \/ c.action = "stop" /\ Stop(c)
  BY <1>1 DEF HandleWrite, Log
<1>4. /\ subscriber[c.key] \in Subscriber \cup {None} /\ districts[c.key] \in SUBSET District
      /\ subscriber[c.key] # None <=> districts[c.key] # {}
      /\ subscriber[c.key] # None /\ subscriber[c.key].demonstration => c.key \in TestChats
  BY <1>1 DEF IInv, TypeOK, Consistent
<1>5. CASE c.action = "subscribe" /\ Subscribe(w)
  <2> DEFINE x == [demonstration |-> Demonstration]
             D == districts[c.key] \cup {c.district}
  <2>1. c.district \in District
    BY <1>1, <1>5, CommandType DEF IInv, CommandsInOrder, Command, Order, HandleWrite
  <2>2. RowStands(w)
    BY <1>1, <1>2, <1>5 DEF ForeignKeyHolds
  <2>3. Writes(c.key, x, D, c)
    BY <1>1, <1>3, <1>5, <2>2 DEF Writes, Subscribe
  <2>4. x \in Subscriber /\ x # None /\ (x.demonstration => c.key \in TestChats)
    BY <1>2, NotNone DEF Subscriber, Public, Demonstration
  <2>5. D = Apply(districts[c.key], c)
    BY <1>5 DEF Apply
  <2>6. D \in SUBSET District /\ D # {}
    BY <1>4, <2>1
  <2> HIDE DEF x, D
  <2>7. Committed(c, x, D)
    BY <1>5, <2>3, <2>4, <2>5, <2>6 DEF Committed
  <2> QED
    BY <1>1, <2>4, <2>6, <2>7
<1>6. CASE c.action = "unsubscribe" /\ Unsubscribe(c)
  <2> DEFINE D == districts[c.key] \ {c.district}
             x == IF D = {} THEN None ELSE subscriber[c.key]
  <2>1. Writes(c.key, x, D, c)
    BY <1>3, <1>6, <1>4 DEF Writes, Unsubscribe, IInv, TypeOK
  <2>2. D = Apply(districts[c.key], c)
    BY <1>6 DEF Apply
  <2>3. x \in Subscriber \cup {None} /\ D \in SUBSET District
    BY <1>4
  <2>4. Committed(c, x, D)
    BY <1>4, <1>6, <2>1, <2>2 DEF Committed
  <2> QED
    BY <1>1, <2>3, <2>4
<1>7. CASE c.action = "stop" /\ Stop(c)
  <2>1. Writes(c.key, None, {}, c)
    BY <1>3, <1>7 DEF Writes, Stop
  <2>2. {} = Apply(districts[c.key], c)
    BY <1>7 DEF Apply
  <2>3. Committed(c, None, {})
    BY <1>7, <2>1, <2>2 DEF Committed
  <2> QED
    BY <1>1, <2>3
<1> QED
  BY <1>3, <1>5, <1>6, <1>7

\* Committing a subscription that was in place, or has been taken away since.
LEMMA NothingWritten ==
    ASSUME IInv, NEW w \in Worker, Commit(w)
    PROVE  \E x \in Subscriber \cup {None}, D \in SUBSET District : Committed(Command(w), x, D)
<1>1. PICK c \in Order : c = Command(w) /\ c.key \in Key
  BY CommandType DEF Commit, IInv
<1>2. PICK x \in Subscriber \cup {None} : x = subscriber[c.key]
  BY <1>1 DEF IInv, TypeOK
<1>3. PICK D \in SUBSET District : D = districts[c.key]
  BY <1>1 DEF IInv, TypeOK
<1>4. /\ x # None <=> D # {}
      /\ x # None /\ x.demonstration => c.key \in TestChats
  BY <1>1, <1>2, <1>3 DEF IInv, Consistent
<1>5. Writes(c.key, x, D, c)
  BY <1>1, <1>2, <1>3 DEF Writes, Commit, Log, IInv, TypeOK
<1>6. Found(w) /\ c.action = "subscribe"
  BY <1>1 DEF Commit, IInv, Working, Found
<1>7. D = Apply(districts[c.key], c) \/ (D = {} /\ Forgone(c.key, c))
  <2>1. CASE subscriber[c.key] # None /\ c.district \in districts[c.key]
    BY <1>3, <1>6, <2>1 DEF Apply
  <2>2. CASE ~(subscriber[c.key] # None /\ c.district \in districts[c.key])
    BY <1>1, <1>2, <1>3, <1>4, <1>6, <2>2 DEF Found, Forgone
  <2> QED
    BY <2>1, <2>2
<1>8. Committed(c, x, D)
  BY <1>4, <1>5, <1>6, <1>7 DEF Committed
<1> QED
  BY <1>1, <1>8

\* The last part of a command.
LEMMA HandleWriteStep ==
    ASSUME IInv, NEW w \in Worker, HandleWrite(w) \/ Commit(w)
    PROVE  IInv'
<1>1. /\ Holds(w) /\ work[w].pc # "idle" /\ work' = [work EXCEPT ![w].pc = "answer"]
      /\ UNCHANGED <<clock, mode, queueVars, optin, blocked, sendVars>>
      /\ sent' = sent
  BY DEF HandleWrite, Commit, Holds, GoTo, queueVars
<1>2. PICK c \in Order : c = Command(w) /\ c \in Entry /\ c.key \in Key /\ c.action # "blocked" /\ c \in Sent
  BY <1>1, CommandType DEF IInv, Command, Sent
<1>3. PICK x \in Subscriber \cup {None}, D \in SUBSET District : Committed(c, x, D)
  BY <1>2, CommandWritten, NothingWritten
<1>4. Writes(c.key, x, D, c)
  BY <1>3 DEF Committed
<1>5. /\ x # None <=> D # {}
      /\ x # None /\ x.demonstration => c.key \in TestChats
      /\ c.action \in {"stop", "blocked"} => x = None
      /\ c.action = "unsubscribe" => c.district \notin D
      /\ c.action # "subscribe" /\ subscriber[c.key] = None => x = None
  BY <1>2, <1>3 DEF Committed
<1>6. \A i \in DOMAIN audit[c.key] : audit[c.key][i].action # "blocked" => Newer(c, audit[c.key][i])
  BY <1>1, <1>2 DEF IInv, Working, Fresh
<1>7. /\ work' \in [Worker -> Task] /\ work'[w].pc = "answer" /\ work'[w].u = work[w].u
      /\ \A v \in Worker \ {w} : work'[v] = work[v] /\ Command(v)' = Command(v)
  <2>1. work \in [Worker -> Task]
    BY DEF IInv, TypeOK
  <2>2. [work[w] EXCEPT !.pc = "answer"] \in Task
    BY <2>1 DEF Task
  <2> QED
    BY <1>1, <2>1, <2>2 DEF Command, Task
<1>8. TypeOK'
  <2>1. \A v \in Worker : IF work'[v].pc = "idle" THEN work'[v] = Idle ELSE work'[v].u \in DOMAIN sent
    BY <1>1, <1>7 DEF IInv, TypeOK
  <2> QED
    BY <1>1, <1>2, <1>4, <1>7, <2>1, WriteType DEF IInv, sendVars
<1>9. CommandsInOrder'
  BY <1>1 DEF IInv, CommandsInOrder
<1>10. OneWriter'
  BY <1>7 DEF IInv, OneWriter, Holds
<1>11. ASSUME NEW v \in Worker PROVE Working(v)'
  <2>1. CASE v = w
    BY <1>7, <2>1 DEF Working, Holds
  <2>2. CASE v # w
    <3>1. Holds(v) => Command(v).key # c.key /\ Command(v).key \in Key
      BY <1>1, <1>2, <2>2, CommandType DEF IInv, OneWriter, Holds
    <3>2. Holds(v) => /\ subscriber'[Command(v).key] = subscriber[Command(v).key]
                      /\ districts'[Command(v).key] = districts[Command(v).key]
                      /\ audit'[Command(v).key] = audit[Command(v).key]
      BY <1>4, <3>1 DEF IInv, TypeOK, Writes
    <3> QED
      BY <1>1, <1>7, <2>2, <3>2, WorkerRests DEF IInv
  <2> QED
    BY <2>1, <2>2
<1>12. \A q \in Key : Consistent(q)'
  BY <1>1, <1>2, <1>4, <1>5, <1>6, WriteConsistent
<1> QED
  BY <1>8, <1>9, <1>10, <1>11, <1>12 DEF IInv

\* Forgetting a person who blocked the bot, as an entry of the log.
LEMMA Forgotten ==
    ASSUME IInv, Forget
    PROVE  \E k \in Key, r \in Refusal :
              /\ r.key = k /\ k = refusal.key
              /\ \/ subscriber[k] = None /\ UNCHANGED storeVars
                 \/ subscriber[k] # None /\ Writes(k, None, {}, r)
<1>1. refusal \in [key : Key, at : 0..clock] /\ clock \in 0..MaxClock
  BY DEF Forget, IInv, TypeOK
<1> DEFINE r == [key |-> refusal.key, action |-> "blocked", district |-> None, at |-> refusal.at, id |-> 0]
<1>2. r \in Refusal /\ r.key = refusal.key /\ refusal.key \in Key
  BY <1>1, ConsentAssumption DEF Refusal
<1> QED
  BY <1>2 DEF Forget, Writes

\* A broadcast removes who blocked the bot.
LEMMA ForgetStep ==
    ASSUME IInv, Forget
    PROVE  IInv'
<1>1. /\ UNCHANGED <<clock, mode, queueVars, work, optin, blocked, targets>>
      /\ sent' = sent /\ pending' = pending /\ refusal' = None
  BY DEF Forget, queueVars
<1>2. PICK k \in Key, r \in Refusal :
         /\ r.key = k
         /\ \/ subscriber[k] = None /\ UNCHANGED storeVars
            \/ subscriber[k] # None /\ Writes(k, None, {}, r)
  BY Forgotten
<1>3. CASE UNCHANGED storeVars
  BY <1>1, <1>3, OthersGo, ConsentAssumption DEF IInv, TypeOK
<1>4. CASE subscriber[k] # None /\ Writes(k, None, {}, r)
  <2>1. r \in Entry /\ r.action = "blocked" /\ {} \in SUBSET District /\ None \in Subscriber \cup {None}
    BY DEF Refusal, Entry
  <2>2. TypeOK'
    BY <1>1, <1>2, <1>4, <2>1, WriteType DEF IInv, TypeOK
  <2>3. CommandsInOrder' /\ OneWriter'
    BY <1>1 DEF IInv, CommandsInOrder, OneWriter, Holds, Command
  <2>4. ASSUME NEW v \in Worker PROVE Working(v)'
    <3>1. Command(v)' = Command(v) /\ work'[v] = work[v]
      BY <1>1 DEF Command
    <3>2. CASE Holds(v) /\ Command(v).key = k
      <4> DEFINE n == Len(audit[k])
      <4>1. /\ subscriber'[k] = None /\ audit'[k] = Append(audit[k], r) /\ audit[k] \in Seq(Entry)
        BY <1>4, LogType DEF Writes, IInv, TypeOK
      <4>2. /\ n \in Nat /\ DOMAIN audit[k] = 1..n /\ DOMAIN audit'[k] = 1..(n+1)
            /\ Len(audit'[k]) = n + 1 /\ audit'[k][n+1] = r
            /\ \A i \in 1..n : audit'[k][i] = audit[k][i]
        BY <2>1, <4>1
      <4>3. Fresh(v) /\ Public(k)
        BY <3>2 DEF IInv, Working
      <4>4. \A i \in DOMAIN audit'[k] : audit'[k][i].action # "blocked" => Newer(Command(v), audit'[k][i])
        BY <2>1, <3>2, <4>2, <4>3 DEF Fresh
      <4>5. Fresh(v)'
        BY <3>1, <3>2, <4>1, <4>3, <4>4 DEF Fresh
      <4>6. work[v].pc = "commit" => Found(v)'
        <5>1. Len(audit'[k]) > 0 /\ audit'[k][Len(audit'[k])].action = "blocked"
          BY <2>1, <4>2
        <5>2. work[v].pc = "commit" => Command(v).action = "subscribe"
          BY DEF IInv, Working, Found
        <5> QED
          BY <3>1, <3>2, <4>1, <5>1, <5>2 DEF Found
      <4> QED
        BY <1>1, <3>1, <3>2, <4>3, <4>5, <4>6 DEF Working, Holds, Public, Demonstration
    <3>3. CASE ~(Holds(v) /\ Command(v).key = k)
      <4>1. Holds(v) => /\ subscriber'[Command(v).key] = subscriber[Command(v).key]
                        /\ districts'[Command(v).key] = districts[Command(v).key]
                        /\ audit'[Command(v).key] = audit[Command(v).key]
        BY <1>4, <3>3, CommandType DEF IInv, TypeOK, Writes, Holds
      <4> QED
        BY <1>1, <3>1, <4>1, WorkerRests DEF IInv
    <3> QED
      BY <3>2, <3>3
  <2>5. \A q \in Key : Consistent(q)'
    BY <1>1, <1>2, <1>4, <2>1, WriteConsistent
  <2> QED
    BY <2>2, <2>3, <2>4, <2>5 DEF IInv
<1> QED
  BY <1>2, <1>3, <1>4

-----------------------------------------------------------------------------
(* The other steps.                                                        *)

\* A command sent now was sent after all others.
LEMMA SendStep ==
    ASSUME IInv, NEW k \in Key, NEW a \in Commands, NEW d \in District \cup {None}, Send(k, a, d)
    PROVE  IInv' /\ \A q \in Key : Applied(q)' = Applied(q)
<1> DEFINE n == Len(sent)
           s == WholeSeconds(clock)
<1>1. PICK id \in 1..MaxUpdates :
         /\ \A i \in DOMAIN sent : sent[i].id # id /\ (sent[i].at = s => sent[i].id < id)
         /\ sent' = Append(sent, [key |-> k, action |-> a, district |-> d, at |-> s, id |-> id])
  BY DEF Send
<1>2. PICK c : c = [key |-> k, action |-> a, district |-> d, at |-> s, id |-> id]
  OBVIOUS
<1>3. /\ clock \in Nat /\ clock \in 0..MaxClock /\ s \in Nat /\ s <= clock /\ n \in Nat /\ n < MaxUpdates
  BY SecondsGrow, ConsentAssumption DEF IInv, TypeOK, Send
<1>4. c \in Order /\ c \in Entry /\ c.at = s /\ c.id = id
  BY <1>2, <1>3, ConsentAssumption DEF Order, Entry
<1>5. /\ sent \in Seq(Order) /\ sent' \in Seq(Order) /\ DOMAIN sent = 1..n /\ DOMAIN sent' = 1..(n+1)
      /\ \A i \in DOMAIN sent : sent'[i] = sent[i] /\ i \in DOMAIN sent'
      /\ sent'[n+1] = c /\ Len(sent') = n + 1
  <2>1. sent \in Seq(Order) /\ sent' = Append(sent, c)
    BY <1>1, <1>2 DEF IInv, TypeOK
  <2> QED
    BY <1>4, <2>1
<1>6. \A i \in DOMAIN sent : Newer(c, sent[i])
  <2> SUFFICES ASSUME NEW i \in DOMAIN sent PROVE Newer(c, sent[i])
    OBVIOUS
  <2>1. sent[i] \in Entry /\ sent[i].at <= s /\ (sent[i].at = s => sent[i].id < id)
    BY <1>1, SentType DEF IInv, CommandsInOrder
  <2> QED
    BY <1>3, <1>4, <2>1, EntryType DEF Newer, NoNewer
<1>7. /\ UNCHANGED <<clock, mode, work, optin, subscriber, districts, audit, targets, refusal>>
      /\ pending' = pending \cup {n + 1} /\ blocked' \in [Key -> BOOLEAN]
  BY <1>5 DEF Send, storeVars, sendVars, IInv, TypeOK
<1> HIDE DEF n, s
<1>8. TypeOK'
  <2>1. Sent \subseteq Sent' /\ pending' \subseteq DOMAIN sent'
    BY <1>3, <1>5, <1>7 DEF IInv, TypeOK, Sent
  <2>2. \A w \in Worker : IF work[w].pc = "idle" THEN work[w] = Idle ELSE work[w].u \in DOMAIN sent'
    BY <1>5 DEF IInv, TypeOK
  <2>3. \A q \in Key : \A i \in DOMAIN audit[q] :
           audit[q][i].key = q /\ (audit[q][i].action = "blocked" \/ audit[q][i] \in Sent')
    BY <2>1 DEF IInv, TypeOK
  <2> QED
    BY <1>5, <1>7, <2>1, <2>2, <2>3 DEF IInv, TypeOK
<1>9. CommandsInOrder'
  <2>1. \A i, j \in DOMAIN sent' : i < j => Newer(sent'[j], sent'[i])
    BY <1>3, <1>5, <1>6 DEF IInv, CommandsInOrder
  <2>2. c.district = None <=> c.action \in {"stop", "start"}
    BY <1>2 DEF Send
  <2>3. \A i \in DOMAIN sent' :
           /\ sent'[i].at <= WholeSeconds(clock)
           /\ sent'[i].district = None <=> sent'[i].action \in {"stop", "start"}
    BY <1>3, <1>4, <1>5, <2>2 DEF IInv, CommandsInOrder, s
  <2> QED
    BY <1>3, <1>5, <1>7, <2>1, <2>3, ConsentAssumption DEF CommandsInOrder
<1>10. \A w \in Worker : work[w].pc # "idle" => Command(w)' = Command(w)
  BY <1>5, <1>7, CommandType DEF IInv, Command
<1>11. OneWriter'
  BY <1>7, <1>10 DEF IInv, OneWriter, Holds
<1>12. ASSUME NEW w \in Worker PROVE Working(w)'
  <2>1. CASE Holds(w)
    <3>1. Fresh(w)' /\ (work[w].pc = "commit" => Found(w)')
      BY <1>7, <1>10, <2>1 DEF IInv, Working, Holds, Fresh, Found
    <3> QED
      BY <1>7, <1>10, <2>1, <3>1 DEF IInv, Working, Holds, Public, Demonstration
  <2>2. CASE ~Holds(w)
    BY <1>7, <1>10, <2>2 DEF IInv, Working, Holds, Public, Demonstration
  <2> QED
    BY <2>1, <2>2
<1>13. ASSUME NEW q \in Key PROVE Applied(q)' = Applied(q)
  <2>1. \A i \in DOMAIN audit[q] : audit[q][i].action = "blocked" \/ audit[q][i] \in Sent
    BY LogType DEF IInv
  <2>2. \A i \in DOMAIN sent : c # sent[i]
    BY <1>4, <1>6, Ordered DEF Newer
  <2>3. \A i \in DOMAIN audit[q] : audit[q][i] # c
    BY <1>2, <1>4, <2>1, <2>2, ConsentAssumption DEF Sent, Order
  <2> QED
    BY <1>3, <1>5, <1>7, <2>3 DEF Applied
<1>14. \A q \in Key : Consistent(q)'
  BY ZenonT(60), <1>7, <1>13 DEF IInv, Consistent, LastRows
<1> QED
  BY <1>8, <1>9, <1>11, <1>12, <1>13, <1>14 DEF IInv

\* Nothing is asked of a thread that is not at a command for the districts.
LEMMA AtRest ==
    ASSUME NEW w, work'[w].pc \notin {"handle", "row", "write", "commit"}
    PROVE  Working(w)'
BY DEF Working, Holds

\* A thread takes up an update.
LEMMA ReceiveStep ==
    ASSUME IInv, NEW w \in Worker, NEW u \in pending, Receive(w, u)
    PROVE  IInv'
<1>1. u \in DOMAIN sent /\ u \in 0..MaxUpdates
  BY SentType, ConsentAssumption DEF IInv, TypeOK, CommandsInOrder
<1>2. PICK x \in Task : /\ work' = [work EXCEPT ![w] = x]
                        /\ x.u = u /\ x.pc \in {"operator", "handle", "answer"}
                        /\ x.pc = "handle" => ForDistricts(sent[u])
  <2> DEFINE pc == IF TooOld(sent[u]) THEN "answer"
                   ELSE IF ForOperator(sent[u]) THEN "operator"
                   ELSE IF ForDistricts(sent[u]) THEN "handle" ELSE "answer"
             x == [Idle EXCEPT !.u = u, !.pc = pc]
  <2>1. work' = [work EXCEPT ![w] = x]
    BY DEF Receive
  <2>2. pc \in {"operator", "handle", "answer"} /\ (pc = "handle" => ForDistricts(sent[u]))
    OBVIOUS
  <2> HIDE DEF pc
  <2>3. x \in Task /\ x.u = u /\ x.pc = pc
    BY <1>1, <2>2 DEF Task, Idle
  <2> QED
    BY <2>1, <2>2, <2>3
<1>3. UNCHANGED <<clock, mode, sent, pending, optin, storeVars, blocked, sendVars>>
  BY DEF Receive, queueVars
<1>4. Working(w)'
  <2>1. work'[w] = x /\ Command(w)' = sent[u]
    BY <1>2, <1>3 DEF IInv, TypeOK, Command
  <2> QED
    BY <1>2, <1>3, <2>1 DEF Working, Holds, ForDistricts, Public, Demonstration
<1> QED
  BY <1>1, <1>2, <1>3, <1>4, WorkerGoes DEF IInv, TypeOK

\* The thread goes on to another part of its command.
LEMMA Goes ==
    ASSUME IInv, NEW w \in Worker, work[w].pc # "idle", NEW pc \in {"handle", "row", "commit", "answer"},
           GoTo(w, pc)
    PROVE  /\ [work[w] EXCEPT !.pc = pc] \in Task
           /\ work' = [work EXCEPT ![w] = [work[w] EXCEPT !.pc = pc]]
           /\ [work[w] EXCEPT !.pc = pc].u \in DOMAIN sent
           /\ work'[w].pc = pc /\ work'[w].u = work[w].u /\ work'[w].row = work[w].row
           /\ [work[w] EXCEPT !.pc = pc].pc = pc /\ [work[w] EXCEPT !.pc = pc].u = work[w].u
<1>1. work \in [Worker -> Task] /\ work[w].u \in DOMAIN sent
  BY DEF IInv, TypeOK
<1>2. [work[w] EXCEPT !.pc = pc] \in Task
  BY <1>1 DEF Task
<1> QED
  BY <1>1, <1>2 DEF GoTo, Task

\* The operator's own consent, in one transaction.
LEMMA OperatorStep ==
    ASSUME IInv, NEW w \in Worker, Operator(w)
    PROVE  IInv'
<1>1. PICK pc \in {"handle", "answer"} : GoTo(w, pc) /\ (pc = "handle" => ForDistricts(Command(w)))
  BY DEF Operator
<1>2. /\ work[w].pc # "idle"
      /\ UNCHANGED <<clock, mode, sent, pending, storeVars, blocked, sendVars>>
  BY DEF Operator, queueVars
<1>3. optin' \in [Key -> OptIn \cup {None}]
  <2>1. Command(w) \in Order
    BY <1>2, CommandType DEF IInv
  <2>2. [active |-> Command(w).action = "start", at |-> Command(w).at, id |-> Command(w).id] \in OptIn
    BY <2>1 DEF Order, OptIn
  <2> QED
    BY <2>2 DEF Operator, IInv, TypeOK
<1>4. Working(w)'
  <2>1. work'[w].pc = pc /\ Command(w)' = Command(w)
    BY <1>1, <1>2, Goes DEF Command
  <2> QED
    BY <1>1, <1>2, <2>1 DEF Working, Holds, ForDistricts, Public, Demonstration
<1>5. [work[w] EXCEPT !.pc = pc].pc \notin {"row", "write", "commit", "idle"}
  BY <1>1, <1>2, Goes
<1> QED
  BY ZenonT(60), <1>1, <1>2, <1>3, <1>4, <1>5, Goes, WorkerGoes

\* A thread that read the log under the lock and found its command the latest.
LEMMA ReadIsFresh ==
    ASSUME IInv, NEW w \in Worker, work[w].pc = "handle", Command(w).action # "start",
           ~Superseded(Command(w)),
           UNCHANGED <<sent, storeVars>>,
           work'[w].u = work[w].u, work'[w].pc = "row"
    PROVE  Fresh(w)'
<1>1. PICK c \in Order : c = Command(w) /\ c = Command(w)' /\ c \in Entry /\ c.key \in Key
  BY CommandType DEF IInv, Command
<1>2. \A i \in DOMAIN audit[c.key] : Newer(c, audit[c.key][i])
  <2> SUFFICES ASSUME NEW i \in DOMAIN audit[c.key] PROVE Newer(c, audit[c.key][i])
    OBVIOUS
  <2>1. audit[c.key] \in Seq(Entry) /\ audit[c.key][i] \in Entry /\ audit[c.key] # <<>>
    BY <1>1, LogType DEF IInv
  <2>2. PICK r \in LastRows(c.key) : TRUE
    BY <1>1, <2>1 DEF IInv, Consistent
  <2>3. Newer(c, r) /\ NoNewer(audit[c.key][i], r) /\ r \in Entry
    BY <1>1, <2>2, LogType DEF IInv, LastRows, Superseded, Newer
  <2> QED
    BY <1>1, <2>1, <2>3, Ordered DEF Newer
<1> QED
  BY <1>1, <1>2 DEF Fresh, storeVars

\* A thread that holds the lock of its key, and no other does, goes on.
LEMMA LockedGoes ==
    ASSUME IInv, NEW w \in Worker, work[w].pc # "idle", NEW pc \in {"row", "commit"}, GoTo(w, pc),
           UNCHANGED <<clock, mode, sent, pending, optin, storeVars, blocked, sendVars>>,
           Working(w)',
           \A v \in Worker \ {w} : Holds(v) => Command(v).key # sent[work[w].u].key
    PROVE  IInv'
<1>1. PICK x : x = [work[w] EXCEPT !.pc = pc]
  OBVIOUS
<1>2. x \in Task /\ work' = [work EXCEPT ![w] = x] /\ x.u \in DOMAIN sent /\ x.pc = pc /\ x.u = work[w].u
  BY <1>1, Goes
<1>3. pending' \subseteq pending /\ optin' \in [Key -> OptIn \cup {None}]
  BY DEF IInv, TypeOK
<1>4. \A v \in Worker \ {w} : Holds(v) => Command(v).key # sent[x.u].key
  BY <1>2
<1>5. x.pc # "idle"
  BY <1>2
<1> QED
  BY <1>2, <1>3, <1>4, <1>5, WorkerGoes

\* A thread reads the log.
LEMMA ReadLogStep ==
    ASSUME IInv, NEW w \in Worker, ReadLog(w)
    PROVE  IInv'
<1>1. /\ work[w].pc = "handle" /\ work[w].pc # "idle" /\ Public(Command(w).key)
      /\ UNCHANGED <<clock, mode, sent, pending, optin, storeVars, blocked, sendVars>>
  BY DEF ReadLog, queueVars, IInv, Working
<1>2. CASE GoTo(w, "answer")
  <2>1. Working(w)'
    BY <1>1, <1>2, Goes, AtRest
  <2> QED
    BY <1>1, <1>2, <2>1, Goes, WorkerGoes DEF IInv, TypeOK
<1>3. CASE /\ Command(w).action # "start" /\ LockFree(Command(w).key) /\ ~Superseded(Command(w))
           /\ GoTo(w, "row")
  <2>1. Fresh(w)'
    BY <1>1, <1>3, Goes, ReadIsFresh
  <2>2. Working(w)'
    BY <1>1, <1>3, <2>1, Goes DEF Working, Holds, Command, Public, Demonstration
  <2>3. \A v \in Worker \ {w} : Holds(v) => Command(v).key # sent[work[w].u].key
    BY <1>3 DEF LockFree, Command
  <2> QED
    BY <1>1, <1>3, <2>2, <2>3, LockedGoes
<1> QED
  BY <1>1, <1>2, <1>3 DEF ReadLog

\* It reads the subscriber.
LEMMA ReadRowStep ==
    ASSUME IInv, NEW w \in Worker, ReadRow(w)
    PROVE  IInv'
<1>1. /\ work[w].pc = "row" /\ work[w].pc # "idle" /\ Holds(w) /\ Public(Command(w).key) /\ Fresh(w)
      /\ UNCHANGED <<clock, mode, sent, pending, optin, storeVars, blocked, sendVars>>
  BY DEF ReadRow, queueVars, IInv, Working, Holds
<1>2. CASE GoTo(w, "answer")
  <2>1. Working(w)'
    BY <1>1, <1>2, Goes, AtRest
  <2> QED
    BY <1>1, <1>2, <2>1, Goes, WorkerGoes DEF IInv, TypeOK
<1>3. CASE work' = [work EXCEPT ![w].pc = "write", ![w].row = subscriber[Command(w).key] # None]
  <2>1. work \in [Worker -> Task] /\ work[w].u \in DOMAIN sent
    BY <1>1 DEF IInv, TypeOK
  <2>2. PICK x : x = [work[w] EXCEPT !.pc = "write", !.row = subscriber[Command(w).key] # None]
    OBVIOUS
  <2>3. x \in Task /\ x.pc = "write" /\ x.u = work[w].u /\ x.row = (subscriber[Command(w).key] # None)
    BY <2>1, <2>2 DEF Task
  <2>4. work' = [work EXCEPT ![w] = x] /\ work'[w] = x
    BY <1>3, <2>1, <2>2
  <2>5. Command(w)' = Command(w)
    BY <1>1, <2>3, <2>4 DEF Command
  <2>6. Fresh(w)'
    BY <1>1, <2>3, <2>4, <2>5 DEF Fresh, storeVars
  <2>7. Working(w)'
    BY <1>1, <2>3, <2>4, <2>5, <2>6 DEF Working, Holds, Public, Demonstration
  <2>8. \A v \in Worker \ {w} : Holds(v) => Command(v).key # sent[x.u].key
    BY <1>1, <2>3 DEF IInv, OneWriter, Command
  <2> QED
    BY <1>1, <2>1, <2>3, <2>4, <2>7, <2>8, WorkerGoes DEF IInv, TypeOK
<1> QED
  BY <1>2, <1>3 DEF ReadRow

\* It finds everything in place.
LEMMA WriteNothingStep ==
    ASSUME IInv, NEW w \in Worker, WriteNothing(w)
    PROVE  IInv'
<1>1. /\ work[w].pc = "write" /\ work[w].pc # "idle" /\ Holds(w) /\ Public(Command(w).key) /\ Fresh(w)
      /\ GoTo(w, "commit") /\ InPlace(w)
      /\ UNCHANGED <<clock, mode, sent, pending, optin, storeVars, blocked, sendVars>>
  BY DEF WriteNothing, queueVars, IInv, Working, Holds
<1>2. Command(w)' = Command(w) /\ Command(w).key \in Key
  BY <1>1, Goes, CommandType DEF Command, IInv
<1>3. Fresh(w)'
  BY <1>1, <1>2, Goes DEF Fresh, storeVars
<1>4. Found(w)'
  <2>1. Command(w).action = "subscribe" /\ Command(w).district \in districts[Command(w).key]
    BY <1>1 DEF InPlace
  <2>2. subscriber[Command(w).key] # None
    BY <1>2, <2>1 DEF IInv, Consistent
  <2> QED
    BY <1>1, <1>2, <2>1, <2>2 DEF Found, storeVars
<1>5. Working(w)'
  BY <1>1, <1>2, <1>3, <1>4, Goes DEF Working, Holds, Public, Demonstration
<1>6. \A v \in Worker \ {w} : Holds(v) => Command(v).key # sent[work[w].u].key
  BY <1>1 DEF IInv, OneWriter, Command
<1> QED
  BY <1>1, <1>5, <1>6, LockedGoes

\* A thread that ends, with its command answered or kept by Telegram.
LEMMA EndStep ==
    ASSUME IInv, NEW w \in Worker, ForeignKeyFails(w) \/ Answer(w) \/ Fail(w)
    PROVE  IInv'
<1>1. /\ work' = [work EXCEPT ![w] = Idle] /\ pending' \subseteq pending
      /\ UNCHANGED <<clock, mode, sent, optin, storeVars, blocked, sendVars>>
  BY DEF ForeignKeyFails, Answer, Fail, queueVars
<1>2. Idle \in Task /\ Idle.pc = "idle"
  BY ConsentAssumption DEF Task, Idle
<1>3. Working(w)'
  BY <1>1, <1>2, AtRest DEF IInv, TypeOK
<1> QED
  BY <1>1, <1>2, <1>3, WorkerGoes DEF IInv, TypeOK

\* Time, people, restarts and broadcasts.
LEMMA OtherStep ==
    ASSUME IInv,
           \/ Tick \/ Restart \/ DeliveryLost \/ \E k \in Key : Block(k) \/ Contact(k)
           \/ \E d \in Approved : Claim(d)
    PROVE  IInv'
<1> USE DEF IInv, TypeOK, queueVars, sendVars
<1>1. clock \in Nat /\ MaxClock \in Nat
  BY ConsentAssumption
<1>2. CASE Tick
  <2>1. clock' \in 0..MaxClock /\ clock <= clock'
    BY <1>1, <1>2 DEF Tick
  <2>2. refusal' = None \/ (refusal' \in [key : Key, at : 0..clock'] /\ refusal'.key \notin targets')
    BY <1>1, <1>2, <2>1 DEF Tick
  <2> QED
    BY <1>2, <2>1, <2>2, OthersGo DEF Tick
<1>3. CASE Restart
  <2>1. work' \in [Worker -> Task] /\ \A w \in Worker : work'[w] = Idle
    BY <1>3, ConsentAssumption DEF Restart, Idle, Task
  <2> QED
    BY <1>1, <1>3, <2>1, OthersGo DEF Restart
<1>4. CASE DeliveryLost
  BY <1>1, <1>4, OthersGo DEF DeliveryLost
<1>5. ASSUME NEW k \in Key, Block(k) PROVE IInv'
  BY <1>1, <1>5, OthersGo DEF Block
<1>6. ASSUME NEW k \in Key, Contact(k) PROVE IInv'
  <2>1. targets' \subseteq Key /\ (refusal' = None \/ refusal' = [key |-> k, at |-> clock])
    BY <1>6 DEF Contact
  <2>2. refusal' = None \/ (refusal' \in [key : Key, at : 0..clock'] /\ refusal'.key \notin targets')
    BY <1>1, <1>6, <2>1 DEF Contact
  <2> QED
    BY <1>1, <1>6, <2>1, <2>2, OthersGo DEF Contact
<1>7. ASSUME NEW d \in Approved, Claim(d) PROVE IInv'
  <2>1. targets' \subseteq Key /\ refusal' = None
    BY <1>7 DEF Claim, Recipients
  <2> QED
    BY <1>1, <1>7, <2>1, OthersGo DEF Claim
<1> QED
  BY <1>2, <1>3, <1>4, <1>5, <1>6, <1>7

\* Nobody is subscribed at the start.
LEMMA InitInv == Init => IInv
<1> SUFFICES ASSUME Init PROVE IInv
  OBVIOUS
<1>1. TypeOK
  BY ConsentAssumption DEF Init, TypeOK, Idle, Task, Order, Sent
<1>2. CommandsInOrder
  BY ConsentAssumption DEF Init, CommandsInOrder
<1>3. OneWriter /\ \A w \in Worker : Working(w)
  BY DEF Init, OneWriter, Working, Holds, Idle
<1>4. \A k \in Key : Consistent(k)
  BY DEF Init, Consistent, LastRows, Applied
<1> QED
  BY <1>1, <1>2, <1>3, <1>4 DEF IInv

\* Each action keeps the invariant, whichever half of a command others are in.
LEMMA InvStep == IInv /\ [Next]_vars => IInv'
<1> SUFFICES ASSUME IInv, [Next]_vars PROVE IInv'
  OBVIOUS
<1>1. CASE UNCHANGED vars
  BY <1>1, OthersGo, ConsentAssumption DEF vars, queueVars, sendVars, IInv, TypeOK
<1>2. ASSUME NEW k \in Key, NEW a \in Commands, NEW d \in District \cup {None}, Send(k, a, d)
      PROVE  IInv'
  BY <1>2, SendStep
<1>3. ASSUME NEW w \in Worker, Webhook(w) \/ Fail(w) PROVE IInv'
  BY <1>3, ReceiveStep, OperatorStep, ReadLogStep, ReadRowStep, WriteNothingStep, HandleWriteStep,
     EndStep DEF Webhook
<1>4. CASE Forget
  BY <1>4, ForgetStep
<1>5. CASE \/ Tick \/ Restart \/ DeliveryLost \/ \E k \in Key : Block(k) \/ Contact(k)
           \/ \E d \in Approved : Claim(d)
  BY <1>5, OtherStep
<1> QED
  BY <1>1, <1>2, <1>3, <1>4, <1>5 DEF Next

-----------------------------------------------------------------------------
(* The ledgers.                                                            *)

\* What the ledgers read off the stores: the last of the applied commands, and
\* the command an opt-in comes from.
LedgersRead == \A k \in Key :
    /\ Applied(k) = {} => LastApplied[k] = 0
    /\ \A p \in Applied(k) : (\A q \in Applied(k) : q <= p) => LastApplied[k] = p
    /\ optin[k] = None => LastOptIn[k] = 0
    /\ \A u \in DOMAIN sent :
          optin[k] # None /\ sent[u].at = optin[k].at /\ sent[u].id = optin[k].id => LastOptIn[k] = u

\* The rows, read as a ledger, are one.
LEMMA Read == TypeOK /\ CommandsInOrder => LedgersRead
<1> SUFFICES ASSUME TypeOK, CommandsInOrder, NEW k \in Key
             PROVE  /\ Applied(k) = {} => LastApplied[k] = 0
                    /\ \A p \in Applied(k) : (\A q \in Applied(k) : q <= p) => LastApplied[k] = p
                    /\ optin[k] = None => LastOptIn[k] = 0
                    /\ \A u \in DOMAIN sent :
                          optin[k] # None /\ sent[u].at = optin[k].at /\ sent[u].id = optin[k].id
                            => LastOptIn[k] = u
  BY DEF LedgersRead
<1>1. \A u \in DOMAIN sent : u \in Nat /\ PositionOf(sent[u]) = u
  BY SentType, Positions DEF PositionOf
<1>2. ASSUME NEW R \in SUBSET Sent
      PROVE  /\ {PositionOf(r) : r \in R} = {u \in DOMAIN sent : sent[u] \in R}
             /\ {u \in DOMAIN sent : sent[u] \in R} = {} => Latest(R) = 0
             /\ \A p \in DOMAIN sent :
                  /\ sent[p] \in R
                  /\ \A q \in DOMAIN sent : sent[q] \in R => q <= p
                  => Latest(R) = p
  <2>1. {PositionOf(r) : r \in R} = {u \in DOMAIN sent : sent[u] \in R}
    BY <1>1 DEF Sent
  <2> DEFINE P == {PositionOf(r) : r \in R}
  <2>2. P = {u \in DOMAIN sent : sent[u] \in R}
    BY <2>1
  <2>3. Latest(R) = IF P = {} THEN 0 ELSE CHOOSE p \in P : \A q \in P : q <= p
    BY Zenon DEF Latest
  <2> HIDE DEF P
  <2>4. ASSUME NEW p \in P, \A q \in P : q <= p PROVE (CHOOSE m \in P : \A q \in P : q <= m) = p
    <3>1. PICK m : m = CHOOSE x \in P : \A q \in P : q <= x
      OBVIOUS
    <3>2. m \in P /\ \A q \in P : q <= m
      BY <2>4, <3>1
    <3>3. m \in Nat /\ p \in Nat /\ m <= p /\ p <= m
      BY <1>1, <2>2, <2>4, <3>2
    <3> QED
      BY <3>1, <3>3
  <2> QED
    BY <2>1, <2>2, <2>3, <2>4
<1>3. DOMAIN audit[k] = 1..Len(audit[k])
  BY LogType
<1>4. PICK R \in SUBSET Sent : R = {audit[k][i] : i \in 1..Len(audit[k])} \cap Sent
  OBVIOUS
<1>5. Applied(k) = {u \in DOMAIN sent : sent[u] \in R} /\ LastApplied[k] = Latest(R)
  BY <1>3, <1>4 DEF Applied, Sent, LastApplied
<1>6. /\ Applied(k) = {} => LastApplied[k] = 0
      /\ \A p \in Applied(k) : (\A q \in Applied(k) : q <= p) => LastApplied[k] = p
  BY <1>2, <1>5
<1>7. ASSUME NEW u \in DOMAIN sent, optin[k] # None, sent[u].at = optin[k].at, sent[u].id = optin[k].id
      PROVE  LastOptIn[k] = u
  <2>1. PICK S \in SUBSET Sent : S = {r \in Sent : r.at = optin[k].at /\ r.id = optin[k].id}
    OBVIOUS
  <2>2. LastOptIn[k] = Latest(S)
    BY <1>7, <2>1 DEF LastOptIn
  <2>3. ASSUME NEW q \in DOMAIN sent, sent[q] \in S PROVE q = u
    <3>1. NoNewer(sent[q], sent[u]) /\ NoNewer(sent[u], sent[q])
      BY <1>7, <2>1, <2>3, SentType, EntryType DEF NoNewer
    <3> QED
      BY <1>1, <3>1, Positions
  <2>4. sent[u] \in S
    BY <1>7, <2>1 DEF Sent
  <2> QED
    BY <1>1, <1>2, <2>2, <2>3, <2>4
<1>8. optin[k] = None => LastOptIn[k] = 0
  BY DEF LastOptIn
<1> QED
  BY <1>6, <1>7, <1>8

\* And so they are after a step.
LEMMA ReadNext == TypeOK' /\ CommandsInOrder' => LedgersRead'
BY Read, PTL

\* An entry r is logged for k and applied to the districts of k, or was forgone.
Logged(k, r) ==
    /\ \/ districts' = [districts EXCEPT ![k] = Apply(districts[k], r)]
       \/ UNCHANGED districts /\ Forgone(k, r)
    /\ audit' = [audit EXCEPT ![k] = Append(audit[k], r)]

\* What a step does to the stores: nothing, or to log and apply a refusal or a
\* command newer than those applied to its key.
StoresMove ==
    \/ UNCHANGED storeVars /\ \A q \in Key : Applied(q)' = Applied(q)
    \/ \E k \in Key, r \in Entry :
          /\ Logged(k, r) /\ sent' = sent
          /\ \/ r.action = "blocked" /\ Apply(districts[k], r) = {}
             \/ /\ r \in Sent
                /\ \A i \in DOMAIN audit[k] : audit[k][i].action # "blocked" => Newer(r, audit[k][i])

\* Each step moves the two stores as a ledger may move, or not at all.
LEMMA StoreStep == IInv /\ [Next]_vars => StoresMove
<1> SUFFICES ASSUME IInv, [Next]_vars PROVE StoresMove
  OBVIOUS
<1>1. ASSUME UNCHANGED sent, UNCHANGED storeVars PROVE StoresMove
  BY <1>1 DEF StoresMove, storeVars, Applied
<1>2. ASSUME NEW w \in Worker, HandleWrite(w) \/ Commit(w) PROVE StoresMove
  <2>1. PICK c \in Entry : c = Command(w) /\ c.key \in Key /\ c \in Sent
    BY <1>2, CommandType DEF IInv, HandleWrite, Commit, Command, Sent
  <2>2. \A i \in DOMAIN audit[c.key] : audit[c.key][i].action # "blocked" => Newer(c, audit[c.key][i])
    BY <1>2, <2>1 DEF HandleWrite, Commit, IInv, Working, Holds, Fresh
  <2>3. PICK x \in Subscriber \cup {None}, D \in SUBSET District : Committed(c, x, D)
    BY <1>2, <2>1, CommandWritten, NothingWritten
  <2>4. Logged(c.key, c)
    <3>1. /\ districts' = [districts EXCEPT ![c.key] = D]
          /\ audit' = [audit EXCEPT ![c.key] = Append(audit[c.key], c)]
      BY <2>3 DEF Committed, Writes
    <3>2. CASE D = Apply(districts[c.key], c)
      BY <3>1, <3>2 DEF Logged
    <3>3. CASE D = {} /\ Forgone(c.key, c)
      <4>1. districts' = districts
        BY <2>1, <3>1, <3>3 DEF Forgone, IInv, TypeOK
      <4> QED
        BY <3>1, <3>3, <4>1 DEF Logged
    <3> QED
      BY <2>3, <3>2, <3>3 DEF Committed
  <2>5. sent' = sent
    BY <1>2 DEF HandleWrite, Commit, queueVars
  <2> QED
    BY <2>1, <2>2, <2>5, <2>4 DEF StoresMove
<1>3. CASE Forget
  <2>1. PICK k \in Key, r \in Refusal :
           \/ UNCHANGED storeVars
           \/ Writes(k, None, {}, r)
    BY <1>3, Forgotten
  <2>2. r \in Entry /\ r.action = "blocked" /\ Apply(districts[k], r) = {}
    BY DEF Refusal, Entry, Apply
  <2>3. sent' = sent
    BY <1>3 DEF Forget, queueVars
  <2> QED
    BY <1>1, <2>1, <2>2, <2>3 DEF StoresMove, Writes, Logged
<1>4. ASSUME NEW k \in Key, NEW a \in Commands, NEW d \in District \cup {None}, Send(k, a, d)
      PROVE  StoresMove
  BY <1>4, SendStep DEF StoresMove, Send
<1>5. ASSUME NEW w \in Worker, (\E u \in pending : Receive(w, u)) \/ Operator(w) \/ ReadLog(w) \/ ReadRow(w)
                               \/ WriteNothing(w) \/ ForeignKeyFails(w) \/ Answer(w) \/ Fail(w)
      PROVE  StoresMove
  BY <1>1, <1>5 DEF Receive, Operator, ReadLog, ReadRow, WriteNothing, ForeignKeyFails, Answer, Fail,
                      queueVars
<1>6. CASE \/ Tick \/ Restart \/ DeliveryLost \/ \E k \in Key : Block(k) \/ Contact(k)
           \/ \E d \in Approved : Claim(d)
  BY <1>1, <1>6 DEF Tick, Restart, DeliveryLost, Block, Contact, Claim, queueVars
<1>7. CASE UNCHANGED vars
  BY <1>1, <1>7 DEF vars, queueVars
<1> QED
  BY <1>2, <1>3, <1>4, <1>5, <1>6, <1>7 DEF Next, Webhook

\* The consent of one key stands, or was given or withdrawn by a later command,
\* or was revoked.
LEMMA LedgerMoves ==
    ASSUME IInv, LedgersRead, LedgersRead', StoresMove
    PROVE  [DistrictLedger!Next]_<<districts, LastApplied>>
<1>1. /\ DOMAIN LastApplied = Key /\ DOMAIN LastApplied' = Key
      /\ LastApplied = [q \in Key |-> LastApplied[q]] /\ LastApplied' = [q \in Key |-> LastApplied'[q]]
  BY DEF LastApplied
<1>2. \A q \in Key : Applied(q)' = Applied(q) => LastApplied'[q] = LastApplied[q]
  <2> SUFFICES ASSUME NEW q \in Key, Applied(q)' = Applied(q) PROVE LastApplied'[q] = LastApplied[q]
    OBVIOUS
  <2>1. CASE Applied(q) = {}
    BY <2>1 DEF LedgersRead
  <2>2. CASE Applied(q) # {}
    <3>1. PICK p \in Applied(q) : \A o \in Applied(q) : o <= p
      BY <2>2 DEF IInv, Consistent
    <3> QED
      BY <3>1 DEF LedgersRead
  <2> QED
    BY <2>1, <2>2
<1>3. CASE UNCHANGED storeVars /\ \A q \in Key : Applied(q)' = Applied(q)
  <2>1. LastApplied' = LastApplied
    BY <1>1, <1>2, <1>3
  <2> QED
    BY <1>3, <2>1 DEF storeVars
<1>4. ASSUME NEW k \in Key, NEW r \in Entry, Logged(k, r), sent' = sent,
             \/ r.action = "blocked" /\ Apply(districts[k], r) = {}
             \/ /\ r \in Sent
                /\ \A i \in DOMAIN audit[k] : audit[k][i].action # "blocked" => Newer(r, audit[k][i])
      PROVE  DistrictLedger!Next
  <2>1. \A q \in Key \ {k} : districts'[q] = districts[q] /\ audit'[q] = audit[q]
    BY <1>4 DEF Logged, IInv, TypeOK
  <2>2. /\ r.action = "blocked" => districts'[k] = Apply(districts[k], r)
        /\ audit'[k] = Append(audit[k], r)
    BY <1>4 DEF Logged, Forgone, IInv, TypeOK
  <2>3. \A q \in Key \ {k} : Applied(q)' = Applied(q)
    BY <1>4, <2>1 DEF Applied
  <2>4. DistrictLedger!OthersKeep(k)
    BY <1>2, <2>1, <2>3 DEF DistrictLedger!OthersKeep
  <2>5. CASE r.action = "blocked" /\ Apply(districts[k], r) = {}
    <3>1. Applied(k)' = Applied(k)
      BY <1>4, <2>2, <2>5, AppliedGrows DEF IInv
    <3>2. DistrictLedger!Revoke(k)
      BY <1>2, <2>2, <2>4, <2>5, <3>1 DEF DistrictLedger!Revoke
    <3> QED
      BY <3>2 DEF DistrictLedger!Next
  <2>6. CASE /\ r \in Sent
             /\ \A i \in DOMAIN audit[k] : audit[k][i].action # "blocked" => Newer(r, audit[k][i])
    <3>1. PICK m \in DOMAIN sent : r = sent[m]
      BY <2>6 DEF Sent
    <3>2. Applied(k)' = Applied(k) \cup {m} /\ \A q \in Applied(k) : q < m
      BY <1>4, <2>2, <2>6, <3>1, AppliedGrows DEF IInv
    <3>3. m \in Nat /\ m >= 1 /\ \A q \in Applied(k) : q \in Nat
      BY SentType DEF IInv, Applied
    <3>4. LastApplied'[k] = m
      BY <3>2, <3>3 DEF LedgersRead
    <3>5. LastApplied[k] < m
      <4>1. CASE Applied(k) = {}
        BY <3>3, <4>1 DEF LedgersRead
      <4>2. CASE Applied(k) # {}
        <5>1. PICK p \in Applied(k) : \A o \in Applied(k) : o <= p
          BY <4>2 DEF IInv, Consistent
        <5> QED
          BY <3>2, <5>1 DEF LedgersRead
      <4> QED
        BY <4>1, <4>2
    <3>6. DistrictLedger!Decide(k)
      BY <2>4, <3>3, <3>4, <3>5 DEF DistrictLedger!Decide
    <3> QED
      BY <3>6 DEF DistrictLedger!Next
  <2> QED
    BY <1>4, <2>5, <2>6
<1> QED
  BY <1>3, <1>4 DEF StoresMove

\* Every opt-in row names a command that was sent.
OptInsSent == \A k \in Key : optin[k] # None =>
    \E u \in DOMAIN sent : sent[u].at = optin[k].at /\ sent[u].id = optin[k].id

\* Commands are only added, and opt-ins only change by a command newer than the
\* one they come from.
LEMMA OptInMoves ==
    ASSUME IInv, [Next]_vars
    PROVE  /\ \A u \in DOMAIN sent : u \in DOMAIN sent' /\ sent'[u] = sent[u]
           /\ \/ optin' = optin
              \/ \E u \in DOMAIN sent, x \in OptIn, k \in Key :
                    /\ optin' = [optin EXCEPT ![k] = x] /\ sent[u].at = x.at /\ sent[u].id = x.id
                    /\ optin[k] # None => Newer(sent[u], optin[k])
<1>1. ASSUME NEW k \in Key, NEW a \in Commands, NEW d \in District \cup {None}, Send(k, a, d)
      PROVE  optin' = optin /\ \A u \in DOMAIN sent : u \in DOMAIN sent' /\ sent'[u] = sent[u]
  <2>1. PICK c : sent' = Append(sent, c)
    BY <1>1 DEF Send
  <2> QED
    BY <1>1, <2>1 DEF Send, IInv, TypeOK
<1>2. ASSUME NEW w \in Worker, Operator(w)
      PROVE  /\ sent' = sent
             /\ \/ optin' = optin
                \/ \E u \in DOMAIN sent, x \in OptIn, k \in Key :
                      /\ optin' = [optin EXCEPT ![k] = x] /\ sent[u].at = x.at /\ sent[u].id = x.id
                      /\ optin[k] # None => Newer(sent[u], optin[k])
  <2>1. PICK u \in DOMAIN sent : u = work[w].u /\ sent[u] \in Order /\ sent[u] = Command(w)
    BY <1>2, CommandType DEF IInv, Operator, Command
  <2>2. PICK x \in OptIn : x = [active |-> sent[u].action = "start", at |-> sent[u].at, id |-> sent[u].id]
    <3>1. (sent[u].action = "start") \in BOOLEAN /\ sent[u].at \in 0..MaxClock /\ sent[u].id \in 1..MaxUpdates
      BY <2>1 DEF Order
    <3>2. [active |-> sent[u].action = "start", at |-> sent[u].at, id |-> sent[u].id] \in OptIn
      BY <3>1 DEF OptIn
    <3> QED
      BY <3>2
  <2>3. sent[u].key \in Key
    BY <2>1 DEF Order
  <2> QED
    BY <1>2, <2>1, <2>2, <2>3 DEF Operator, queueVars, Newer
<1>3. CASE UNCHANGED <<sent, optin>>
  BY <1>3
<1>4. \/ UNCHANGED <<sent, optin>> \/ \E w \in Worker : Operator(w)
      \/ \E k \in Key, a \in Commands, d \in District \cup {None} : Send(k, a, d)
  BY DEF Next, Webhook, Block, Tick, Receive, ReadLog, ReadRow, HandleWrite, WriteNothing, Commit,
         ForeignKeyFails, Answer, Fail, Restart, Claim, Contact, Forget, DeliveryLost, vars, queueVars
<1> QED
  BY <1>1, <1>2, <1>3, <1>4

\* Each step moves the operators' opt-ins as a ledger may move, or not at all.
LEMMA OptInStep ==
    ASSUME IInv, OptInsSent, LedgersRead, LedgersRead', [Next]_vars
    PROVE  OptInsSent' /\ [OperatorLedger!Next]_<<OptedIn, LastOptIn>>
<1>1. \A u \in DOMAIN sent : u \in DOMAIN sent' /\ sent'[u] = sent[u]
  BY OptInMoves
<1>2. /\ \A k \in Key : OptedIn[k] = (optin[k] # None /\ optin[k].active)
      /\ \A k \in Key : OptedIn'[k] = (optin'[k] # None /\ optin'[k].active)
      /\ OptedIn = [q \in Key |-> OptedIn[q]] /\ OptedIn' = [q \in Key |-> OptedIn'[q]]
      /\ LastOptIn = [q \in Key |-> LastOptIn[q]] /\ LastOptIn' = [q \in Key |-> LastOptIn'[q]]
  BY DEF OptedIn, LastOptIn
<1>3. \A q \in Key : optin'[q] = optin[q] =>
         /\ OptedIn'[q] = OptedIn[q] /\ LastOptIn'[q] = LastOptIn[q]
         /\ optin'[q] # None =>
              \E u \in DOMAIN sent' : sent'[u].at = optin'[q].at /\ sent'[u].id = optin'[q].id
  <2> SUFFICES ASSUME NEW q \in Key, optin'[q] = optin[q]
               PROVE  /\ OptedIn'[q] = OptedIn[q] /\ LastOptIn'[q] = LastOptIn[q]
                      /\ optin'[q] # None =>
                           \E u \in DOMAIN sent' : sent'[u].at = optin'[q].at /\ sent'[u].id = optin'[q].id
    OBVIOUS
  <2>1. CASE optin[q] = None
    BY <1>2, <2>1 DEF LedgersRead
  <2>2. CASE optin[q] # None
    <3>1. PICK u \in DOMAIN sent : sent[u].at = optin[q].at /\ sent[u].id = optin[q].id
      BY <2>2 DEF OptInsSent
    <3>2. LastOptIn[q] = u /\ LastOptIn'[q] = u
      BY <1>1, <2>2, <3>1 DEF LedgersRead
    <3> QED
      BY <1>1, <1>2, <3>1, <3>2
  <2> QED
    BY <2>1, <2>2
<1>4. CASE optin' = optin
  <2>1. OptedIn' = OptedIn /\ LastOptIn' = LastOptIn
    BY <1>2, <1>3, <1>4
  <2> QED
    BY <1>3, <1>4, <2>1 DEF OptInsSent
<1>5. ASSUME NEW u \in DOMAIN sent, NEW x \in OptIn, NEW k \in Key,
             optin' = [optin EXCEPT ![k] = x], sent[u].at = x.at, sent[u].id = x.id,
             optin[k] # None => Newer(sent[u], optin[k])
      PROVE  OptInsSent' /\ OperatorLedger!Next
  <2>1. optin'[k] = x /\ x # None /\ \A q \in Key \ {k} : optin'[q] = optin[q]
    BY <1>5, NotNone DEF IInv, TypeOK
  <2>2. OptInsSent'
    BY <1>1, <1>3, <1>5, <2>1 DEF OptInsSent
  <2>3. LastOptIn'[k] = u /\ u \in Nat /\ u >= 1
    BY <1>1, <1>5, <2>1, SentType DEF LedgersRead, IInv
  <2>4. LastOptIn[k] < u
    <3>1. CASE optin[k] = None
      BY <2>3, <3>1 DEF LedgersRead
    <3>2. CASE optin[k] # None
      <4>1. PICK p \in DOMAIN sent : sent[p].at = optin[k].at /\ sent[p].id = optin[k].id
        BY <3>2 DEF OptInsSent
      <4>2. Newer(sent[u], sent[p])
        BY <1>5, <3>2, <4>1 DEF Newer, NoNewer
      <4>3. p < u /\ LastOptIn[k] = p
        BY <3>2, <4>1, <4>2, Positions DEF LedgersRead, IInv
      <4> QED
        BY <4>3
    <3> QED
      BY <3>1, <3>2
  <2>5. OperatorLedger!OthersKeep(k)
    BY <1>3, <2>1 DEF OperatorLedger!OthersKeep
  <2>6. OperatorLedger!Decide(k)
    BY <2>3, <2>4, <2>5, SentType DEF OperatorLedger!Decide
  <2> QED
    BY <2>2, <2>6 DEF OperatorLedger!Next
<1> QED
  BY <1>4, <1>5, OptInMoves

-----------------------------------------------------------------------------
(* The log replayed.                                                       *)

\* The numbers before each number.
Before == OpToRel(<, Nat)

\* A non-empty set of natural numbers has a least element.
LEMMA Least == \A S : S \subseteq Nat /\ S # {} => \E n \in S : \A m \in S : n <= m
<1> SUFFICES ASSUME NEW S, S \subseteq Nat, S # {} PROVE \E n \in S : \A m \in S : n <= m
  OBVIOUS
<1>1. PICK n \in S : \A m \in S : ~(<<m, n>> \in Before)
  BY NatLessThanWellFounded, WFMin DEF Before
<1>2. ASSUME NEW m \in S, ~(n <= m) PROVE <<m, n>> \in Before
  <2>1. m \in Nat /\ n \in Nat /\ m < n
    BY <1>2
  <2> QED
    BY <2>1 DEF OpToRel, Before
<1> QED
  BY <1>1, <1>2

\* What holds of zero, and with each number of the next, holds of all.
LEMMA Induction == \A P : 0 \in P /\ (\A n \in Nat : n \in P => n + 1 \in P) => Nat \subseteq P
<1> SUFFICES ASSUME NEW P, 0 \in P, \A n \in Nat : n \in P => n + 1 \in P, Nat \ P # {} PROVE FALSE
  OBVIOUS
<1>1. PICK n \in Nat \ P : \A m \in Nat \ P : n <= m
  BY Least
<1>2. n # 0 /\ n - 1 \in Nat
  BY <1>1
<1> QED
  BY <1>1, <1>2

\* Of some of the first numbers, one is the largest.
LEMMA Largest ==
    \A n \in Nat : \A S : S \subseteq 0 .. n /\ S # {} => SeqX!Max(S) \in S /\ \A m \in S : m <= SeqX!Max(S)
<1> SUFFICES ASSUME NEW n \in Nat, NEW S, S \subseteq 0 .. n, S # {}
             PROVE  SeqX!Max(S) \in S /\ \A m \in S : m <= SeqX!Max(S)
  OBVIOUS
<1> DEFINE D == {n - m : m \in S}
<1>1. \A m \in S : m \in Nat /\ n - m \in Nat /\ n - m \in D
  OBVIOUS
<1>2. PICK d \in D : \A e \in D : d <= e
  BY <1>1, Least
<1>3. PICK x \in S : d = n - x
  BY <1>2
<1>4. \A y \in S : x >= y
  BY <1>1, <1>2, <1>3
<1> QED
  BY <1>1, <1>4 DEF SeqX!Max

\* The districts that the parts of a log lead to, as the replay folds over them.
Step(h, rows, s) == IF s = {} THEN {} ELSE Apply(h[s \ {SeqX!Max(s)}], rows[SeqX!Max(s)])
Replays(h, rows) == h = [s \in SUBSET DOMAIN rows |-> Step(h, rows, s)]

\* A replay goes on with one more entry.
LEMMA ReplayGrows ==
    ASSUME NEW rows \in Seq(Entry), NEW r \in Entry, NEW h, Replays(h, rows)
    PROVE  \E g : Replays(g, Append(rows, r)) /\ g[DOMAIN Append(rows, r)] = Apply(h[DOMAIN rows], r)
<1> DEFINE n == Len(rows)
           more == Append(rows, r)
           g == [s \in SUBSET DOMAIN more |-> IF n + 1 \in s THEN Apply(h[s \ {n + 1}], r) ELSE h[s]]
<1>1. /\ n \in Nat /\ DOMAIN rows = 1 .. n /\ DOMAIN more = 1 .. n + 1
      /\ more[n + 1] = r /\ \A i \in 1 .. n : more[i] = rows[i]
  OBVIOUS
<1>2. \A s \in SUBSET (1 .. n) : h[s] = Step(h, rows, s)
  BY <1>1 DEF Replays
<1>3. ASSUME NEW s \in SUBSET DOMAIN more PROVE g[s] = Step(g, more, s)
  <2>1. s # {} => SeqX!Max(s) \in s /\ \A m \in s : m <= SeqX!Max(s)
    <3>1. n + 1 \in Nat /\ s \subseteq 0 .. n + 1
      BY <1>1
    <3> QED
      BY <3>1, Largest
  <2>2. CASE n + 1 \in s
    <3>1. SeqX!Max(s) = n + 1 /\ s # {} /\ s \ {n + 1} \subseteq 1 .. n /\ s \ {n + 1} \in SUBSET DOMAIN more
      BY <1>1, <2>1, <2>2
    <3>2. n + 1 \notin s \ {n + 1} /\ g[s \ {n + 1}] = h[s \ {n + 1}]
      BY <3>1
    <3> QED
      BY <1>1, <2>2, <3>1, <3>2 DEF Step
  <2>3. CASE n + 1 \notin s
    <3>1. s \in SUBSET (1 .. n) /\ g[s] = h[s]
      BY <1>1, <2>3
    <3>2. CASE s = {}
      BY <1>2, <3>1, <3>2 DEF Step
    <3>3. CASE s # {}
      <4>1. /\ SeqX!Max(s) \in 1 .. n /\ more[SeqX!Max(s)] = rows[SeqX!Max(s)]
            /\ s \ {SeqX!Max(s)} \in SUBSET (1 .. n) /\ n + 1 \notin s \ {SeqX!Max(s)}
            /\ s \ {SeqX!Max(s)} \in SUBSET DOMAIN more
        BY <1>1, <2>1, <3>1, <3>3
      <4>2. g[s \ {SeqX!Max(s)}] = h[s \ {SeqX!Max(s)}]
        BY <4>1
      <4> QED
        BY <1>2, <3>1, <3>3, <4>1, <4>2 DEF Step
    <3> QED
      BY <3>2, <3>3
  <2> QED
    BY <2>2, <2>3
<1>4. Replays(g, more)
  BY <1>3 DEF Replays
<1>5. g[DOMAIN more] = Apply(h[DOMAIN rows], r)
  <2>1. n + 1 \in DOMAIN more /\ DOMAIN more \in SUBSET DOMAIN more /\ DOMAIN more \ {n + 1} = DOMAIN rows
    BY <1>1
  <2> QED
    BY <2>1
<1> QED
  BY <1>4, <1>5

\* A log is replayed in one way only.
LEMMA ReplaysAgree ==
    ASSUME NEW rows \in Seq(Entry), NEW g, NEW h, Replays(g, rows), Replays(h, rows)
    PROVE  g[DOMAIN rows] = h[DOMAIN rows]
<1> DEFINE n == Len(rows)
           P == {i \in Nat : i <= n => g[1 .. i] = h[1 .. i]}
<1>1. n \in Nat /\ DOMAIN rows = 1 .. n
  OBVIOUS
<1>2. \A s \in SUBSET (1 .. n) : g[s] = Step(g, rows, s) /\ h[s] = Step(h, rows, s)
  BY <1>1 DEF Replays
<1>3. 0 \in P
  <2>1. 1 .. 0 = {} /\ 1 .. 0 \in SUBSET (1 .. n)
    BY <1>1
  <2> QED
    BY <1>2, <2>1 DEF Step
<1>4. ASSUME NEW i \in Nat, i \in P, i + 1 <= n PROVE g[1 .. i + 1] = h[1 .. i + 1]
  <2> DEFINE s == 1 .. i + 1
  <2>1. i + 1 \in s /\ s \subseteq 0 .. n /\ s \in SUBSET (1 .. n) /\ s # {}
    <3>1. i \in Nat /\ n \in Nat /\ i + 1 <= n
      BY <1>1, <1>4
    <3>2. i + 1 \in s /\ s # {}
      BY <3>1
    <3>3. ASSUME NEW m \in s PROVE m \in 1 .. n /\ m \in 0 .. n
      <4>1. m \in Int /\ 1 <= m /\ m <= i + 1
        BY <3>1
      <4>2. m <= n
        BY <3>1, <4>1
      <4> QED
        BY <3>1, <4>1, <4>2
    <3> QED
      BY <3>2, <3>3
  <2>2. s \ {i + 1} = 1 .. i
    OBVIOUS
  <2>3. SeqX!Max(s) = i + 1
    <3>1. SeqX!Max(s) \in s /\ i + 1 <= SeqX!Max(s)
      BY <1>1, <2>1, Largest
    <3> QED
      BY <3>1
  <2>4. g[s] = Apply(g[1 .. i], rows[i + 1]) /\ h[s] = Apply(h[1 .. i], rows[i + 1])
    <3> HIDE DEF s
    <3>1. \A f : Step(f, rows, s) = Apply(f[1 .. i], rows[i + 1])
      BY <2>1, <2>2, <2>3 DEF Step
    <3>2. g[s] = Step(g, rows, s) /\ h[s] = Step(h, rows, s)
      BY <1>2, <2>1
    <3> QED
      BY <3>1, <3>2
  <2>5. g[1 .. i] = h[1 .. i]
    BY <1>1, <1>4
  <2> QED
    BY <2>4, <2>5
<1>5. n \in P
  <2>1. \A i \in Nat : i \in P => i + 1 \in P
    BY <1>1, <1>4
  <2> QED
    BY <1>1, <1>3, <2>1, Induction
<1> QED
  BY <1>1, <1>5

\* The replay of a log, where there is one.
LEMMA ReplayIs ==
    ASSUME NEW rows \in Seq(Entry), NEW h, Replays(h, rows)
    PROVE  Replay(rows) = h[DOMAIN rows]
<1>1. Replay(rows) = (CHOOSE g : Replays(g, rows))[DOMAIN rows]
  BY DEF Replay, SeqX!FoldLeft, SeqX!MapThenFoldSet, Replays, Step
<1>2. Replays(CHOOSE g : Replays(g, rows), rows)
  OBVIOUS
<1> QED
  BY <1>1, <1>2, ReplaysAgree

\* What replaying some rows gives, and the districts there are.
Matches(R, D, rows) == D \subseteq R /\ R \ D \subseteq Lost(rows)

\* Everybody's log has been replayed, to the districts there are.
Replayed == \A k \in Key : \E h :
    Replays(h, audit[k]) /\ Matches(h[DOMAIN audit[k]], districts[k], audit[k])

\* A subscription stays lost while entries are about other districts; right after
\* a refusal none is, and the next may be.
LEMMA LostGrows ==
    ASSUME NEW rows \in Seq(Entry), NEW r \in Entry
    PROVE  LET n == Len(rows) IN
           /\ r.action \in {"subscribe", "unsubscribe"} => Lost(rows) \ {r.district} \subseteq Lost(Append(rows, r))
           /\ n > 0 /\ rows[n].action = "blocked" =>
                 /\ Lost(rows) = {}
                 /\ r.action = "subscribe" => r.district \in Lost(Append(rows, r))
<1> DEFINE n == Len(rows)
           more == Append(rows, r)
<1>1. /\ n \in Nat /\ Len(more) = n + 1 /\ more[n + 1] = r
      /\ \A i \in 1 .. n : more[i] = rows[i]
  OBVIOUS
<1> HIDE DEF n, more
<1>2. ASSUME r.action \in {"subscribe", "unsubscribe"}, NEW d \in Lost(rows), d # r.district
      PROVE  d \in Lost(more)
  <2>1. PICK i \in 2 .. n :
           /\ d = rows[i].district /\ rows[i-1].action = "blocked" /\ rows[i].action = "subscribe"
           /\ \A m \in (i+1) .. n : /\ rows[m].action \in {"subscribe", "unsubscribe"}
                                    /\ rows[m].district # rows[i].district
    BY DEF Lost, n
  <2>2. i \in 2 .. n + 1 /\ i \in 1 .. n /\ i - 1 \in 1 .. n
    BY <1>1
  <2>3. more[i] = rows[i] /\ more[i-1] = rows[i-1]
    BY <1>1, <2>2
  <2>4. ASSUME NEW m \in (i+1) .. n + 1
        PROVE  more[m].action \in {"subscribe", "unsubscribe"} /\ more[m].district # more[i].district
    <3>1. CASE m = n + 1
      BY <1>1, <1>2, <2>1, <2>3, <3>1
    <3>2. CASE m # n + 1
      <4>1. m \in (i+1) .. n /\ m \in 1 .. n
        BY <1>1, <2>2, <3>2
      <4> QED
        BY <1>1, <2>1, <2>3, <4>1
    <3> QED
      BY <3>1, <3>2
  <2> QED
    BY <1>1, <2>1, <2>2, <2>3, <2>4 DEF Lost
<1>3. ASSUME n > 0, rows[n].action = "blocked" PROVE Lost(rows) = {}
  <2> SUFFICES ASSUME NEW i \in 2 .. n, rows[i].action = "subscribe",
                      \A m \in (i+1) .. n : rows[m].action \in {"subscribe", "unsubscribe"}
               PROVE  FALSE
    BY DEF Lost, n
  <2>1. i # n
    BY <1>3
  <2>2. n \in (i+1) .. n
    BY <1>1, <2>1
  <2> QED
    BY <1>3, <2>2
<1>4. ASSUME n > 0, rows[n].action = "blocked", r.action = "subscribe" PROVE r.district \in Lost(more)
  <2>1. n + 1 \in 2 .. n + 1 /\ n \in 1 .. n /\ (n + 1) - 1 = n /\ (n + 1 + 1) .. (n + 1) = {}
    BY <1>1, <1>4
  <2> QED
    BY <1>1, <1>4, <2>1 DEF Lost
<1> QED
  BY <1>2, <1>3, <1>4 DEF n, more

\* An entry applied to both sides keeps them matching.
LEMMA EntryMatches ==
    ASSUME NEW rows \in Seq(Entry), NEW r \in Entry, NEW R, NEW D, Matches(R, D, rows)
    PROVE  Matches(Apply(R, r), Apply(D, r), Append(rows, r))
<1>1. CASE r.action = "subscribe"
  <2>1. Apply(R, r) = R \cup {r.district} /\ Apply(D, r) = D \cup {r.district}
    BY <1>1 DEF Apply
  <2>2. Lost(rows) \ {r.district} \subseteq Lost(Append(rows, r))
    BY <1>1, LostGrows
  <2> QED
    BY <2>1, <2>2 DEF Matches
<1>2. CASE r.action = "unsubscribe"
  <2>1. Apply(R, r) = R \ {r.district} /\ Apply(D, r) = D \ {r.district}
    BY <1>2 DEF Apply
  <2>2. Lost(rows) \ {r.district} \subseteq Lost(Append(rows, r))
    BY <1>2, LostGrows
  <2> QED
    BY <2>1, <2>2 DEF Matches
<1>3. CASE r.action \notin {"subscribe", "unsubscribe"}
  <2>1. Apply(R, r) = {} /\ Apply(D, r) = {}
    BY <1>3 DEF Apply
  <2> QED
    BY <2>1 DEF Matches
<1> QED
  BY <1>1, <1>2, <1>3

\* Whatever is logged is applied, or forgone.
LEMMA ReplayStep == IInv /\ Replayed /\ [Next]_vars => Replayed'
<1> SUFFICES ASSUME IInv, Replayed, [Next]_vars, NEW q \in Key
             PROVE  \E h : Replays(h, audit'[q]) /\ Matches(h[DOMAIN audit'[q]], districts'[q], audit'[q])
  BY DEF Replayed
<1>1. PICK h : Replays(h, audit[q]) /\ Matches(h[DOMAIN audit[q]], districts[q], audit[q])
  BY DEF Replayed
<1>2. audit[q] \in Seq(Entry) /\ audit \in [Key -> Seq(Entry)] /\ districts \in [Key -> SUBSET District]
  BY DEF IInv, TypeOK, Entry
<1>3. CASE audit'[q] = audit[q] /\ districts'[q] = districts[q]
  BY <1>1, <1>3
<1>4. ASSUME NEW r \in Entry, Logged(q, r)
      PROVE  \E g : Replays(g, audit'[q]) /\ Matches(g[DOMAIN audit'[q]], districts'[q], audit'[q])
  <2>1. audit'[q] = Append(audit[q], r)
    BY <1>2, <1>4 DEF Logged
  <2>2. PICK g : /\ Replays(g, Append(audit[q], r))
                 /\ g[DOMAIN Append(audit[q], r)] = Apply(h[DOMAIN audit[q]], r)
    BY <1>1, <1>2, ReplayGrows
  <2>3. CASE districts'[q] = Apply(districts[q], r)
    <3>1. Matches(Apply(h[DOMAIN audit[q]], r), Apply(districts[q], r), Append(audit[q], r))
      BY <1>1, <1>2, EntryMatches
    <3> QED
      BY <2>1, <2>2, <2>3, <3>1
  <2>4. CASE districts'[q] = districts[q] /\ Forgone(q, r)
    <3>1. /\ Lost(audit[q]) = {} /\ r.district \in Lost(Append(audit[q], r))
          /\ districts[q] = {} /\ r.action = "subscribe"
      BY <1>2, <2>4, LostGrows DEF Forgone
    <3>2. h[DOMAIN audit[q]] = {}
      BY <1>1, <3>1 DEF Matches
    <3>3. Apply(h[DOMAIN audit[q]], r) = {r.district}
      BY <3>1, <3>2 DEF Apply
    <3>4. Matches({r.district}, {}, Append(audit[q], r))
      BY <3>1 DEF Matches
    <3> QED
      BY <2>1, <2>2, <2>4, <3>1, <3>3, <3>4
  <2> QED
    BY <1>2, <1>4, <2>3, <2>4 DEF Logged
<1>5. ASSUME NEW k \in Key, NEW r \in Entry, Logged(k, r), k # q
      PROVE  audit'[q] = audit[q] /\ districts'[q] = districts[q]
  BY <1>2, <1>5 DEF Logged
<1> QED
  BY <1>3, <1>4, <1>5, StoreStep DEF StoresMove, storeVars

-----------------------------------------------------------------------------
(* The theorems.                                                           *)

\* The inductive invariant, for any number of people, threads and commands.
THEOREM Invariant == Spec => []IInv
BY InitInv, InvStep, PTL DEF Spec

\* SubscriptionStore and DistrictSubscriptions keep a chat ID exactly while
\* some district needs it.
THEOREM ChatIdKeptWhileNeeded == Spec => []ChatIdOnlyWhileNeeded
<1>1. IInv => ChatIdOnlyWhileNeeded
  BY DEF IInv, Consistent, ChatIdOnlyWhileNeeded
<1> QED
  BY <1>1, Invariant, PTL

\* DistrictSubscriptions.handle and forget_blocked: the latest entry by
\* (command_at, update_id) decides, whatever the order commands arrive in.
THEOREM OptOutDecides == Spec => []OptOutHolds
<1>1. IInv => OptOutHolds
  BY DEF IInv, Consistent, OptOutHolds
<1> QED
  BY <1>1, Invariant, PTL

\* intake: a demonstration subscription belongs to a private test chat, also
\* when the server restarts in the other mode while commands are waiting.
THEOREM DemonstrationStaysPrivate == Spec => []DemonstrationIsPrivate
<1>1. IInv => DemonstrationIsPrivate
  BY DEF IInv, Consistent, DemonstrationIsPrivate
<1> QED
  BY <1>1, Invariant, PTL

\* The step that a replay repeats: one entry of one person's log is committed
\* together with its effect on the districts.  The only entry without its effect
\* is a subscription committed right after the refusal that emptied them.
EntryApplied == \E k \in Key, r \in Entry : Logged(k, r)

\* telegram_district_audit: consent changes only together with its log, and the
\* log grows only together with the consent, but for a subscription that was in
\* place and lost its row to forget_blocked before it was committed.
THEOREM ConsentIsLogged == Spec => [][EntryApplied]_<<districts, audit>>
<1>1. IInv /\ [Next]_vars => [EntryApplied]_<<districts, audit>>
  BY StoreStep DEF StoresMove, EntryApplied, storeVars
<1> QED
  BY <1>1, Invariant, PTL DEF Spec

\* telegram_district_audit: replaying the audit rows of a person gives the districts
\* there are, and those whose last entry is a subscription logged right after a
\* refusal: it was in place and its commit came too late.
THEOREM AuditIsReplayed == Spec => []AuditReplays
<1>1. Init => Replayed
  <2> SUFFICES ASSUME Init, NEW k \in Key
               PROVE  \E h : Replays(h, audit[k]) /\ Matches(h[DOMAIN audit[k]], districts[k], audit[k])
    BY DEF Replayed
  <2>1. audit[k] = <<>> /\ districts[k] = {} /\ DOMAIN audit[k] = {}
    BY DEF Init
  <2>2. Replays([s \in SUBSET DOMAIN audit[k] |-> {}], audit[k])
    BY <2>1 DEF Replays, Step
  <2>3. Matches([s \in SUBSET DOMAIN audit[k] |-> {}][DOMAIN audit[k]], districts[k], audit[k])
    BY <2>1 DEF Matches
  <2> QED
    BY <2>2, <2>3
<1>2. IInv /\ Replayed => AuditReplays
  <2> SUFFICES ASSUME IInv, Replayed, NEW k \in Key
               PROVE  districts[k] \subseteq Replay(audit[k]) /\ Replay(audit[k]) \ districts[k] \subseteq Lost(audit[k])
    BY DEF AuditReplays
  <2>1. audit[k] \in Seq(Entry)
    BY DEF IInv, TypeOK, Entry
  <2>2. PICK h : Replays(h, audit[k]) /\ Matches(h[DOMAIN audit[k]], districts[k], audit[k])
    BY DEF Replayed
  <2> QED
    BY <2>1, <2>2, ReplayIs DEF Matches
<1> QED
  BY <1>1, <1>2, ReplayStep, Invariant, PTL DEF Spec

\* The districts of a person move only by a command sent after every command
\* applied before, or by a refusal of Telegram.
THEOREM DistrictsImplementLedger == Spec => DistrictsFollowLedger
<1>1. Init => DistrictLedger!Init
  <2> SUFFICES ASSUME Init PROVE DistrictLedger!Init
    OBVIOUS
  <2>1. TypeOK /\ CommandsInOrder /\ \A k \in Key : Applied(k) = {}
    BY InitInv DEF IInv, Init, Applied
  <2>2. \A k \in Key : LastApplied[k] = 0
    BY <2>1, Read DEF LedgersRead
  <2> QED
    BY <2>2 DEF Init, DistrictLedger!Init, LastApplied
<1>2. IInv /\ IInv' /\ [Next]_vars => [DistrictLedger!Next]_<<districts, LastApplied>>
  BY StoreStep, Read, ReadNext, LedgerMoves DEF IInv
<1> QED
  BY <1>1, <1>2, Invariant, PTL DEF Spec, DistrictsFollowLedger, DistrictLedger!Spec

\* The opt-in of an operator moves only by a command sent after the one it
\* comes from.
THEOREM OptInsImplementLedger == Spec => OptInsFollowLedger
<1>1. Init => OptInsSent /\ OperatorLedger!Init
  BY DEF Init, OptInsSent, OperatorLedger!Init, OptedIn, LastOptIn
<1>2. IInv /\ IInv' /\ OptInsSent /\ [Next]_vars
         => OptInsSent' /\ [OperatorLedger!Next]_<<OptedIn, LastOptIn>>
  BY Read, ReadNext, OptInStep DEF IInv
<1> QED
  BY <1>1, <1>2, Invariant, PTL DEF Spec, OptInsFollowLedger, OperatorLedger!Spec

=============================================================================
