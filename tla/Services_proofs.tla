----------------------------- MODULE Services_proofs -----------------------------
(***************************************************************************)
(* Proofs about the services, for every value of their constants: the      *)
(* webhook proxy, the pool of connections, the location directory, the     *)
(* administrator's set-up and upgrade, administrators' sessions and        *)
(* attempts, the public limits and the routing quota, the river forecast,  *)
(* the weather and the outlook, the warnings by day, the place names, the  *)
(* reverse geocoding and, with its own proofs, the risk screen.            *)
(***************************************************************************)
EXTENDS Services, RiskScreen_proofs, SequenceTheorems, WellFoundedInduction

\* The modules that are instantiated count as this one does.
LEMMA SameCount ==
    \A S : /\ Proxy!Cardinality(S) = Cardinality(S) /\ Pool!Cardinality(S) = Cardinality(S)
           /\ Feeds!Cardinality(S) = Cardinality(S) /\ Warnings!Cardinality(S) = Cardinality(S)
           /\ Places!Cardinality(S) = Cardinality(S) /\ Geocoding!Cardinality(S) = Cardinality(S)
           /\ Admin!Cardinality(S) = Cardinality(S) /\ Public!Cardinality(S) = Cardinality(S)
BY DEF Proxy!Cardinality, Pool!Cardinality, Feeds!Cardinality, Warnings!Cardinality, Places!Cardinality,
   Geocoding!Cardinality, Admin!Cardinality, Public!Cardinality, Cardinality

-----------------------------------------------------------------------------
(***************************************************************************)
(* The webhook proxy.                                                      *)
(***************************************************************************)
Conns == [pc : {"new", "starting", "head", "body", "connecting", "sent", "check", "answering", "respond",
                "finish", "release", "closed"},
          timer : {"off", "armed", "marked", "expired"}, expired : BOOLEAN,
          client : {"open", "shut"}, upstream : {"none", "open", "shut"}]

\* What holds of each connection.  The mark and the timer agree, and the socket to
\* the backend is known when the handler reads from it.
Sound(x) ==
    /\ x.pc \in {"new", "starting"} => x.timer = "off"
    /\ x.expired <=> x.timer \in {"marked", "expired"}
    /\ x.pc \in {"check", "answering"} => x.upstream # "none"
    /\ x.timer = "expired" => x.client = "shut" /\ (x.pc = "answering" => x.upstream = "shut")

IsHandled(x) == x.pc \notin {"new", "closed"}
Handling == {c \in Client : IsHandled(conn[c])}
Place(x) == IF IsHandled(x) THEN 1 ELSE 0

ProxyInv ==
    /\ conn \in [Client -> Conns] /\ slots \in Int
    /\ \A c \in Client : Sound(conn[c])
    /\ slots + Cardinality(Handling) = Slots

\* A step moves one connection, which takes its place or gives it back.
ConnMoves(c) ==
    /\ conn' \in [Client -> Conns]
    /\ \A d \in Client \ {c} : conn'[d] = conn[d]
    /\ Sound(conn'[c])
    /\ slots' = slots + Place(conn[c]) - Place(conn'[c])

-----------------------------------------------------------------------------
\* Places are counted as connections move.
LEMMA ConnCounted ==
    ASSUME IsFiniteSet(Client), NEW c \in Client, ProxyInv, ConnMoves(c)
    PROVE  ProxyInv'
<1>1. Handling \subseteq Client /\ IsFiniteSet(Handling) /\ Cardinality(Handling) \in Int
  BY FS_Subset, FS_CardinalityType DEF Handling
<1>2. /\ conn' \in [Client -> Conns] /\ slots' \in Int
      /\ \A d \in Client : Sound(conn[d])'
  BY DEF ProxyInv, ConnMoves, Sound, Place
<1>3. CASE IsHandled(conn'[c])
  <2>1. Handling' = Handling \cup {c}
    BY <1>3 DEF Handling, ConnMoves, IsHandled
  <2>2. Cardinality(Handling') = IF c \in Handling THEN Cardinality(Handling) ELSE Cardinality(Handling) + 1
    BY <1>1, <2>1, FS_AddElement
  <2>3. c \in Handling <=> IsHandled(conn[c])
    BY DEF Handling
  <2> QED
    BY <1>1, <1>2, <1>3, <2>2, <2>3 DEF ProxyInv, ConnMoves, Place
<1>4. CASE ~IsHandled(conn'[c])
  <2>1. Handling' = Handling \ {c}
    BY <1>4 DEF Handling, ConnMoves, IsHandled
  <2>2. Cardinality(Handling') = IF c \in Handling THEN Cardinality(Handling) - 1 ELSE Cardinality(Handling)
    BY <1>1, <2>1, FS_RemoveElement
  <2>3. c \in Handling <=> IsHandled(conn[c])
    BY DEF Handling
  <2> QED
    BY <1>1, <1>2, <1>4, <2>2, <2>3 DEF ProxyInv, ConnMoves, Place
<1> QED
  BY <1>3, <1>4

\* A handler's step from one point to another, of which neither is the reading of
\* the backend's answer, and both or neither keep a place.
LEMMA HandlerGoes ==
    ASSUME ProxyInv, NEW c \in Client,
           NEW from \in {"new", "starting", "head", "body", "connecting", "sent", "answering", "respond", "release"},
           NEW to \in {"starting", "head", "body", "connecting", "sent", "respond", "finish", "closed"},
           Proxy!Go(c, from, to), to = "starting" => from = "new",
           slots' = slots + (IF from = "new" THEN 0 ELSE 1) - (IF to = "closed" THEN 0 ELSE 1)
    PROVE  ConnMoves(c)
<1>1. conn \in [Client -> Conns] /\ Sound(conn[c]) /\ conn[c].pc = from
  BY DEF ProxyInv, Proxy!Go
<1>2. conn' = [conn EXCEPT ![c] = [conn[c] EXCEPT !.pc = to]]
  BY <1>1 DEF Proxy!Go
<1>3. conn' \in [Client -> Conns] /\ conn'[c] = [conn[c] EXCEPT !.pc = to] /\ \A d \in Client \ {c} : conn'[d] = conn[d]
  BY <1>1, <1>2 DEF Conns
<1>4. conn'[c].pc = to /\ conn'[c].timer = conn[c].timer /\ conn'[c].expired = conn[c].expired
      /\ conn'[c].client = conn[c].client /\ conn'[c].upstream = conn[c].upstream
  BY <1>1, <1>3 DEF Conns
<1>5. Sound(conn'[c])
  BY <1>1, <1>4 DEF Sound
<1>6. slots' = slots + Place(conn[c]) - Place(conn'[c])
  BY <1>1, <1>4 DEF Place, IsHandled
<1> QED
  BY <1>3, <1>5, <1>6 DEF ConnMoves

-----------------------------------------------------------------------------
\* Every step of the proxy moves one connection: its handler, its timer, or its client.
LEMMA StepMoves ==
    ASSUME ProxyInv, [Proxy!Next]_Proxy!proxyVars
    PROVE  UNCHANGED Proxy!proxyVars \/ \E c \in Client : ConnMoves(c)
<1> SUFFICES ASSUME NEW c \in Client,
                    \/ Proxy!Accept(c) \/ Proxy!TurnAway(c) \/ Proxy!NoThread(c) \/ Proxy!setup(c)
                    \/ Proxy!Head(c) \/ Proxy!Body(c) \/ Proxy!ClientEnds(c)
                    \/ Proxy!request(c) \/ Proxy!Assign(c) \/ Proxy!Check(c) \/ Proxy!Answered(c)
                    \/ Proxy!respond(c) \/ Proxy!finish(c) \/ Proxy!Release(c)
                    \/ Proxy!Mark(c) \/ Proxy!expire(c)
             PROVE  ConnMoves(c)
  BY DEF Proxy!Next
<1>0. conn \in [Client -> Conns] /\ slots \in Int /\ Sound(conn[c]) /\ conn[c] \in Conns
  BY DEF ProxyInv
<1>1. CASE Proxy!Accept(c)
  BY <1>0, <1>1, HandlerGoes DEF Proxy!Accept
<1>2. CASE Proxy!TurnAway(c)
  BY <1>0, <1>2, HandlerGoes DEF Proxy!TurnAway
<1>3. CASE Proxy!NoThread(c)
  BY <1>0, <1>3, HandlerGoes DEF Proxy!NoThread
<1>4. CASE Proxy!setup(c)
  <2>1. PICK x \in {[conn[c] EXCEPT !.pc = "head", !.timer = "armed"], [conn[c] EXCEPT !.pc = "release"]} :
            conn' = [conn EXCEPT ![c] = x]
    BY <1>0, <1>4 DEF Proxy!setup
  <2>2. x \in Conns /\ x.pc \in {"head", "release"} /\ x.expired = conn[c].expired /\ x.timer \in {"off", "armed"}
    BY <1>0, <1>4, <2>1 DEF Proxy!setup, Conns, Sound
  <2>3. Sound(x) /\ Place(x) = 1 /\ Place(conn[c]) = 1
    BY <1>0, <1>4, <2>2 DEF Proxy!setup, Sound, Place, IsHandled
  <2> QED
    BY <1>0, <1>4, <2>1, <2>2, <2>3 DEF Proxy!setup, ConnMoves
<1>5. CASE Proxy!Head(c)
  BY <1>0, <1>5, HandlerGoes DEF Proxy!Head
<1>6. CASE Proxy!Body(c)
  BY <1>0, <1>6, HandlerGoes DEF Proxy!Body
<1>7. CASE Proxy!ClientEnds(c)
  BY <1>0, <1>7, HandlerGoes DEF Proxy!ClientEnds
<1>8. CASE Proxy!request(c)
  BY <1>0, <1>8, HandlerGoes DEF Proxy!request
<1>9. CASE Proxy!Assign(c)
  <2> DEFINE x == [conn[c] EXCEPT !.pc = "check", !.upstream = "open"]
  <2>1. conn' = [conn EXCEPT ![c] = x]
    BY <1>0, <1>9 DEF Proxy!Assign
  <2>2. x \in Conns /\ Sound(x) /\ Place(x) = 1 /\ Place(conn[c]) = 1
    BY <1>0, <1>9 DEF Proxy!Assign, Conns, Sound, Place, IsHandled
  <2> QED
    BY <1>0, <1>9, <2>1, <2>2 DEF Proxy!Assign, ConnMoves
<1>10. CASE Proxy!Check(c)
  <2> DEFINE x == IF Proxy!Late(c)
                  THEN [conn[c] EXCEPT !.client = "shut", !.pc = "finish",
                                       !.upstream = IF @ = "open" THEN "shut" ELSE @]
                  ELSE [conn[c] EXCEPT !.pc = "answering"]
  <2>1. conn' = [conn EXCEPT ![c] = x]
    BY <1>0, <1>10 DEF Proxy!Check, Proxy!Shut
  <2>2. x \in Conns /\ Sound(x) /\ Place(x) = 1 /\ Place(conn[c]) = 1
    BY <1>0, <1>10 DEF Proxy!Check, Proxy!Late, Conns, Sound, Place, IsHandled
  <2>3. slots' = slots
    BY <1>10 DEF Proxy!Check
  <2> HIDE DEF x
  <2> QED
    BY <1>0, <2>1, <2>2, <2>3 DEF ConnMoves
<1>11. CASE Proxy!Answered(c)
  BY <1>0, <1>11, HandlerGoes DEF Proxy!Answered
<1>12. CASE Proxy!respond(c)
  BY <1>0, <1>12, HandlerGoes DEF Proxy!respond
<1>13. CASE Proxy!finish(c)
  <2> DEFINE x == [conn[c] EXCEPT !.pc = "release", !.upstream = "none",
                                  !.timer = IF @ = "armed" THEN "off" ELSE @]
  <2>1. conn' = [conn EXCEPT ![c] = x]
    BY <1>0, <1>13 DEF Proxy!finish
  <2>2. x \in Conns /\ Sound(x) /\ Place(x) = 1 /\ Place(conn[c]) = 1
    BY <1>0, <1>13 DEF Proxy!finish, Conns, Sound, Place, IsHandled
  <2> QED
    BY <1>0, <1>13, <2>1, <2>2 DEF Proxy!finish, ConnMoves
<1>14. CASE Proxy!Release(c)
  BY <1>0, <1>14, HandlerGoes DEF Proxy!Release, Proxy!Given
<1>15. CASE Proxy!Mark(c)
  <2> DEFINE x == [conn[c] EXCEPT !.timer = "marked", !.expired = TRUE]
  <2>1. conn' = [conn EXCEPT ![c] = x]
    BY <1>0, <1>15 DEF Proxy!Mark
  <2>2. x \in Conns /\ Sound(x) /\ Place(x) = Place(conn[c])
    BY <1>0, <1>15 DEF Proxy!Mark, Conns, Sound, Place, IsHandled
  <2> QED
    BY <1>0, <1>15, <2>1, <2>2 DEF Proxy!Mark, ConnMoves, Place
<1>16. CASE Proxy!expire(c)
  <2> DEFINE x == [conn[c] EXCEPT !.client = "shut", !.timer = "expired",
                                  !.upstream = IF @ = "open" THEN "shut" ELSE @]
  <2>1. conn' = [conn EXCEPT ![c] = x]
    BY <1>0, <1>16 DEF Proxy!expire, Proxy!Shut
  <2>2. x \in Conns /\ Sound(x) /\ Place(x) = Place(conn[c])
    BY <1>0, <1>16 DEF Proxy!expire, Conns, Sound, Place, IsHandled
  <2>3. slots' = slots
    BY <1>16 DEF Proxy!expire
  <2> HIDE DEF x
  <2> QED
    BY <1>0, <2>1, <2>2, <2>3 DEF ConnMoves, Place
<1> QED
  BY <1>1, <1>2, <1>3, <1>4, <1>5, <1>6, <1>7, <1>8, <1>9, <1>10, <1>11, <1>12, <1>13, <1>14, <1>15, <1>16

-----------------------------------------------------------------------------
\* At first every place is free.
LEMMA ProxyInit == Proxy!Init => ProxyInv
<1> SUFFICES ASSUME Proxy!Init PROVE ProxyInv
  OBVIOUS
<1>1. Proxy!New \in Conns /\ Sound(Proxy!New) /\ ~IsHandled(Proxy!New)
  BY DEF Proxy!New, Conns, Sound, IsHandled
<1>2. Handling = {}
  BY <1>1 DEF Proxy!Init, Handling
<1> QED
  BY <1>1, <1>2, ServicesAssumption, FS_EmptySet DEF Proxy!Init, ProxyInv

\* No step of a connection loses a place or gives one back twice.
LEMMA ProxyStep == ProxyInv /\ [Proxy!Next]_Proxy!proxyVars => ProxyInv'
<1> SUFFICES ASSUME ProxyInv, [Proxy!Next]_Proxy!proxyVars PROVE ProxyInv'
  OBVIOUS
<1>1. CASE UNCHANGED Proxy!proxyVars
  BY <1>1 DEF Proxy!proxyVars, ProxyInv, Handling
<1>2. CASE \E c \in Client : ConnMoves(c)
  BY <1>2, ConnCounted, ServicesAssumption
<1> QED
  BY <1>1, <1>2, StepMoves

\* What the invariant says of the places is what is promised.
LEMMA ProxyHolds == ProxyInv => Proxy!SlotsKept
BY SameCount DEF ProxyInv, Proxy!SlotsKept, Sound, Handling, IsHandled

\* However many connections come, each that is handled has one of the places and
\* the others are free, and once a connection's timer has done its work its handler
\* waits for nobody.
THEOREM PlacesKept == Proxy!Spec => []Proxy!SlotsKept
BY ProxyInit, ProxyStep, ProxyHolds, PTL DEF Proxy!Spec

-----------------------------------------------------------------------------
(***************************************************************************)
(* The pool of connections.                                                *)
(***************************************************************************)
Claims == [pc : {"idle", "connect", "row", "second", "shelter", "dispatch", "commit"},
           message : Message \cup {None}, until : Nat, since : Nat]

\* How long after its beginning a claim may still wait at a point.
Budget(pc) ==
    CASE pc = "connect" -> PoolTimeout
      [] pc = "row" -> PoolTimeout + StatementTimeout
      [] pc = "second" -> 2 * PoolTimeout + StatementTimeout
      [] pc = "shelter" -> 2 * PoolTimeout + 2 * StatementTimeout
      [] pc = "dispatch" -> 2 * PoolTimeout + 3 * StatementTimeout
      [] OTHER -> 2 * PoolTimeout + 4 * StatementTimeout

\* A claim under way is about a message and within its budget.
Timely(x) == x.pc # "idle" => x.message \in Message /\ clock <= x.until /\ x.until <= x.since + Budget(x.pc)

Owner == {"second", "shelter", "dispatch", "commit"}
Holding(x) == x.pc \notin {"idle", "connect"}
Holders == {c \in Client : Holding(claim[c])}
Readers == {c \in Client : claim[c].pc = "shelter"}

TypeInv ==
    /\ clock \in Nat /\ out \in Int /\ claim \in [Client -> Claims]
    /\ row \in [Message -> Client \cup {None}] /\ dispatch \in Client \cup {None}

\* The locks are those of the claims past the points where they are taken.
LockInv ==
    /\ \A c \in Client, m \in Message : row[m] = c <=> claim[c].pc \in Owner /\ claim[c].message = m
    /\ \A c \in Client : dispatch = c <=> claim[c].pc = "commit"

PoolInv ==
    /\ TypeInv /\ LockInv
    /\ \A c \in Client : Timely(claim[c])
    /\ out = Cardinality(Holders) + Cardinality(Readers) /\ out <= Size

\* A step of one claim, with what it does to the connections checked out.
ClaimMoves(c) ==
    /\ claim' \in [Client -> Claims]
    /\ \A d \in Client \ {c} : claim'[d] = claim[d]
    /\ out' = out + Pool!Has(claim'[c].pc) - Pool!Has(claim[c].pc)

PoolAssumed ==
    /\ IsFiniteSet(Client) /\ None \notin Client /\ None \notin Message
    /\ Size \in Nat /\ PoolTimeout \in Nat /\ StatementTimeout \in Nat

\* What the claims need of the constants.
LEMMA PoolConstants == PoolAssumed
BY ServicesAssumption DEF PoolAssumed

-----------------------------------------------------------------------------
\* A claim has at most two connections.
LEMMA HasType == ASSUME NEW pc PROVE Pool!Has(pc) \in {0, 1, 2}
  BY DEF Pool!Has

\* One element more, one less, or the same.
LEMMA SetMoves ==
    ASSUME NEW S, NEW T, NEW c, IsFiniteSet(S), T \in {S, S \cup {c}, S \ {c}}
    PROVE  /\ IsFiniteSet(T) /\ Cardinality(S) \in Int
           /\ Cardinality(T) = Cardinality(S) + (IF c \in T THEN 1 ELSE 0) - (IF c \in S THEN 1 ELSE 0)
<1>1. Cardinality(S) \in Int
  BY FS_CardinalityType
<1>2. CASE T = S
  BY <1>1, <1>2
<1>3. CASE T = S \cup {c}
  BY <1>1, <1>3, FS_AddElement
<1>4. CASE T = S \ {c}
  BY <1>1, <1>4, FS_RemoveElement
<1> QED
  BY <1>2, <1>3, <1>4

\* Connections are counted as claims move.
LEMMA ClaimCounted ==
    ASSUME PoolAssumed, NEW c \in Client, TypeInv, ClaimMoves(c), out = Cardinality(Holders) + Cardinality(Readers)
    PROVE  /\ out' \in Int /\ out' = Cardinality(Holders') + Cardinality(Readers')
<1>1. IsFiniteSet(Holders) /\ IsFiniteSet(Readers)
  BY FS_Subset DEF PoolAssumed, Holders, Readers
<1>2. Holders' \in {Holders, Holders \cup {c}, Holders \ {c}}
  <2>1. CASE Holding(claim'[c])
    <3>1. Holders' = Holders \cup {c}
      BY <2>1 DEF Holders, ClaimMoves, Holding
    <3> QED
      BY <3>1
  <2>2. CASE ~Holding(claim'[c])
    <3>1. Holders' = Holders \ {c}
      BY <2>2 DEF Holders, ClaimMoves, Holding
    <3> QED
      BY <3>1
  <2> QED
    BY <2>1, <2>2
<1>3. Readers' \in {Readers, Readers \cup {c}, Readers \ {c}}
  <2>1. CASE claim'[c].pc = "shelter"
    <3>1. Readers' = Readers \cup {c}
      BY <2>1 DEF Readers, ClaimMoves
    <3> QED
      BY <3>1
  <2>2. CASE claim'[c].pc # "shelter"
    <3>1. Readers' = Readers \ {c}
      BY <2>2 DEF Readers, ClaimMoves
    <3> QED
      BY <3>1
  <2> QED
    BY <2>1, <2>2
<1>4. Cardinality(Holders') = Cardinality(Holders) + (IF c \in Holders' THEN 1 ELSE 0) - (IF c \in Holders THEN 1 ELSE 0)
      /\ Cardinality(Holders) \in Int
  BY <1>1, <1>2, SetMoves
<1>5. Cardinality(Readers') = Cardinality(Readers) + (IF c \in Readers' THEN 1 ELSE 0) - (IF c \in Readers THEN 1 ELSE 0)
      /\ Cardinality(Readers) \in Int
  BY <1>1, <1>3, SetMoves
<1>6. /\ (IF c \in Holders THEN 1 ELSE 0) + (IF c \in Readers THEN 1 ELSE 0) = Pool!Has(claim[c].pc)
      /\ (IF c \in Holders' THEN 1 ELSE 0) + (IF c \in Readers' THEN 1 ELSE 0) = Pool!Has(claim'[c].pc)
  BY DEF Holders, Readers, Holding, Pool!Has, ClaimMoves
<1>7. Pool!Has(claim[c].pc) \in Int /\ Pool!Has(claim'[c].pc) \in Int
  BY HasType
<1> QED
  BY <1>4, <1>5, <1>6, <1>7 DEF ClaimMoves, TypeInv

-----------------------------------------------------------------------------
\* A claim that waits for something new stays within its budget.
LEMMA ToTimely ==
    ASSUME PoolAssumed, PoolInv, NEW c \in Client, NEW pc \in {"row", "second", "shelter", "dispatch", "commit"},
           claim[c].pc # "idle", Pool!To(c, pc), clock' = clock, Budget(claim[c].pc) + Pool!Limit(pc) <= Budget(pc)
    PROVE  /\ claim' \in [Client -> Claims] /\ \A d \in Client \ {c} : claim'[d] = claim[d]
           /\ claim'[c].pc = pc /\ claim'[c].message = claim[c].message /\ claim[c].message \in Message
           /\ \A d \in Client : Timely(claim[d])'
<1>1. /\ claim[c] \in Claims /\ clock \in Nat /\ clock <= claim[c].until
      /\ claim[c].until <= claim[c].since + Budget(claim[c].pc) /\ claim[c].message \in Message
  BY DEF PoolInv, TypeInv, Timely
<1>2. Pool!Limit(pc) \in Nat /\ Budget(claim[c].pc) \in Nat /\ Budget(pc) \in Nat
  BY DEF Pool!Limit, Budget, PoolAssumed
<1>3. clock + Pool!Limit(pc) \in Nat
  BY <1>1, <1>2
<1> DEFINE x == [claim[c] EXCEPT !.pc = pc, !.until = clock + Pool!Limit(pc)]
<1>4. claim' = [claim EXCEPT ![c] = x]
  BY <1>1 DEF Pool!To, PoolInv, TypeInv
<1>5. /\ x \in Claims /\ x.pc = pc /\ x.message = claim[c].message /\ x.since = claim[c].since
      /\ x.until = clock + Pool!Limit(pc)
  BY <1>1, <1>3 DEF Claims
<1> HIDE DEF x
<1>6. claim' \in [Client -> Claims] /\ claim'[c] = x /\ \A d \in Client \ {c} : claim'[d] = claim[d]
  BY <1>4, <1>5 DEF PoolInv, TypeInv
<1>7. clock <= x.until /\ x.until <= x.since + Budget(pc)
  <2>1. claim[c].until \in Nat /\ claim[c].since \in Nat
    BY <1>1 DEF Claims
  <2> QED
    BY <1>1, <1>2, <1>5, <2>1
<1>8. \A d \in Client : Timely(claim[d])'
  BY <1>1, <1>5, <1>6, <1>7 DEF PoolInv, Timely
<1> QED
  BY <1>1, <1>5, <1>6, <1>8

\* A claim that is over has given back what it had.
LEMMA LeaveKeeps ==
    ASSUME PoolAssumed, PoolInv, NEW c \in Client, Pool!Leave(c), clock' = clock
    PROVE  PoolInv'
<1>1. /\ claim' = [claim EXCEPT ![c] = Pool!Idle] /\ claim[c] \in Claims /\ Pool!Idle \in Claims
      /\ out' = out - Pool!Has(claim[c].pc)
  BY DEF Pool!Leave, PoolInv, TypeInv, Claims, Pool!Idle
<1>2. claim' \in [Client -> Claims] /\ claim'[c] = Pool!Idle /\ \A d \in Client \ {c} : claim'[d] = claim[d]
  BY <1>1 DEF PoolInv, TypeInv
<1>3. Pool!Has(claim'[c].pc) = 0 /\ claim'[c].pc = "idle"
  BY <1>2 DEF Pool!Has, Pool!Idle
<1>4. ClaimMoves(c) /\ out' <= out
  <2>1. out \in Int /\ Pool!Has(claim[c].pc) \in {0, 1, 2}
    BY HasType DEF PoolInv, TypeInv
  <2> QED
    BY <1>1, <1>2, <1>3, <2>1 DEF ClaimMoves
<1>5. out' \in Int /\ out' = Cardinality(Holders') + Cardinality(Readers')
  BY <1>4, ClaimCounted DEF PoolInv
<1>6. TypeInv'
  BY <1>2, <1>5 DEF PoolInv, TypeInv, Pool!Leave
<1>7. LockInv'
  BY <1>2, <1>3 DEF PoolInv, TypeInv, LockInv, Pool!Leave, PoolAssumed, Owner
<1>8. \A d \in Client : Timely(claim[d])'
  BY <1>2, <1>3 DEF PoolInv, Timely
<1>9. out' <= Size
  BY <1>4, <1>5 DEF PoolInv, TypeInv, PoolAssumed
<1> QED
  BY <1>5, <1>6, <1>7, <1>8, <1>9 DEF PoolInv

\* A step to a later point keeps the invariant if it takes the locks of that point.
LEMMA ToKeeps ==
    ASSUME PoolAssumed, PoolInv, NEW c \in Client, NEW pc \in {"row", "second", "shelter", "dispatch", "commit"},
           claim[c].pc # "idle", Pool!To(c, pc), clock' = clock, Budget(claim[c].pc) + Pool!Limit(pc) <= Budget(pc),
           out' = out + Pool!Has(pc) - Pool!Has(claim[c].pc), out' <= Size,
           row' \in [Message -> Client \cup {None}], dispatch' \in Client \cup {None}, LockInv'
    PROVE  PoolInv'
<1>1. /\ claim' \in [Client -> Claims] /\ \A d \in Client \ {c} : claim'[d] = claim[d]
      /\ claim'[c].pc = pc /\ \A d \in Client : Timely(claim[d])'
  BY ToTimely
<1>2. ClaimMoves(c)
  BY <1>1 DEF ClaimMoves
<1>3. out' \in Int /\ out' = Cardinality(Holders') + Cardinality(Readers')
  BY <1>2, ClaimCounted DEF PoolInv
<1>4. TypeInv'
  BY <1>1, <1>3 DEF PoolInv, TypeInv
<1> QED
  BY <1>1, <1>3, <1>4 DEF PoolInv

-----------------------------------------------------------------------------
\* A connection is checked out for the claim's own transaction, or for reading the shelter.
LEMMA CheckOutKeeps == ASSUME PoolAssumed, PoolInv, NEW c \in Client, Pool!CheckOut(c) PROVE PoolInv'
<1>1. PICK pc \in {"row", "shelter"} :
          Pool!To(c, pc) /\ claim[c].pc = (IF pc = "row" THEN "connect" ELSE "second")
  BY DEF Pool!CheckOut
<1>2. Budget(claim[c].pc) + Pool!Limit(pc) <= Budget(pc)
  BY <1>1 DEF Budget, Pool!Limit, PoolAssumed
<1>3. Pool!Has(pc) = Pool!Has(claim[c].pc) + 1 /\ Pool!Has(claim[c].pc) \in Int
  BY <1>1 DEF Pool!Has
<1>4. out' = out + Pool!Has(pc) - Pool!Has(claim[c].pc) /\ out' <= Size /\ clock' = clock /\ row' = row /\ dispatch' = dispatch
  BY <1>3 DEF Pool!CheckOut, PoolInv, TypeInv, PoolAssumed
<1>5. LockInv'
  <2>1. /\ \A d \in Client \ {c} : claim'[d] = claim[d]
        /\ claim'[c].pc = pc /\ claim'[c].message = claim[c].message
    BY <1>1, <1>2, <1>4, ToTimely
  <2> QED
    BY <1>1, <1>4, <2>1 DEF PoolInv, LockInv, Owner
<1> QED
  BY <1>1, <1>2, <1>4, <1>5, ToKeeps DEF PoolInv, TypeInv

\* SELECT ... FOR UPDATE of the message's row.
LEMMA LockRowKeeps == ASSUME PoolAssumed, PoolInv, NEW c \in Client, Pool!LockRow(c) PROVE PoolInv'
<1> DEFINE m == claim[c].message
<1>1. PICK pc \in {"second", "dispatch"} : Pool!To(c, pc)
  BY DEF Pool!LockRow
<1>2. /\ claim[c].pc = "row" /\ row[m] = None /\ row' = [row EXCEPT ![m] = c]
      /\ clock' = clock /\ out' = out /\ dispatch' = dispatch
  BY DEF Pool!LockRow
<1>3. Budget(claim[c].pc) + Pool!Limit(pc) <= Budget(pc) /\ Pool!Has(pc) = 1 /\ Pool!Has(claim[c].pc) = 1
  BY <1>2 DEF Budget, Pool!Limit, PoolAssumed, Pool!Has
<1>4. /\ \A d \in Client \ {c} : claim'[d] = claim[d]
      /\ claim'[c].pc = pc /\ claim'[c].message = m /\ m \in Message
  BY <1>1, <1>2, <1>3, ToTimely
<1>5. LockInv'
  BY <1>2, <1>4 DEF PoolInv, TypeInv, LockInv, Owner, PoolAssumed
<1>6. row' \in [Message -> Client \cup {None}]
  BY <1>2, <1>4 DEF PoolInv, TypeInv
<1>7. out' = out + Pool!Has(pc) - Pool!Has(claim[c].pc) /\ out' <= Size
  BY <1>2, <1>3 DEF PoolInv, TypeInv
<1> QED
  BY <1>1, <1>2, <1>3, <1>5, <1>6, <1>7, ToKeeps DEF PoolInv, TypeInv

\* The shelter is read on a connection of its own, which is given back.
LEMMA ReadShelterKeeps == ASSUME PoolAssumed, PoolInv, NEW c \in Client, Pool!ReadShelter(c) PROVE PoolInv'
<1>1. claim[c].pc = "shelter" /\ Pool!To(c, "dispatch") /\ out' = out - 1 /\ UNCHANGED <<clock, row, dispatch>>
  BY DEF Pool!ReadShelter
<1>2. Budget(claim[c].pc) + Pool!Limit("dispatch") <= Budget("dispatch") /\ Pool!Has("dispatch") = 1 /\ Pool!Has(claim[c].pc) = 2
  BY <1>1 DEF Budget, Pool!Limit, PoolAssumed, Pool!Has
<1>3. /\ \A d \in Client \ {c} : claim'[d] = claim[d]
      /\ claim'[c].pc = "dispatch" /\ claim'[c].message = claim[c].message
  BY <1>1, <1>2, ToTimely
<1>4. LockInv'
  BY <1>1, <1>3 DEF PoolInv, LockInv, Owner
<1>5. out' = out + Pool!Has("dispatch") - Pool!Has(claim[c].pc) /\ out' <= Size
  BY <1>1, <1>2 DEF PoolInv, TypeInv, PoolAssumed
<1> QED
  BY <1>1, <1>2, <1>4, <1>5, ToKeeps DEF PoolInv, TypeInv

\* The one dispatch lock is taken last.
LEMMA LockDispatchKeeps == ASSUME PoolAssumed, PoolInv, NEW c \in Client, Pool!LockDispatch(c) PROVE PoolInv'
<1>1. claim[c].pc = "dispatch" /\ Pool!To(c, "commit") /\ dispatch = None /\ dispatch' = c /\ UNCHANGED <<clock, out, row>>
  BY DEF Pool!LockDispatch
<1>2. Budget(claim[c].pc) + Pool!Limit("commit") <= Budget("commit") /\ Pool!Has("commit") = 1 /\ Pool!Has(claim[c].pc) = 1
  BY <1>1 DEF Budget, Pool!Limit, PoolAssumed, Pool!Has
<1>3. /\ \A d \in Client \ {c} : claim'[d] = claim[d]
      /\ claim'[c].pc = "commit" /\ claim'[c].message = claim[c].message
  BY <1>1, <1>2, ToTimely
<1>4. LockInv'
  BY <1>1, <1>3 DEF PoolInv, LockInv, Owner, PoolAssumed
<1>5. out' = out + Pool!Has("commit") - Pool!Has(claim[c].pc) /\ out' <= Size
  BY <1>1, <1>2 DEF PoolInv, TypeInv
<1> QED
  BY <1>1, <1>2, <1>4, <1>5, ToKeeps DEF PoolInv, TypeInv

\* A claim begins with the wait for its first connection.
LEMMA BeginKeeps == ASSUME PoolAssumed, PoolInv, NEW c \in Client, NEW m \in Message, Pool!Begin(c, m) PROVE PoolInv'
<1> DEFINE x == [pc |-> "connect", message |-> m, until |-> clock + Pool!Limit("connect"), since |-> clock]
<1>1. claim[c].pc = "idle" /\ claim' = [claim EXCEPT ![c] = x] /\ UNCHANGED <<clock, out, row, dispatch>>
  BY DEF Pool!Begin
<1>2. Pool!Limit("connect") = PoolTimeout /\ Budget("connect") = PoolTimeout /\ clock \in Nat /\ PoolTimeout \in Nat
  BY DEF Pool!Limit, Budget, PoolAssumed, PoolInv, TypeInv
<1>3. x \in Claims /\ x.pc = "connect" /\ x.message = m /\ clock <= x.until /\ x.until <= x.since + Budget(x.pc)
  BY <1>2 DEF Claims
<1> HIDE DEF x
<1>4. claim' \in [Client -> Claims] /\ claim'[c] = x /\ \A d \in Client \ {c} : claim'[d] = claim[d]
  BY <1>1, <1>3 DEF PoolInv, TypeInv
<1>5. ClaimMoves(c)
  <2>1. Pool!Has(claim[c].pc) = 0 /\ Pool!Has(claim'[c].pc) = 0
    BY <1>1, <1>3, <1>4 DEF Pool!Has
  <2> QED
    BY <1>1, <1>4, <2>1 DEF ClaimMoves, PoolInv, TypeInv
<1>6. out' \in Int /\ out' = Cardinality(Holders') + Cardinality(Readers')
  BY <1>5, ClaimCounted DEF PoolInv
<1>7. LockInv'
  BY <1>1, <1>3, <1>4 DEF PoolInv, LockInv, Owner
<1>8. \A d \in Client : Timely(claim[d])'
  BY <1>1, <1>3, <1>4 DEF PoolInv, Timely
<1> QED
  BY <1>1, <1>4, <1>6, <1>7, <1>8 DEF PoolInv, TypeInv

\* Time does not pass beyond the end of a wait that has a time-out.
LEMMA TickKeeps == ASSUME PoolAssumed, PoolInv, Pool!Tick PROVE PoolInv'
<1>1. clock' = clock + 1 /\ clock \in Nat /\ UNCHANGED <<out, row, dispatch, claim>>
  BY DEF Pool!Tick, PoolInv, TypeInv
<1>2. TypeInv' /\ LockInv' /\ Holders' = Holders /\ Readers' = Readers
  BY <1>1 DEF PoolInv, TypeInv, LockInv, Holders, Readers
<1>3. \A c \in Client : Timely(claim[c])'
  <2> SUFFICES ASSUME NEW c \in Client, claim[c].pc # "idle"
               PROVE  claim[c].message \in Message /\ clock + 1 <= claim[c].until
                      /\ claim[c].until <= claim[c].since + Budget(claim[c].pc)
    BY <1>1 DEF Timely
  <2>1. claim[c].until > clock /\ claim[c].until \in Nat
    BY DEF Pool!Tick, PoolInv, TypeInv, Claims
  <2> QED
    BY <1>1, <2>1 DEF PoolInv, Timely
<1> QED
  BY <1>1, <1>2, <1>3 DEF PoolInv

-----------------------------------------------------------------------------
\* At first nothing is checked out or locked.
LEMMA PoolInit == Pool!Init => PoolInv
<1> SUFFICES ASSUME Pool!Init PROVE PoolInv
  OBVIOUS
<1>0. PoolAssumed
  BY PoolConstants
<1>1. Pool!Idle \in Claims /\ Pool!Idle.pc = "idle"
  BY DEF Pool!Idle, Claims
<1>2. TypeInv /\ LockInv /\ \A c \in Client : Timely(claim[c])
  BY <1>0, <1>1 DEF Pool!Init, TypeInv, LockInv, Timely, PoolAssumed, Owner
<1>3. Holders = {} /\ Readers = {}
  BY <1>1 DEF Pool!Init, Holders, Readers, Holding
<1> QED
  BY <1>0, <1>2, <1>3, FS_EmptySet DEF Pool!Init, PoolInv, PoolAssumed

\* Every step of a claim, and of time.
LEMMA PoolStep == PoolInv /\ [Pool!Next]_Pool!poolVars => PoolInv'
<1> SUFFICES ASSUME PoolInv, [Pool!Next]_Pool!poolVars PROVE PoolInv'
  OBVIOUS
<1>0. PoolAssumed
  BY PoolConstants
<1>1. CASE UNCHANGED Pool!poolVars
  BY <1>1 DEF Pool!poolVars, PoolInv, TypeInv, LockInv, Timely, Holders, Readers
<1>2. CASE Pool!Tick
  BY <1>2, <1>0, TickKeeps
<1>3. ASSUME NEW c \in Client,
             \/ \E m \in Message : Pool!Begin(c, m)
             \/ Pool!CheckOut(c) \/ Pool!LockRow(c) \/ Pool!Claimed(c) \/ Pool!ReadShelter(c)
             \/ Pool!LockDispatch(c) \/ Pool!Commit(c) \/ Pool!Fail(c)
      PROVE  PoolInv'
  <2>1. CASE \E m \in Message : Pool!Begin(c, m)
    BY <2>1, <1>0, BeginKeeps
  <2>2. CASE Pool!CheckOut(c)
    BY <2>2, <1>0, CheckOutKeeps
  <2>3. CASE Pool!LockRow(c)
    BY <2>3, <1>0, LockRowKeeps
  <2>4. CASE Pool!Claimed(c) \/ Pool!Commit(c) \/ Pool!Fail(c)
    <3>1. Pool!Leave(c) /\ clock' = clock
      BY <2>4 DEF Pool!Claimed, Pool!Commit, Pool!Fail
    <3> QED
      BY <3>1, <1>0, LeaveKeeps
  <2>5. CASE Pool!ReadShelter(c)
    BY <2>5, <1>0, ReadShelterKeeps
  <2>6. CASE Pool!LockDispatch(c)
    BY <2>6, <1>0, LockDispatchKeeps
  <2> QED
    BY <1>3, <2>1, <2>2, <2>3, <2>4, <2>5, <2>6
<1> QED
  BY <1>1, <1>2, <1>3 DEF Pool!Next

\* A claim within its budget ends in time, and only claims under way have connections and locks.
LEMMA PoolHolds == PoolInv => Pool!PoolKept
<1> SUFFICES ASSUME PoolInv PROVE Pool!PoolKept
  OBVIOUS
<1>0. PoolAssumed
  BY PoolConstants
<1>1. ASSUME NEW c \in Client, claim[c].pc # "idle"
      PROVE  clock - claim[c].since <= 2 * PoolTimeout + 4 * StatementTimeout
  <2>1. claim[c] \in Claims /\ clock \in Nat /\ claim[c].since \in Nat /\ claim[c].until \in Nat
    BY DEF PoolInv, TypeInv, Claims
  <2>2. Budget(claim[c].pc) <= 2 * PoolTimeout + 4 * StatementTimeout /\ Budget(claim[c].pc) \in Nat
    BY <1>0 DEF Budget, PoolAssumed
  <2>3. clock <= claim[c].until /\ claim[c].until <= claim[c].since + Budget(claim[c].pc)
    BY <1>1 DEF PoolInv, Timely
  <2> QED
    BY <1>0, <2>1, <2>2, <2>3 DEF PoolAssumed
<1> DEFINE Active == {c \in Client : claim[c].pc # "idle"}
<1>2. {c \in Active : claim[c].pc # "connect"} = Holders /\ {c \in Active : claim[c].pc = "shelter"} = Readers
  BY DEF Holders, Holding, Readers
<1>3. \A m \in Message : row[m] # None => row[m] \in Holders /\ claim[row[m]].message = m
  BY DEF PoolInv, TypeInv, LockInv, Owner, Holders, Holding
<1>4. dispatch # None => row[claim[dispatch].message] = dispatch
  <2> SUFFICES ASSUME dispatch # None PROVE row[claim[dispatch].message] = dispatch
    OBVIOUS
  <2>1. dispatch \in Client /\ claim[dispatch].pc = "commit"
    BY DEF PoolInv, TypeInv, LockInv
  <2>2. claim[dispatch].message \in Message
    BY <2>1 DEF PoolInv, Timely
  <2> QED
    BY <2>1, <2>2 DEF PoolInv, LockInv, Owner
<1> QED
  BY <1>1, <1>2, <1>3, <1>4, SameCount DEF Pool!PoolKept, PoolInv

\* Whatever claims wait for each other, each is over after its own waits and leaves
\* no connection checked out and no lock behind.
THEOREM WaitsEnd == Pool!Spec => []Pool!PoolKept
BY PoolInit, PoolStep, PoolHolds, PTL DEF Pool!Spec

-----------------------------------------------------------------------------
(***************************************************************************)
(* The location directory.                                                 *)
(***************************************************************************)
VersionRow == [data : Content, hash : Content, manifest : Content]

\* No import has written what None stands for.
LEMMA NoneIsNoVersion == None \notin VersionRow
BY ServicesAssumption DEF VersionRow

\* What a row of the database is, and what an import has made sure of so far.
Imported(r, v) ==
    /\ r \in VersionRow /\ r.hash = r.data /\ r.manifest = r.data
    /\ Directory!validate_directory(Holds[r.data]) /\ Holds[r.data].version = v

Validated(j) ==
    /\ j \in [pc : {"new", "manifest", "loaded", "raw", "checked", "ended"},
              manifest : Content \cup {None}, data : Content \cup {None}, raw : Content \cup {None},
              activate : BOOLEAN]
    /\ j.pc \in {"loaded", "raw", "checked"} => j.data \in Content /\ Directory!validate_directory(Holds[j.data])
    /\ j.pc = "checked" => j.raw = j.data /\ j.manifest = j.data

\* A reader has seen the version it reads, and it is what it was.
Steady ==
    directoryReader.pc = "version" =>
        /\ directoryReader.version \in Directory!VersionId
        /\ versions[directoryReader.version] # None
        /\ directoryReader.versions[directoryReader.version] = versions[directoryReader.version]

DirectoryInv ==
    /\ directory \in Content /\ manifest \in Content
    /\ versions = [v \in Directory!VersionId |-> versions[v]]
    /\ \A v \in Directory!VersionId : versions[v] # None => Imported(versions[v], v)
    /\ active # None => active \in Directory!VersionId /\ versions[active] # None
    /\ job = [i \in Request |-> job[i]] /\ \A i \in Request : Validated(job[i])
    /\ Steady
    /\ served # None => served.version \in Directory!VersionId /\ versions[served.version] # None
                            /\ versions[served.version].data = served.data

\* What never changes keeps its readers right.
Immutable == \A v \in Directory!VersionId : versions[v] # None => versions'[v] = versions[v]

-----------------------------------------------------------------------------
\* The database is empty at first.
LEMMA DirectoryInit == Directory!Init => DirectoryInv
BY DEF Directory!Init, DirectoryInv, Validated, Directory!NewJob, Steady, Directory!Idle

\* A step of an import that leaves the database alone.
LEMMA JobStep ==
    ASSUME DirectoryInv, NEW i \in Request, NEW j, Validated(j), job' = [job EXCEPT ![i] = j],
           UNCHANGED <<directory, manifest, versions, active, directoryReader, served>>
    PROVE  DirectoryInv'
<1>1. job' = [k \in Request |-> job'[k]] /\ \A k \in Request : Validated(job'[k])
  BY DEF DirectoryInv
<1>2. Validated(j)' <=> Validated(j)
  OBVIOUS
<1> QED
  BY <1>1 DEF DirectoryInv, Validated, Steady, Imported, VersionRow, Directory!VersionId

\* The transaction adds a version that is whole, or the same again, and changes none.
LEMMA Written ==
    ASSUME DirectoryInv, NEW i \in Request, Directory!Transaction(i)
    PROVE  DirectoryInv'
<1> DEFINE old == job[i]
           new == [data |-> old.data, hash |-> old.raw, manifest |-> old.manifest]
           v == Holds[new.data].version
<1>1. old.data \in Content /\ old.raw = old.data /\ old.manifest = old.data /\ Directory!validate_directory(Holds[old.data])
  BY DEF Directory!Transaction, DirectoryInv, Validated
<1>2. new \in VersionRow /\ new # None /\ Imported(new, v) /\ v \in Directory!VersionId
  BY <1>1, NoneIsNoVersion DEF Imported, VersionRow, Directory!VersionId
<1>3. /\ job' = [job EXCEPT ![i] = Directory!Ended]
      /\ UNCHANGED <<directory, manifest, directoryReader, served>>
      /\ \/ /\ versions[v] = None \/ versions[v] = new
            /\ versions' = [versions EXCEPT ![v] = new] /\ active' \in {v, active}
         \/ UNCHANGED <<versions, active>>
  BY DEF Directory!Transaction
<1> HIDE DEF new, v
<1>4. /\ versions' = [w \in Directory!VersionId |-> versions'[w]] /\ Immutable
      /\ \A w \in Directory!VersionId : versions'[w] # None => Imported(versions'[w], w)
      /\ active' # None => active' \in Directory!VersionId /\ versions'[active'] # None
  <2>1. CASE UNCHANGED <<versions, active>>
    BY <2>1 DEF DirectoryInv, Immutable
  <2>2. CASE /\ versions[v] = None \/ versions[v] = new
             /\ versions' = [versions EXCEPT ![v] = new] /\ active' \in {v, active}
    <3>1. \A w \in Directory!VersionId : versions'[w] = IF w = v THEN new ELSE versions[w]
      BY <2>2, <1>2 DEF DirectoryInv
    <3>2. versions' = [w \in Directory!VersionId |-> versions'[w]] /\ Immutable
      BY <2>2, <3>1 DEF DirectoryInv, Immutable
    <3> QED
      BY <2>2, <3>1, <3>2, <1>2 DEF DirectoryInv
  <2> QED
    BY <1>3, <2>1, <2>2
<1>6. job' = [k \in Request |-> job'[k]] /\ \A k \in Request : Validated(job'[k])
  BY <1>3 DEF DirectoryInv, Validated, Directory!Ended, Directory!NewJob
<1>7. Steady' /\ (served' # None => /\ served'.version \in Directory!VersionId /\ versions'[served'.version] # None
                                    /\ versions'[served'.version].data = served'.data)
  BY <1>3, <1>4 DEF DirectoryInv, Steady, Immutable, Directory!VersionId
<1> QED
  BY <1>3, <1>4, <1>6, <1>7 DEF DirectoryInv, Validated, Imported, VersionRow, Directory!VersionId

\* Files replaced at any time, imports at any point, and a reader between its two statements.
LEMMA DirectoryStep == DirectoryInv /\ [Directory!Next]_Directory!directoryVars => DirectoryInv'
<1> SUFFICES ASSUME DirectoryInv, [Directory!Next]_Directory!directoryVars PROVE DirectoryInv'
  OBVIOUS
<1>1. CASE UNCHANGED Directory!directoryVars
  BY <1>1 DEF Directory!directoryVars, DirectoryInv, Validated, Steady, Imported, VersionRow, Directory!VersionId
<1>2. CASE Directory!Replace
  BY <1>2 DEF Directory!Replace, DirectoryInv, Validated, Steady, Imported, VersionRow, Directory!VersionId
<1>3. CASE Directory!ReadActive
  BY <1>3 DEF Directory!ReadActive, DirectoryInv, Validated, Steady, Imported, VersionRow, Directory!VersionId
<1>4. CASE Directory!ReadRows
  <2>1. directoryReader.version \in Directory!VersionId /\ versions[directoryReader.version] # None
        /\ directoryReader.versions[directoryReader.version] = versions[directoryReader.version]
    BY <1>4 DEF Directory!ReadRows, DirectoryInv, Steady
  <2>2. served' = None \/ served' = [version |-> directoryReader.version, data |-> versions[directoryReader.version].data]
    BY <1>4, <2>1 DEF Directory!ReadRows, Directory!Snapshot
  <2>3. Steady' /\ directoryReader' = Directory!Idle /\ UNCHANGED <<directory, manifest, versions, active, job>>
    BY <1>4 DEF Directory!ReadRows, Steady, Directory!Idle
  <2>4. served' # None => /\ served'.version \in Directory!VersionId /\ versions[served'.version] # None
                          /\ versions[served'.version].data = served'.data
    BY <2>1, <2>2
  <2> QED
    BY <2>3, <2>4 DEF DirectoryInv, Validated, Imported, VersionRow, Directory!VersionId
<1>5. ASSUME NEW i \in Request, NEW activate \in BOOLEAN, Directory!LoadManifest(i, activate)
      PROVE  DirectoryInv'
  <2>1. Validated([Directory!NewJob EXCEPT !.pc = "manifest", !.manifest = manifest, !.activate = activate])
    BY DEF DirectoryInv, Validated, Directory!NewJob
  <2> QED
    BY <1>5, <2>1, JobStep DEF Directory!LoadManifest
<1>6. ASSUME NEW i \in Request, Directory!LoadDirectory(i) \/ Directory!ReadAgain(i) \/ Directory!ManifestAgain(i)
      PROVE  DirectoryInv'
  <2>1. Validated(job[i]) /\ directory \in Content /\ manifest \in Content
    BY DEF DirectoryInv
  <2>2. PICK j : job' = [job EXCEPT ![i] = j] /\ Validated(j)
    <3>1. Validated(Directory!Ended)
      BY DEF Validated, Directory!Ended, Directory!NewJob
    <3>2. CASE Directory!LoadDirectory(i)
      <4>1. Directory!validate_directory(Holds[directory]) => Validated([job[i] EXCEPT !.pc = "loaded", !.data = directory])
        BY <2>1 DEF Validated
      <4>2. [job EXCEPT ![i].pc = "loaded", ![i].data = directory]
            = [job EXCEPT ![i] = [job[i] EXCEPT !.pc = "loaded", !.data = directory]]
        BY DEF DirectoryInv
      <4> QED
        BY <3>1, <3>2, <4>1, <4>2 DEF Directory!LoadDirectory
    <3>3. CASE Directory!ReadAgain(i)
      <4>1. Validated([job[i] EXCEPT !.pc = "raw", !.raw = directory])
        BY <2>1, <3>3 DEF Validated, Directory!ReadAgain
      <4> QED
        BY <3>3, <4>1 DEF Directory!ReadAgain, DirectoryInv
    <3>4. CASE Directory!ManifestAgain(i)
      <4>1. Directory!Same(job[i].data, job[i].raw, manifest)
            => Validated([job[i] EXCEPT !.pc = "checked", !.manifest = manifest])
        BY <2>1, <3>4 DEF Validated, Directory!ManifestAgain, Directory!Same
      <4> QED
        BY <3>1, <3>4, <4>1 DEF Directory!ManifestAgain, DirectoryInv
    <3> QED
      BY <1>6, <3>2, <3>3, <3>4
  <2>3. UNCHANGED <<directory, manifest, versions, active, directoryReader, served>>
    BY <1>6 DEF Directory!LoadDirectory, Directory!ReadAgain, Directory!ManifestAgain
  <2> QED
    BY <2>2, <2>3, JobStep
<1> QED
  BY <1>1, <1>2, <1>3, <1>4, <1>5, <1>6, Written DEF Directory!Next

\* The invariant is more than is promised.
LEMMA DirectoryHolds == DirectoryInv => Directory!DirectoryWhole
BY DEF DirectoryInv, Imported, Directory!DirectoryWhole

\* Whatever files are replaced under however many imports, a version kept is one whole
\* directory that was validated, under its own number and hash; the active version is
\* there; and what a reader is served is all of one version.
THEOREM VersionsAreWhole == Directory!Spec => []Directory!DirectoryWhole
BY DirectoryInit, DirectoryStep, DirectoryHolds, PTL DEF Directory!Spec

-----------------------------------------------------------------------------
(***************************************************************************)
(* Set-up and upgrade of the database.                                     *)
(***************************************************************************)
AccountRow == [password : Request \cup {"old", "reset"}, made : Request \cup {"before"}, set : Request \cup {"before", "reset"}]

\* No set-up has made what None stands for.
LEMMA NoneIsNoAccount == None \notin AccountRow
BY ServicesAssumption DEF AccountRow

Versions == {5, DB!Latest}

\* An upgrade migrates from a version that the schema has had, and a start it announces
\* stays possible.
Upgraded(x) ==
    /\ x \in [pc : {"new", "checked", "behind", "migrating", "current", "granted", "announced", "failed"},
              from : Versions \cup {0}]
    /\ x.pc = "migrating" => x.from \in Versions /\ x.from <= version

MayStart(v, granted, open) == v = DB!Latest /\ DB!APP_PRIVILEGES \subseteq granted /\ open = {}
Startable == MayStart(version, usable, alterable)

StandUp(s) ==
    /\ setup[s] \in [pc : {"new", "checked", "login", "typed", "verified", "failed"},
                     password : Request \cup {"old", None}, created : BOOLEAN]
    /\ setup[s].pc = "typed" => setup[s].password \in Request \cup {"old"}
    /\ setup[s].pc \in {"new", "checked", "typed"} => ~setup[s].created
    /\ setup[s].created => account # None /\ account.made = s

MaintenanceInv ==
    /\ version \in Versions /\ tables = DB!TablesOf(version) /\ alterable \subseteq {"shelter_audit"}
    /\ upgrade = [u \in Request |-> upgrade[u]] /\ \A u \in Request : Upgraded(upgrade[u])
    /\ setup = [s \in Request |-> setup[s]] /\ \A s \in Request : StandUp(s)
    /\ account # None => account \in AccountRow /\ account.set \in {account.made, "reset"}
    /\ app = "up" \/ (\E u \in Request : upgrade[u].pc = "announced") => Startable

-----------------------------------------------------------------------------
\* The last two migrations add tables that the fifth version has not.
LEMMA Growing ==
    /\ DB!Latest = 7 /\ DOMAIN DB!Migrations = 1 .. 7
    /\ DB!TablesOf(5) \subseteq DB!TablesOf(DB!Latest) /\ ~(DB!TablesOf(DB!Latest) \subseteq DB!TablesOf(5))
    /\ \A i \in DOMAIN DB!Migrations : DB!Migrations[i] \subseteq DB!TablesOf(DB!Latest)
<1>1. DB!Latest = 7 /\ DOMAIN DB!Migrations = 1 .. 7
  BY DEF DB!Latest, DB!Migrations
<1>2. \A i \in DOMAIN DB!Migrations : DB!Migrations[i] \subseteq DB!TablesOf(DB!Latest)
  BY <1>1 DEF DB!TablesOf
<1>3. DB!TablesOf(5) \subseteq DB!TablesOf(DB!Latest)
  BY <1>1 DEF DB!TablesOf
<1>4. "positions" \in DB!Migrations[6]
  BY DEF DB!Migrations, DB!report_position_provenance
<1>5. \A i \in 1 .. 5 : "positions" \notin DB!Migrations[i]
  <2>1. \A i \in 1 .. 5 : i = 1 \/ i = 2 \/ i = 3 \/ i = 4 \/ i = 5
    OBVIOUS
  <2>2. DB!Migrations[1] = DB!location_directory /\ DB!Migrations[2] = DB!emergency_shelters /\ DB!Migrations[3] = DB!admin_notifications
        /\ DB!Migrations[4] = DB!citizen_reports /\ DB!Migrations[5] = DB!telegram_subscriptions
    BY DEF DB!Migrations
  <2> QED
    BY <2>1, <2>2 DEF DB!location_directory, DB!emergency_shelters, DB!admin_notifications, DB!citizen_reports,
       DB!telegram_subscriptions
<1>6. "positions" \in DB!TablesOf(DB!Latest) /\ "positions" \notin DB!TablesOf(5)
  <2>1. 6 \in 1 .. 7
    OBVIOUS
  <2> QED
    BY <1>1, <1>4, <1>5, <2>1 DEF DB!TablesOf
<1> QED
  BY <1>1, <1>2, <1>3, <1>6

\* The database is at an earlier version or is up to date; nobody has begun.
LEMMA MaintenanceInit == DB!Init => MaintenanceInv
<1> SUFFICES ASSUME DB!Init PROVE MaintenanceInv
  OBVIOUS
<1>1. \A u \in Request : Upgraded(upgrade[u]) /\ upgrade[u].pc # "announced"
  BY DEF DB!Init, Upgraded, DB!NewUpgrade, Versions
<1>2. \A s \in Request : StandUp(s)
  BY DEF DB!Init, StandUp, DB!NewSetup
<1>3. account # None => account \in AccountRow /\ account.set \in {account.made, "reset"}
  BY DEF DB!Init, AccountRow
<1>4. upgrade = [u \in Request |-> upgrade[u]] /\ setup = [s \in Request |-> setup[s]]
  BY DEF DB!Init
<1>5. version \in Versions /\ tables = DB!TablesOf(version) /\ alterable \subseteq {"shelter_audit"} /\ app # "up"
  BY DEF DB!Init, Versions
<1> QED
  BY <1>1, <1>2, <1>3, <1>4, <1>5 DEF MaintenanceInv

\* A step of one upgrade.
LEMMA UpgradeStep ==
    ASSUME MaintenanceInv, NEW u \in Request, NEW x, upgrade' = [upgrade EXCEPT ![u] = x],
           version' \in Versions, version <= version', tables' = DB!TablesOf(version'), usable \subseteq usable',
           x.pc = "migrating" => x.from \in Versions /\ x.from <= version',
           x \in [pc : {"new", "checked", "behind", "migrating", "current", "granted", "announced", "failed"},
                  from : Versions \cup {0}],
           x.pc = "announced" => Startable,
           UNCHANGED <<alterable, setup, account, app>>
    PROVE  MaintenanceInv'
<1>1. upgrade' = [w \in Request |-> upgrade'[w]] /\ upgrade'[u] = x /\ \A w \in Request \ {u} : upgrade'[w] = upgrade[w]
  BY DEF MaintenanceInv
<1>2. \A w \in Request : Upgraded(upgrade[w])'
  BY <1>1, Growing DEF MaintenanceInv, Upgraded, Versions
<1>3. Startable => Startable'
  BY Growing DEF MaintenanceInv, Startable, MayStart, Versions
<1>4. app' = "up" \/ (\E w \in Request : upgrade'[w].pc = "announced") => Startable'
  BY <1>1, <1>3 DEF MaintenanceInv
<1>5. \A s \in Request : StandUp(s)'
  BY DEF MaintenanceInv, StandUp
<1> QED
  BY <1>1, <1>2, <1>4, <1>5 DEF MaintenanceInv, AccountRow

\* A step that leaves the upgrades and the schema where they are.
LEMMA Idles ==
    ASSUME MaintenanceInv, UNCHANGED <<version, tables, upgrade>>,
           Startable => Startable', app' = "up" => app = "up" \/ Startable,
           alterable' \subseteq alterable, setup' = [s \in Request |-> setup'[s]],
           \A s \in Request : StandUp(s)',
           account' # None => account' \in AccountRow /\ account'.set \in {account'.made, "reset"}
    PROVE  MaintenanceInv'
<1>1. \A w \in Request : Upgraded(upgrade[w])'
  BY DEF MaintenanceInv, Upgraded, Versions
<1>2. app' = "up" \/ (\E w \in Request : upgrade'[w].pc = "announced") => Startable'
  BY DEF MaintenanceInv
<1> QED
  BY <1>1, <1>2 DEF MaintenanceInv, AccountRow

\* A step of one set-up.
LEMMA SetupStep ==
    ASSUME MaintenanceInv, NEW s \in Request, NEW x, setup' = [setup EXCEPT ![s] = x],
           UNCHANGED <<version, tables, usable, alterable, upgrade, app>>,
           x \in [pc : {"new", "checked", "login", "typed", "verified", "failed"},
                  password : Request \cup {"old", None}, created : BOOLEAN],
           x.pc = "typed" => x.password \in Request \cup {"old"},
           x.pc \in {"new", "checked", "typed"} => ~x.created,
           x.created => account' # None /\ account'.made = s,
           \/ UNCHANGED account
           \/ account = None /\ account' \in AccountRow /\ account'.set = account'.made
    PROVE  MaintenanceInv'
<1>1. setup' = [w \in Request |-> setup'[w]] /\ setup'[s] = x /\ \A w \in Request \ {s} : setup'[w] = setup[w]
  BY DEF MaintenanceInv
<1>2. StandUp(s)'
  BY <1>1 DEF StandUp
<1>3. ASSUME NEW w \in Request \ {s} PROVE StandUp(w)'
  <2>1. StandUp(w) /\ setup'[w] = setup[w]
    BY <1>1 DEF MaintenanceInv
  <2>2. setup[w].created => account' = account
    BY <2>1 DEF StandUp
  <2> QED
    BY <2>1, <2>2 DEF StandUp
<1>4. account' # None => account' \in AccountRow /\ account'.set \in {account'.made, "reset"}
  BY DEF MaintenanceInv
<1>5. Startable => Startable'
  BY DEF Startable
<1> QED
  BY <1>1, <1>2, <1>3, <1>4, <1>5, Idles DEF MaintenanceInv

\* Every step of an upgrade.
LEMMA Upgrades ==
    ASSUME MaintenanceInv, NEW u \in Request,
           (\E check \in BOOLEAN : DB!Read(u, check)) \/ DB!Begin(u) \/ DB!Commit(u) \/ DB!grant_app_role(u) \/ DB!Verify(u) \/ DB!UpgradeFails(u)
    PROVE  MaintenanceInv'
<1> DEFINE x == upgrade'[u]
<1>1. Upgraded(upgrade[u]) /\ version \in Versions /\ tables = DB!TablesOf(version)
  BY DEF MaintenanceInv
<1>2. upgrade' = [upgrade EXCEPT ![u] = x]
  BY DEF MaintenanceInv, DB!Read, DB!Begin, DB!Commit, DB!grant_app_role, DB!Verify, DB!UpgradeFails, DB!To
<1>3. UNCHANGED <<alterable, setup, account, app>>
  BY DEF DB!Read, DB!Begin, DB!Commit, DB!grant_app_role, DB!Verify, DB!UpgradeFails
<1>4. /\ version' \in Versions /\ version <= version' /\ tables' = DB!TablesOf(version') /\ usable \subseteq usable'
  <2>1. CASE DB!Commit(u) /\ DB!New(u) \cap tables = {}
    <3>1. upgrade[u].from \in Versions /\ upgrade[u].from <= version
      BY <1>1, <2>1 DEF Upgraded, DB!Commit
    <3>2. DB!TablesOf(upgrade[u].from) \subseteq tables /\ tables \subseteq DB!TablesOf(DB!Latest)
      BY <1>1, <3>1, Growing DEF Versions
    <3>3. tables' = tables \cup DB!New(u) /\ version' = DB!Latest /\ usable' = usable
      BY <2>1 DEF DB!Commit
    <3>4. tables' = DB!TablesOf(DB!Latest)
      BY <2>1, <3>2, <3>3 DEF DB!New
    <3> QED
      BY <1>1, <3>3, <3>4, Growing DEF Versions
  <2>2. CASE ~(DB!Commit(u) /\ DB!New(u) \cap tables = {})
    <3>1. version' = version /\ tables' = tables /\ usable \subseteq usable'
      BY <2>2 DEF DB!Read, DB!Begin, DB!Commit, DB!grant_app_role, DB!Verify, DB!UpgradeFails
    <3> QED
      BY <1>1, <3>1, Growing DEF Versions
  <2> QED
    BY <2>1, <2>2
<1>5. /\ x \in [pc : {"new", "checked", "behind", "migrating", "current", "granted", "announced", "failed"},
                from : Versions \cup {0}]
      /\ x.pc = "migrating" => x.from \in Versions /\ x.from <= version'
  <2>1. CASE DB!Begin(u)
    BY <1>1, <2>1, Growing DEF MaintenanceInv, DB!Begin, Versions
  <2>2. CASE ~DB!Begin(u)
    <3>1. PICK pc \in {"checked", "current", "behind", "granted", "announced", "failed"} : upgrade' = [upgrade EXCEPT ![u].pc = pc]
      BY <2>2 DEF DB!Read, DB!Commit, DB!grant_app_role, DB!Verify, DB!UpgradeFails, DB!To
    <3>2. x = [upgrade[u] EXCEPT !.pc = pc]
      BY <3>1 DEF MaintenanceInv
    <3> QED
      BY <1>1, <3>2 DEF Upgraded
  <2> QED
    BY <2>1, <2>2
<1>6. x.pc = "announced" => Startable
  <2> SUFFICES ASSUME x.pc = "announced" PROVE Startable
    OBVIOUS
  <2>1. DB!Verify(u) /\ DB!check_app_connection
    BY <1>1 DEF MaintenanceInv, DB!Read, DB!Begin, DB!Commit, DB!grant_app_role, DB!Verify, DB!UpgradeFails, DB!To,
       Upgraded
  <2>2. alterable = {}
    BY <2>1 DEF MaintenanceInv, DB!check_app_connection, DB!Histories
  <2>3. version = DB!Latest
    BY <1>1, <2>1, Growing DEF DB!check_app_connection, DB!APP_PRIVILEGES, Versions
  <2> QED
    BY <2>1, <2>2, <2>3 DEF DB!check_app_connection, Startable, MayStart
<1> HIDE DEF x
<1> QED
  BY <1>2, <1>3, <1>4, <1>5, <1>6, UpgradeStep

\* Every step of a set-up.
LEMMA Setups ==
    ASSUME MaintenanceInv, NEW s \in Request,
           \/ DB!check_database(s) \/ DB!provision(s) \/ DB!ProvisionUnanswered(s) \/ DB!verify_browser(s)
           \/ DB!SetupFails(s)
           \/ \E verifyOnly \in BOOLEAN, given \in {s, "old"} : DB!private_inputs(s, verifyOnly, given)
    PROVE  MaintenanceInv'
<1> DEFINE x == setup'[s]
<1>1. setup[s] \in [pc : {"new", "checked", "login", "typed", "verified", "failed"},
                    password : Request \cup {"old", None}, created : BOOLEAN]
      /\ (setup[s].pc \in {"new", "checked", "typed"} => ~setup[s].created)
      /\ (setup[s].created => account # None /\ account.made = s)
  BY DEF MaintenanceInv, StandUp
<1>2. UNCHANGED <<version, tables, usable, alterable, upgrade, app>>
  BY DEF DB!check_database, DB!provision, DB!ProvisionUnanswered, DB!verify_browser, DB!SetupFails, DB!private_inputs
<1>3. setup' = [setup EXCEPT ![s] = x]
  BY DEF MaintenanceInv, DB!check_database, DB!provision, DB!ProvisionUnanswered, DB!verify_browser, DB!SetupFails,
     DB!private_inputs, DB!Stand
<1>4. CASE DB!provision(s) \/ DB!ProvisionUnanswered(s)
  <2>1. DB!Made(s) \in AccountRow /\ DB!Made(s).set = DB!Made(s).made /\ DB!Made(s).made = s
    BY <1>1, <1>4 DEF DB!provision, DB!ProvisionUnanswered, DB!Made, AccountRow, MaintenanceInv, StandUp
  <2> QED
    BY <1>1, <1>2, <1>3, <1>4, <2>1, SetupStep DEF DB!provision, DB!ProvisionUnanswered, DB!Absent, DB!Stand,
       MaintenanceInv
<1>5. CASE DB!check_database(s) \/ DB!verify_browser(s) \/ DB!SetupFails(s)
  <2>1. PICK pc \in {"checked", "verified", "failed"} : setup' = [setup EXCEPT ![s].pc = pc]
    BY <1>5 DEF DB!check_database, DB!verify_browser, DB!SetupFails, DB!Stand
  <2>0. x = [setup[s] EXCEPT !.pc = pc] /\ UNCHANGED account
    BY <1>5, <2>1 DEF DB!check_database, DB!verify_browser, DB!SetupFails, MaintenanceInv
  <2>2. pc = "checked" => setup[s].pc = "new"
    <3>1. x.pc = pc
      BY <1>1, <2>0
    <3>2. \A c : setup' = [setup EXCEPT ![s].pc = c] => x.pc = c
      BY <1>1 DEF MaintenanceInv
    <3>3. DB!verify_browser(s) \/ DB!SetupFails(s) => x.pc \in {"verified", "failed"}
      BY <3>2 DEF DB!verify_browser, DB!SetupFails, DB!Stand
    <3> QED
      BY <1>5, <3>1, <3>3 DEF DB!check_database
  <2>3. x \in [pc : {"new", "checked", "login", "typed", "verified", "failed"},
              password : Request \cup {"old", None}, created : BOOLEAN]
    BY <1>1, <2>0
  <2>4. x.pc = pc /\ x.created = setup[s].created
    BY <1>1, <2>0
  <2> HIDE DEF x
  <2> QED
    BY <1>1, <1>2, <1>3, <2>0, <2>2, <2>3, <2>4, SetupStep
<1>6. ASSUME NEW verifyOnly \in BOOLEAN, NEW given \in {s, "old"}, DB!private_inputs(s, verifyOnly, given)
      PROVE  MaintenanceInv'
  <2>1. PICK pc \in {"failed", "login", "typed"} : setup' = [setup EXCEPT ![s].password = given, ![s].pc = pc]
    BY <1>6 DEF DB!private_inputs
  <2>2. x = [setup[s] EXCEPT !.password = given, !.pc = pc] /\ setup[s].pc = "checked" /\ UNCHANGED account
    BY <1>6, <2>1 DEF DB!private_inputs, MaintenanceInv
  <2>3. x \in [pc : {"new", "checked", "login", "typed", "verified", "failed"},
              password : Request \cup {"old", None}, created : BOOLEAN]
    BY <1>1, <2>2
  <2>4. x.pc = pc /\ x.password = given /\ x.created = setup[s].created
    BY <1>1, <2>2
  <2>5. ~x.created
    BY <1>1, <2>2, <2>4
  <2> HIDE DEF x
  <2> QED
    BY <1>2, <1>3, <1>6, <2>2, <2>3, <2>4, <2>5, SetupStep
<1> QED
  BY <1>4, <1>5, <1>6

\* Steps of operators: a repair, a launch, a stop, a reset password; and of upgrades and set-ups.
LEMMA MaintenanceStep == MaintenanceInv /\ [DB!Next]_DB!maintenanceVars => MaintenanceInv'
<1> SUFFICES ASSUME MaintenanceInv, [DB!Next]_DB!maintenanceVars PROVE MaintenanceInv'
  OBVIOUS
<1>1. CASE DB!Repair \/ DB!Launch \/ DB!Stop \/ DB!ResetPassword \/ UNCHANGED DB!maintenanceVars
  <2>1. UNCHANGED <<version, tables, usable, upgrade, setup>> /\ alterable' \subseteq alterable
    BY <1>1 DEF DB!Repair, DB!Launch, DB!Stop, DB!ResetPassword, DB!maintenanceVars
  <2>2. Startable => Startable'
    BY <2>1 DEF Startable, MayStart
  <2>3. app' = "up" => app = "up" \/ Startable
    <3>1. ASSUME DB!Launch PROVE Startable
      BY <3>1, Growing DEF DB!Launch, MaintenanceInv, DB!check_app_connection, Startable, MayStart,
         DB!APP_PRIVILEGES, Versions, DB!Histories
    <3> QED
      BY <1>1, <3>1 DEF DB!Repair, DB!Stop, DB!ResetPassword, DB!maintenanceVars
  <2>4. \/ UNCHANGED account
        \/ /\ account \in AccountRow /\ account' = [account EXCEPT !.password = "reset", !.set = "reset"] /\ account # None
    BY <1>1 DEF DB!Repair, DB!Launch, DB!Stop, DB!ResetPassword, DB!maintenanceVars, MaintenanceInv
  <2>5. CASE UNCHANGED account
    BY <2>1, <2>2, <2>3, <2>5, Idles DEF MaintenanceInv, StandUp
  <2>6. CASE account \in AccountRow /\ account' = [account EXCEPT !.password = "reset", !.set = "reset"] /\ account # None
    <3>1. account' \in AccountRow
      BY <2>6 DEF AccountRow
    <3>2. account'.set = "reset" /\ account'.made = account.made
      BY <2>6 DEF AccountRow
    <3>3. account' # None
      BY <3>1, NoneIsNoAccount
    <3>4. \A s \in Request : StandUp(s)'
      BY <2>1, <2>6, <3>2, <3>3 DEF MaintenanceInv, StandUp
    <3> QED
      BY <2>1, <2>2, <2>3, <3>1, <3>2, <3>4, Idles DEF MaintenanceInv
  <2> QED
    BY <2>4, <2>5, <2>6
<1> QED
  BY <1>1, Upgrades, Setups DEF DB!Next

\* What holds of the set-ups and of a start announced is what they say.
LEMMA MaintenanceHolds == MaintenanceInv => DB!MaintenanceHonest
BY Growing DEF MaintenanceInv, DB!MaintenanceHonest, StandUp, Startable, MayStart, DB!TablesOf, DB!Latest,
   DB!APP_PRIVILEGES

\* However many upgrades and set-ups run at once and wherever each fails: the tables are
\* those of the recorded version, a start that was announced stays possible, and a set-up
\* says that it created the account only if the account is the one it made.
THEOREM UpgradesAreHonest == DB!Spec => []DB!MaintenanceHonest
BY MaintenanceInit, MaintenanceStep, MaintenanceHolds, PTL DEF DB!Spec

-----------------------------------------------------------------------------
(***************************************************************************)
(* Sessions of administrators.                                             *)
(***************************************************************************)
AttemptRow == [pc : {"new", "uncounted", "total", "address", "over", "counted", "hashing", "verified", "open"},
             kind : {"login", "report", None}, peer : Peer \cup {None}, at : Nat, given : Int, read : Int \cup {None},
             row : BOOLEAN, lost : SUBSET {Admin!Total}]
Session == [by : Client, password : Int, seen : Nat, expires : Nat]

\* A login that has read the account's password read the present one, or was there
\* when it was reset; and it goes on from the hash only with what it read.
Reads(r) ==
    /\ attempt[r].pc \in {"counted", "hashing", "verified"} =>
           attempt[r].read \in Int /\ (attempt[r].read # password => r \in overtaken)
    /\ attempt[r].pc = "verified" => attempt[r].given = attempt[r].read

\* The login a session is of has ended with it.
Earned(s) ==
    /\ attempt[s.by].pc = "open" /\ attempt[s.by].given = s.password
    /\ s.password # password => s.by \in overtaken

AdminInv ==
    /\ clock \in Nat /\ password \in Int /\ sessions \subseteq Session
    /\ attempt \in [Client -> AttemptRow]
    /\ \A r \in Client : Reads(r)
    /\ \A s \in sessions : Earned(s)

-----------------------------------------------------------------------------
\* Nobody has come, and nobody has a session.
LEMMA AdminInit == Admin!Init => AdminInv
BY DEF Admin!Init, AdminInv, AttemptRow, Session, Reads, Earned, Admin!New

\* A step of a request that has no session.
LEMMA AttemptStep ==
    ASSUME AdminInv, NEW r \in Client, NEW x \in AttemptRow, attempt' = [attempt EXCEPT ![r] = x],
           attempt[r].pc # "open",
           x.pc \in {"counted", "hashing", "verified"} => x.read \in Int /\ (x.read # password => r \in overtaken),
           x.pc = "verified" => x.given = x.read,
           UNCHANGED <<clock, password, sessions, overtaken>>
    PROVE  AdminInv'
<1>1. /\ attempt' \in [Client -> AttemptRow] /\ attempt'[r] = x
      /\ \A q \in Client \ {r} : attempt'[q] = attempt[q]
  BY DEF AdminInv
<1>2. \A q \in Client : Reads(q)'
  BY <1>1 DEF AdminInv, Reads
<1>3. \A s \in sessions : Earned(s)'
  <2> SUFFICES ASSUME NEW s \in sessions PROVE Earned(s)'
    OBVIOUS
  <2>1. s.by \in Client /\ s.by # r /\ Earned(s)
    BY DEF AdminInv, Earned, Session
  <2> QED
    BY <1>1, <2>1 DEF Earned
<1> QED
  BY <1>1, <1>2, <1>3 DEF AdminInv

\* Coming, being counted or refused, waiting for the database and at the gate, and having
\* the hash compared.
LEMMA AttemptSteps ==
    ASSUME AdminInv, NEW r \in Client,
           \/ \E kind \in {"login", "report"}, peer \in Peer, given \in Int : Admin!Come(r, kind, peer, given)
           \/ Admin!CountLogin(r) \/ Admin!SelectTotal(r) \/ Admin!SelectAddress(r) \/ Admin!CountReport(r)
           \/ Admin!Hash(r) \/ Admin!Busy(r) \/ Admin!Verify(r) \/ Admin!Unavailable(r)
    PROVE  AdminInv'
<1>1. attempt[r] \in AttemptRow /\ Reads(r) /\ clock \in Nat /\ password \in Int
  BY DEF AdminInv
<1>2. Admin!Over \in AttemptRow /\ Admin!Over.pc = "over"
  <2>1. Admin!New \in AttemptRow
    BY DEF Admin!New, AttemptRow
  <2> QED
    BY <2>1 DEF Admin!Over, AttemptRow
<1>3. ASSUME NEW kind \in {"login", "report"}, NEW peer \in Peer, NEW given \in Int, Admin!Come(r, kind, peer, given)
      PROVE  AdminInv'
  <2> DEFINE x == [Admin!New EXCEPT !.pc = "uncounted", !.kind = kind, !.peer = peer, !.at = clock, !.given = given]
  <2>1. x \in AttemptRow /\ x.pc = "uncounted"
    BY <1>1 DEF Admin!New, AttemptRow
  <2>2. attempt' = [attempt EXCEPT ![r] = x] /\ attempt[r].pc = "new" /\ UNCHANGED <<clock, password, sessions, overtaken>>
    BY <1>3 DEF Admin!Come
  <2> HIDE DEF x
  <2> QED
    BY <2>1, <2>2, AttemptStep
<1>4. CASE Admin!CountLogin(r)
  <2> DEFINE x == [attempt[r] EXCEPT !.pc = "counted", !.read = password]
  <2>1. x \in AttemptRow /\ x.pc = "counted" /\ x.read = password
    BY <1>1 DEF AttemptRow
  <2>2. [attempt EXCEPT ![r].pc = "counted", ![r].read = password] = [attempt EXCEPT ![r] = x]
    BY DEF AdminInv
  <2>3. /\ attempt' = [attempt EXCEPT ![r].pc = "counted", ![r].read = password] \/ attempt' = [attempt EXCEPT ![r] = Admin!Over]
        /\ attempt[r].pc = "uncounted" /\ UNCHANGED <<clock, password, sessions, overtaken>>
    BY <1>4 DEF Admin!CountLogin
  <2> HIDE DEF x
  <2> QED
    BY <1>1, <1>2, <2>1, <2>2, <2>3, AttemptStep
<1>5. CASE Admin!CountReport(r) \/ Admin!Unavailable(r) \/ Admin!Busy(r)
  BY <1>2, <1>5, AttemptStep DEF Admin!CountReport, Admin!Unavailable, Admin!Pending, Admin!Busy
<1>6. CASE Admin!Hash(r)
  <2> DEFINE x == [attempt[r] EXCEPT !.pc = "hashing"]
  <2>1. x \in AttemptRow /\ x.pc = "hashing" /\ x.read = attempt[r].read
    BY <1>1 DEF AttemptRow
  <2>2. attempt' = [attempt EXCEPT ![r] = x] /\ attempt[r].pc = "counted" /\ UNCHANGED <<clock, password, sessions, overtaken>>
    BY <1>6 DEF Admin!Hash, AdminInv
  <2> HIDE DEF x
  <2> QED
    BY <1>1, <2>1, <2>2, AttemptStep DEF Reads
<1>7. CASE Admin!Verify(r)
  <2> DEFINE x == [attempt[r] EXCEPT !.pc = "verified"]
  <2>1. x \in AttemptRow /\ x.pc = "verified" /\ x.read = attempt[r].read /\ x.given = attempt[r].given
    BY <1>1 DEF AttemptRow
  <2>2. /\ attempt[r].pc = "hashing" /\ UNCHANGED <<clock, password, sessions, overtaken>>
        /\ \/ attempt[r].given = attempt[r].read /\ attempt' = [attempt EXCEPT ![r] = x]
           \/ attempt' = [attempt EXCEPT ![r] = Admin!Over]
    BY <1>7 DEF Admin!Verify, AdminInv
  <2> HIDE DEF x
  <2> QED
    BY <1>1, <1>2, <2>1, <2>2, AttemptStep DEF Reads
<1>8. CASE Admin!SelectTotal(r) \/ Admin!SelectAddress(r)
  <2>1. /\ attempt[r].pc # "open" /\ UNCHANGED <<clock, password, sessions, overtaken>>
        /\ \E k : \E lost \in SUBSET {Admin!Total}, pc \in {"total", "address"} : Admin!Select(r, k, pc, lost)
    BY <1>8 DEF Admin!SelectTotal, Admin!SelectAddress
  <2>2. PICK k : \E lost \in SUBSET {Admin!Total}, pc \in {"total", "address"} : Admin!Select(r, k, pc, lost)
    BY <2>1
  <2>3. PICK lost \in SUBSET {Admin!Total}, pc \in {"total", "address"} : Admin!Select(r, k, pc, lost)
    BY <2>2
  <2> DEFINE x == [attempt[r] EXCEPT !.pc = pc, !.row = (limits[k] # None), !.lost = lost]
  <2>4. attempt' = [attempt EXCEPT ![r] = x] \/ attempt' = [attempt EXCEPT ![r] = Admin!Over]
    BY <2>3 DEF Admin!Select
  <2>5. x \in AttemptRow /\ x.pc \in {"total", "address"}
    BY <1>1 DEF AttemptRow
  <2> HIDE DEF x
  <2> QED
    BY <1>2, <2>1, <2>4, <2>5, AttemptStep
<1> QED
  BY <1>3, <1>4, <1>5, <1>6, <1>7, <1>8

\* A session opened is one that its login has earned.
LEMMA Opened ==
    ASSUME AdminInv, NEW r \in Client, Admin!Open(r)
    PROVE  AdminInv'
<1> DEFINE x == [attempt[r] EXCEPT !.pc = "open"]
           s == [by |-> r, password |-> attempt[r].read, seen |-> attempt[r].at, expires |-> attempt[r].at + Lifetime]
<1>1. /\ attempt[r] \in AttemptRow /\ attempt[r].pc = "verified" /\ attempt[r].read \in Int
      /\ attempt[r].given = attempt[r].read /\ (attempt[r].read # password => r \in overtaken)
  BY DEF Admin!Open, AdminInv, Reads
<1>2. x \in AttemptRow /\ x.pc = "open" /\ x.given = attempt[r].given
  BY <1>1 DEF AttemptRow
<1>3. s \in Session /\ s.by = r /\ s.password = attempt[r].read
  BY <1>1, ServicesAssumption DEF Session, AttemptRow
<1>4. /\ attempt' = [attempt EXCEPT ![r] = x] /\ sessions' \subseteq sessions \cup {s}
      /\ UNCHANGED <<clock, password, overtaken>>
  BY DEF Admin!Open, AdminInv
<1> HIDE DEF x, s
<1>5. /\ attempt' \in [Client -> AttemptRow] /\ attempt'[r] = x
      /\ \A q \in Client \ {r} : attempt'[q] = attempt[q]
  BY <1>2, <1>4 DEF AdminInv
<1>6. \A q \in Client : Reads(q)'
  BY <1>2, <1>4, <1>5 DEF AdminInv, Reads
<1>7. ASSUME NEW q \in sessions' PROVE Earned(q)'
  <2>1. CASE q = s
    BY <1>1, <1>2, <1>3, <1>4, <1>5, <2>1 DEF Earned
  <2>2. CASE q \in sessions
    <3>1. q.by \in Client /\ q.by # r /\ Earned(q)
      BY <1>1, <2>2 DEF AdminInv, Earned, Session
    <3> QED
      BY <1>4, <1>5, <3>1 DEF Earned
  <2> QED
    BY <1>4, <2>1, <2>2
<1> QED
  BY <1>3, <1>4, <1>5, <1>6, <1>7 DEF AdminInv

\* Steps of requests, of sessions, of the reset of the password, and of time.
LEMMA AdminStep == AdminInv /\ [Admin!Next]_Admin!accountVars => AdminInv'
<1> SUFFICES ASSUME AdminInv, [Admin!Next]_Admin!accountVars PROVE AdminInv'
  OBVIOUS
<1>1. CASE Admin!Tick \/ UNCHANGED Admin!accountVars
  BY <1>1 DEF Admin!Tick, Admin!accountVars, AdminInv, Reads, Earned
<1>2. CASE Admin!Reset
  <2>1. /\ password' = password + 1 /\ sessions' = {} /\ UNCHANGED <<clock, attempt>>
        /\ \A r \in Client : r \in overtaken \/ attempt[r].pc \in {"counted", "hashing", "verified"} => r \in overtaken'
    BY <1>2 DEF Admin!Reset, Admin!Ended
  <2> QED
    BY <2>1 DEF AdminInv, Reads
<1>3. ASSUME NEW s \in sessions, Admin!Use(s) \/ Admin!logout(s) PROVE AdminInv'
  <2>1. s \in Session /\ clock \in Nat
    BY DEF AdminInv
  <2>2. [s EXCEPT !.seen = clock] \in Session
    BY <2>1 DEF Session
  <2>3. [s EXCEPT !.seen = clock].by = s.by /\ [s EXCEPT !.seen = clock].password = s.password
    BY <2>1 DEF Session
  <2>4. sessions' \subseteq sessions \cup {[s EXCEPT !.seen = clock]} /\ UNCHANGED <<clock, password, attempt, overtaken>>
    BY <1>3 DEF Admin!Use, Admin!logout
  <2> QED
    BY <2>2, <2>3, <2>4 DEF AdminInv, Reads, Earned
<1> QED
  BY <1>1, <1>2, <1>3, AttemptSteps, Opened DEF Admin!Next

\* A session earned is one that is promised.
LEMMA AdminHolds == AdminInv => Admin!SessionsEarned
BY DEF AdminInv, Earned, Admin!SessionsEarned

\* Whatever logins meet a reset of the password: a session is one whose login gave the
\* password that the account has, or the reset came while that login was under way.
THEOREM LoginsEarnSessions == Admin!Spec => []Admin!SessionsEarned
BY AdminInit, AdminStep, AdminHolds, PTL DEF Admin!Spec

-----------------------------------------------------------------------------
(***************************************************************************)
(* Attempts of administrators.                                             *)
(***************************************************************************)
\* The requests counted in a window, and those counted after one of a later window.
Within(c, w) == {i \in DOMAIN c : c[i] = w}
Overdue(c) == {i \in DOMAIN c : \E j \in 1 .. i - 1 : c[j] > c[i]}
Delays(c, m) == Cardinality(Overdue(c)) * m

\* What is known of a key: its counted windows are c, its row is x, m is its limit, and
\* what comes belongs to windows after h.  A window that the row is not of has got as
\* much as one whole limit more for each request that came late; one that is yet to come
\* has nothing of its own.
Tally(c, x, m, h) ==
    /\ c \in Seq(Int)
    /\ \A w \in Int : Cardinality(Within(c, w)) <= Delays(c, m) + m
    /\ x # None => /\ x.start \in Int /\ x.attempts \in 1 .. m /\ \E j \in DOMAIN c : c[j] = x.start
                   /\ Cardinality(Within(c, x.start)) <= Delays(c, m) + x.attempts
    /\ \A w \in Int : w > (IF x = None THEN h ELSE x.start) => Cardinality(Within(c, w)) <= Delays(c, m)

\* A window's requests and the late ones are finitely many.
LEMMA CountsFinite ==
    ASSUME NEW c \in Seq(Int)
    PROVE  /\ \A w : IsFiniteSet(Within(c, w)) /\ Cardinality(Within(c, w)) \in Nat
           /\ IsFiniteSet(Overdue(c)) /\ Cardinality(Overdue(c)) \in Nat
           /\ \A m \in Nat : Delays(c, m) \in Nat
<1>1. Len(c) \in Nat /\ DOMAIN c = 1 .. Len(c)
  OBVIOUS
<1>2. IsFiniteSet(DOMAIN c)
  BY <1>1, FS_Interval
<1>3. \A w : Within(c, w) \subseteq DOMAIN c
  BY DEF Within
<1>4. Overdue(c) \subseteq DOMAIN c
  BY DEF Overdue
<1>5. \A w : IsFiniteSet(Within(c, w))
  BY <1>2, <1>3, FS_Subset
<1>6. IsFiniteSet(Overdue(c))
  BY <1>2, <1>4, FS_Subset
<1> QED
  BY <1>5, <1>6, FS_CardinalityType, Products DEF Delays

\* What counting one more request in window w makes of the counts.
Grown(c, w, m, d) ==
    /\ d \in Seq(Int) /\ DOMAIN c \subseteq DOMAIN d /\ (\A j \in DOMAIN c : d[j] = c[j])
    /\ Len(c) + 1 \in DOMAIN d /\ d[Len(c) + 1] = w
    /\ Cardinality(Within(d, w)) = Cardinality(Within(c, w)) + 1
    /\ \A v \in Int \ {w} : Within(d, v) = Within(c, v)
    /\ Delays(d, m) \in {Delays(c, m), Delays(c, m) + m}
    /\ (\E j \in DOMAIN c : c[j] > w) => Delays(d, m) = Delays(c, m) + m

\* One more request is counted in its window, and is late if one of a later window was counted.
LEMMA CountsGrow ==
    ASSUME NEW c \in Seq(Int), NEW w \in Int, NEW m \in Nat, NEW d, d = Append(c, w)
    PROVE  Grown(c, w, m, d)
<1> DEFINE n == Len(c) + 1
<1>1. /\ d \in Seq(Int) /\ Len(c) \in Nat /\ n \in Nat /\ DOMAIN c = 1 .. Len(c) /\ DOMAIN d = 1 .. n
      /\ (\A j \in 1 .. Len(c) : d[j] = c[j]) /\ d[n] = w
  OBVIOUS
<1>2. DOMAIN d = DOMAIN c \cup {n} /\ n \notin DOMAIN c
  BY <1>1
<1>3. Within(d, w) = Within(c, w) \cup {n} /\ n \notin Within(c, w) /\ \A v \in Int \ {w} : Within(d, v) = Within(c, v)
  BY <1>1, <1>2 DEF Within
<1>4. ASSUME NEW i \in DOMAIN c PROVE i \in Overdue(d) <=> i \in Overdue(c)
  <2>1. \A j \in 1 .. i - 1 : j \in 1 .. Len(c)
    BY <1>1
  <2> QED
    BY <1>1, <1>2, <2>1 DEF Overdue
<1>5. n \in Overdue(d) <=> \E j \in DOMAIN c : c[j] > w
  <2>1. 1 .. n - 1 = DOMAIN c
    BY <1>1
  <2> QED
    BY <1>1, <1>2, <2>1 DEF Overdue
<1>6. Overdue(c) \subseteq DOMAIN c /\ Overdue(d) \subseteq DOMAIN d
  BY DEF Overdue
<1>7. Overdue(d) = Overdue(c) \/ (Overdue(d) = Overdue(c) \cup {n} /\ n \notin Overdue(c))
  BY <1>2, <1>4, <1>6
<1>8. (\E j \in DOMAIN c : c[j] > w) => Overdue(d) = Overdue(c) \cup {n} /\ n \notin Overdue(c)
  BY <1>2, <1>5, <1>6, <1>7
<1>9. Cardinality(Within(d, w)) = Cardinality(Within(c, w)) + 1
  BY <1>3, CountsFinite, FS_AddElement
<1>10. Overdue(d) = Overdue(c) \cup {n} /\ n \notin Overdue(c) => Delays(d, m) = Delays(c, m) + m
  <2>1. Overdue(d) = Overdue(c) \cup {n} /\ n \notin Overdue(c) => Cardinality(Overdue(d)) = Cardinality(Overdue(c)) + 1
    BY CountsFinite, FS_AddElement
  <2> QED
    BY <2>1, CountsFinite, Products DEF Delays
<1>11. Overdue(d) = Overdue(c) => Delays(d, m) = Delays(c, m)
  BY DEF Delays
<1> HIDE DEF n
<1>12. Delays(d, m) \in {Delays(c, m), Delays(c, m) + m}
  BY <1>7, <1>10, <1>11
<1>13. (\E j \in DOMAIN c : c[j] > w) => Delays(d, m) = Delays(c, m) + m
  BY <1>8, <1>10
<1>14. DOMAIN c \subseteq DOMAIN d /\ (\A j \in DOMAIN c : d[j] = c[j]) /\ n \in DOMAIN d /\ d[n] = w
  BY <1>1, <1>2
<1> QED
  BY <1>1, <1>3, <1>9, <1>12, <1>13, <1>14 DEF n, Grown

\* A request is counted in its window: the row is of that window and has one more, or is
\* begun anew.
LEMMA TallyGrows ==
    ASSUME NEW c, NEW x, NEW m \in Nat \ {0}, NEW h \in Int, Tally(c, x, m, h),
           NEW w \in Int, x = None => w > h, NEW n \in Nat, n < m,
           n = (IF x # None /\ x.start = w THEN x.attempts ELSE 0),
           NEW y, y # None, y.start = w, y.attempts = n + 1
    PROVE  Tally(Append(c, w), y, m, h)
<1>0. PICK s : s = Append(c, w)
  OBVIOUS
<1>1. c \in Seq(Int)
  BY DEF Tally
<1>2. /\ s \in Seq(Int) /\ DOMAIN c \subseteq DOMAIN s /\ (\A j \in DOMAIN c : s[j] = c[j])
      /\ Len(c) + 1 \in DOMAIN s /\ s[Len(c) + 1] = w
      /\ Cardinality(Within(s, w)) = Cardinality(Within(c, w)) + 1
      /\ \A v \in Int \ {w} : Within(s, v) = Within(c, v)
      /\ Delays(s, m) \in {Delays(c, m), Delays(c, m) + m}
      /\ (\E j \in DOMAIN c : c[j] > w) => Delays(s, m) = Delays(c, m) + m
  <2>1. m \in Nat
    OBVIOUS
  <2>2. Grown(c, w, m, s)
    BY <1>0, <1>1, <2>1, CountsGrow
  <2> QED
    BY <2>2 DEF Grown
<1>3. Delays(c, m) \in Nat /\ \A v : Cardinality(Within(c, v)) \in Nat
  BY <1>1, CountsFinite
<1>4. Delays(s, m) \in Nat /\ \A v : Cardinality(Within(s, v)) \in Nat
  BY <1>2, CountsFinite
<1>5. n \in Nat /\ m \in Nat /\ n + 1 <= m /\ n + 1 \in 1 .. m
  OBVIOUS
<1>6. \E j \in DOMAIN s : s[j] = w
  BY <1>2
<1>16. Delays(c, m) <= Delays(s, m) /\ Cardinality(Within(s, w)) = Cardinality(Within(c, w)) + 1
  <2>1. Delays(s, m) = Delays(c, m) \/ Delays(s, m) = Delays(c, m) + m
    BY <1>2
  <2> QED
    BY <1>2, <1>3, <1>5, <2>1
<1>7. SUFFICES /\ Cardinality(Within(s, w)) <= Delays(s, m) + (n + 1)
               /\ \A v \in Int \ {w} : Cardinality(Within(s, v)) <= Delays(s, m) + m
               /\ \A v \in Int : v > w => Cardinality(Within(s, v)) <= Delays(s, m)
  <2>1. Cardinality(Within(s, w)) <= Delays(s, m) + m
    BY <1>4, <1>5, <1>7
  <2>2. \A v \in Int : Cardinality(Within(s, v)) <= Delays(s, m) + m
    BY <1>7, <2>1
  <2>3. Tally(s, y, m, h)
    BY <1>2, <1>5, <1>6, <1>7, <2>2 DEF Tally
  <2> QED
    BY <1>0, <2>3
<1>8. \A v \in Int : Cardinality(Within(c, v)) <= Delays(c, m) + m
  BY DEF Tally
<1>9. \A v \in Int \ {w} : Cardinality(Within(s, v)) = Cardinality(Within(c, v))
  BY <1>2
<1>10. \A v \in Int \ {w} : Cardinality(Within(s, v)) <= Delays(s, m) + m
  <2> SUFFICES ASSUME NEW v \in Int \ {w} PROVE Cardinality(Within(s, v)) <= Delays(s, m) + m
    OBVIOUS
  <2>1. Cardinality(Within(c, v)) <= Delays(c, m) + m /\ Cardinality(Within(s, v)) = Cardinality(Within(c, v))
    BY <1>8, <1>9
  <2> QED
    BY <1>3, <1>4, <1>5, <1>16, <2>1
<1>11. CASE /\ Cardinality(Within(c, w)) <= Delays(c, m) + n
            /\ \A v \in Int : v > w => Cardinality(Within(c, v)) <= Delays(c, m)
  <2>1. Cardinality(Within(s, w)) <= Delays(s, m) + (n + 1)
    BY <1>3, <1>4, <1>5, <1>11, <1>16
  <2>2. ASSUME NEW v \in Int, v > w PROVE Cardinality(Within(s, v)) <= Delays(s, m)
    <3>1. Cardinality(Within(c, v)) <= Delays(c, m) /\ Cardinality(Within(s, v)) = Cardinality(Within(c, v))
      BY <1>9, <1>11, <2>2
    <3> QED
      BY <1>3, <1>4, <1>16, <3>1
  <2> QED
    BY <1>10, <2>1, <2>2
<1>12. CASE x # None /\ w < x.start
  <2>1. x.start \in Int /\ \E j \in DOMAIN c : c[j] > w
    BY <1>12 DEF Tally
  <2>2. Delays(s, m) = Delays(c, m) + m
    BY <1>2, <2>1
  <2>3. Cardinality(Within(c, w)) <= Delays(c, m) + m
    BY <1>8
  <2>4. Cardinality(Within(s, w)) <= Delays(s, m) + (n + 1)
    BY <1>3, <1>5, <1>16, <2>2, <2>3
  <2>5. ASSUME NEW v \in Int, v > w PROVE Cardinality(Within(s, v)) <= Delays(s, m)
    <3>1. Cardinality(Within(c, v)) <= Delays(c, m) + m /\ Cardinality(Within(s, v)) = Cardinality(Within(c, v))
      BY <1>8, <1>9, <2>5
    <3> QED
      BY <2>2, <3>1
  <2> QED
    BY <1>10, <2>4, <2>5
<1>13. CASE x # None /\ x.start = w
  BY <1>11, <1>13 DEF Tally
<1>14. CASE x = None \/ (x # None /\ x.start < w)
  <2>1. n = 0
    BY <1>14 DEF Tally
  <2>2. \A v \in Int : v >= w => Cardinality(Within(c, v)) <= Delays(c, m)
    BY <1>14 DEF Tally
  <2>3. Cardinality(Within(c, w)) <= Delays(c, m) + n
    BY <1>3, <2>1, <2>2
  <2> QED
    BY <1>11, <2>2, <2>3
<1>15. x = None \/ x.start \in Int
  BY DEF Tally
<1> QED
  BY <1>12, <1>13, <1>14, <1>15

\* A row may go when no request of its window is yet to come.
LEMMA TallyForgets ==
    ASSUME NEW c, NEW x, NEW m \in Nat, NEW h \in Int, NEW g \in Int, Tally(c, x, m, h), h <= g
    PROVE  Tally(c, x, m, g) /\ (x # None /\ x.start <= g => Tally(c, None, m, g))
BY DEF Tally

-----------------------------------------------------------------------------
LimitRow == [start : Int, attempts : Int]
Limited == {k \in Admin!LimitKey : k[1] # "account"}

\* Rows count what was counted, and what waits has not waited for longer than it may.
Counts == \A k \in Limited : Tally(counted[k], limits[k], Maximum[k[1]], clock - AttemptHour)
CountInv ==
    /\ clock \in Nat /\ limits \in [Admin!LimitKey -> LimitRow \cup {None}]
    /\ \A r \in Client : Admin!Pending(r) =>
           attempt[r].at \in Nat /\ attempt[r].at <= clock /\ clock <= attempt[r].at + Patience /\ attempt[r].peer \in Peer
    /\ Counts

\* Limits are at least one; the account's is left out.
LEMMA LimitsPositive ==
    /\ \A k \in Admin!LimitKey : Maximum[k[1]] \in Nat \ {0}
    /\ Patience \in Nat /\ AttemptHour \in Nat /\ AttemptWindow \in Nat \ {0} /\ 2 * (Patience + AttemptWindow) <= AttemptHour
    /\ None \notin LimitRow
BY LimitAssumption DEF Admin!LimitKey, LimitRow

\* Nothing is counted yet, or one request of an hour that is over.
LEMMA CountInit == Admin!Init => CountInv
<1> SUFFICES ASSUME Admin!Init PROVE CountInv
  OBVIOUS
<1> DEFINE e == Admin!Earlier
<1>1. /\ clock = 0 /\ limits \in [Admin!LimitKey -> {e, None}]
      /\ \A k \in Admin!LimitKey : counted[k] = IF limits[k] = None THEN <<>> ELSE <<e.start>>
  BY DEF Admin!Init
<1>2. \A r \in Client : attempt[r].pc = "new"
  BY DEF Admin!Init, Admin!New
<1>3. \A w : Within(<<>>, w) = {}
  BY DEF Within
<1>4. Overdue(<<>>) = {}
  BY DEF Overdue
<1>5. ASSUME NEW m \in Nat PROVE Delays(<<>>, m) = 0 /\ \A w : Cardinality(Within(<<>>, w)) = 0
  <2>1. Cardinality({}) = 0 /\ 0 * m = 0
    BY FS_EmptySet
  <2> QED
    BY <1>3, <1>4, <2>1 DEF Delays
<1>6. <<>> \in Seq(Int)
  OBVIOUS
<1>7. ASSUME NEW m \in Nat, NEW h \in Int PROVE Tally(<<>>, None, m, h)
  BY <1>5, <1>6, <1>7 DEF Tally
<1>8. e \in LimitRow /\ e.start = -(AttemptHour + AttemptWindow) /\ e.attempts = 1
  BY LimitsPositive DEF Admin!Earlier, LimitRow
<1> HIDE DEF e
<1>9. PICK w \in Int : w = e.start /\ w - 1 <= 0 - AttemptHour /\ w - 1 \in Int /\ 0 - AttemptHour \in Int /\ w > w - 1
  BY <1>8, LimitsPositive
<1>10. ASSUME NEW m \in Nat \ {0} PROVE Tally(<<w>>, e, m, 0 - AttemptHour)
  <2>1. Tally(<<>>, None, m, w - 1)
    BY <1>7, <1>9
  <2>2. Append(<<>>, w) = <<w>>
    OBVIOUS
  <2>3. e # None /\ 0 \in Nat /\ 0 < m /\ e.attempts = 0 + 1
    BY <1>8, LimitsPositive
  <2>4. Tally(Append(<<>>, w), e, m, w - 1)
    BY <1>9, <2>1, <2>3, TallyGrows
  <2> QED
    BY <1>9, <2>2, <2>4, TallyForgets
<1>11. ASSUME NEW k \in Limited PROVE Tally(counted[k], limits[k], Maximum[k[1]], clock - AttemptHour)
  <2>1. k \in Admin!LimitKey /\ Maximum[k[1]] \in Nat \ {0}
    BY LimitsPositive DEF Limited
  <2> QED
    BY <1>1, <1>7, <1>9, <1>10, <2>1
<1>12. Counts
  BY <1>11 DEF Counts
<1>13. limits \in [Admin!LimitKey -> LimitRow \cup {None}]
  BY <1>1, <1>8
<1>14. \A r \in Client : ~Admin!Pending(r)
  BY <1>2 DEF Admin!Pending
<1> QED
  BY <1>1, <1>12, <1>13, <1>14 DEF CountInv

\* The window of a request that waits is one whose row is still there: a row that goes is
\* of a window that no request comes for any more.
LEMMA WindowOpen ==
    ASSUME CountInv, NEW r \in Client, Admin!Pending(r)
    PROVE  /\ Admin!Start(r) \in Int /\ Admin!Start(r) > clock - AttemptHour
           /\ Admin!Start(r) - AttemptHour <= clock - AttemptHour
           /\ Admin!Start(r) <= clock /\ Admin!Start(r) > clock - (Patience + AttemptWindow)
<1>1. attempt[r].at \in Nat /\ attempt[r].at <= clock /\ clock <= attempt[r].at + Patience /\ clock \in Nat
  BY DEF CountInv
<1>2. ASSUME NEW a \in Nat, NEW b \in Nat \ {0} PROVE a % b \in 0 .. b - 1
  OBVIOUS
<1>3. PICK rest \in Int : rest = attempt[r].at % AttemptWindow /\ 0 <= rest /\ rest < AttemptWindow
  <2>1. AttemptWindow \in Nat \ {0}
    BY LimitsPositive
  <2>2. attempt[r].at % AttemptWindow \in 0 .. AttemptWindow - 1
    BY <1>1, <1>2, <2>1
  <2> QED
    BY <2>1, <2>2
<1>4. Admin!Start(r) = attempt[r].at - rest
  BY <1>3 DEF Admin!Start
<1> QED
  BY <1>1, <1>3, <1>4, LimitsPositive

\* A request is counted for the keys that may have it.
LEMMA KeysCounted ==
    ASSUME CountInv, NEW r \in Client, Admin!Pending(r), NEW table, table \in {limits, Admin!Purged(Admin!Start(r))},
           NEW keys, \A k \in keys : Admin!May(table, k, Admin!Start(r)) \/ k[1] = "account",
           Admin!Count(table, keys, Admin!Start(r)), clock' = clock
    PROVE  limits' \in [Admin!LimitKey -> LimitRow \cup {None}] /\ Counts'
<1> DEFINE h == clock - AttemptHour
<1>1. PICK w \in Int : w = Admin!Start(r) /\ w > h /\ w - AttemptHour <= h
  BY WindowOpen
<1>2. h \in Int
  BY LimitsPositive DEF CountInv
<1>3. \A k \in Admin!LimitKey : table[k] = limits[k] \/ (limits[k] # None /\ limits[k].start < w - AttemptHour /\ table[k] = None)
  BY <1>1 DEF Admin!Purged
<1>4. \A k \in Admin!LimitKey : limits[k] \in LimitRow \cup {None}
  BY DEF CountInv
<1>5. \A k \in Admin!LimitKey : table[k] \in LimitRow \cup {None}
  BY <1>3, <1>4
<1>6. \A k \in Admin!LimitKey : Admin!Used(table, k, w) = IF table[k] # None /\ table[k].start = w THEN table[k].attempts ELSE 0
  BY DEF Admin!Used
<1>7. /\ limits' = [k \in Admin!LimitKey |-> IF k \in keys THEN [start |-> w, attempts |-> Admin!Used(table, k, w) + 1] ELSE table[k]]
      /\ \A k \in Admin!LimitKey : counted'[k] = IF k \in keys THEN Append(counted[k], w) ELSE counted[k]
  BY <1>1 DEF Admin!Count
<1>8. \A k \in Admin!LimitKey : Admin!Used(table, k, w) \in Int
  BY <1>5, <1>6 DEF LimitRow
<1>9. limits' \in [Admin!LimitKey -> LimitRow \cup {None}]
  BY <1>5, <1>7, <1>8 DEF LimitRow
<1> HIDE DEF h
<1>10. ASSUME NEW k \in Limited PROVE Tally(counted'[k], limits'[k], Maximum[k[1]], h)
  <2>1. k \in Admin!LimitKey /\ k[1] # "account"
    BY DEF Limited
  <2>2. PICK m \in Nat \ {0} : m = Maximum[k[1]]
    BY <2>1, LimitsPositive
  <2>3. Tally(counted[k], limits[k], m, h)
    BY <2>2 DEF CountInv, Counts, h
  <2>4. limits[k] # None /\ limits[k].start < w - AttemptHour => limits[k].start <= h
    BY <1>1, <1>2, <1>4, <2>1, LimitsPositive DEF LimitRow
  <2>5. Tally(counted[k], table[k], m, h)
    BY <1>2, <1>3, <2>1, <2>2, <2>3, <2>4, TallyForgets
  <2>6. CASE k \in keys
    <3>1. PICK n : n = Admin!Used(table, k, w)
      OBVIOUS
    <3>2. n < m
      BY <1>1, <2>1, <2>2, <2>6, <3>1 DEF Admin!May
    <3>3. n = IF table[k] # None /\ table[k].start = w THEN table[k].attempts ELSE 0
      BY <1>6, <2>1, <3>1
    <3>4. n \in Nat
      BY <2>5, <3>3 DEF Tally
    <3>5. PICK y : y = [start |-> w, attempts |-> n + 1]
      OBVIOUS
    <3>6. y \in LimitRow /\ y.start = w /\ y.attempts = n + 1
      BY <3>4, <3>5 DEF LimitRow
    <3>7. limits'[k] = y /\ counted'[k] = Append(counted[k], w)
      BY <1>7, <2>1, <2>6, <3>1, <3>5
    <3>8. y # None
      BY <3>6, LimitsPositive
    <3>9. PICK c, x : c = counted[k] /\ x = table[k]
      OBVIOUS
    <3>10. Tally(c, x, m, h) /\ n = (IF x # None /\ x.start = w THEN x.attempts ELSE 0)
      BY <2>5, <3>3, <3>9
    <3>11. Tally(Append(c, w), y, m, h)
      BY <1>1, <1>2, <2>2, <3>2, <3>4, <3>6, <3>8, <3>10, TallyGrows
    <3> QED
      BY <2>2, <3>7, <3>9, <3>11
  <2>7. CASE k \notin keys
    BY <1>7, <2>1, <2>2, <2>5, <2>7
  <2> QED
    BY <2>6, <2>7
<1>11. h' = h
  BY DEF h
<1>12. Counts'
  BY <1>10, <1>11 DEF Counts, h
<1> QED
  BY <1>9, <1>12

\* A step in which nothing is counted, and in which an account's row may go.
LEMMA CountStays ==
    ASSUME CountInv, clock' = clock, counted' = counted,
           limits' = limits \/ limits' = [limits EXCEPT ![<<"account", None>>] = None],
           \A r \in Client : Admin!Pending(r)' =>
               \/ Admin!Pending(r) /\ attempt'[r].at = attempt[r].at /\ attempt'[r].peer = attempt[r].peer
               \/ attempt'[r].at = clock /\ attempt'[r].peer \in Peer
    PROVE  CountInv'
<1>1. limits' \in [Admin!LimitKey -> LimitRow \cup {None}] /\ \A k \in Limited : limits'[k] = limits[k]
  BY DEF CountInv, Limited
<1>2. Counts'
  BY <1>1 DEF CountInv, Counts
<1> QED
  BY <1>1, <1>2, LimitsPositive DEF CountInv

-----------------------------------------------------------------------------
\* The transaction of a report, and the keys whose rows a purge has taken from it.
Address(r) == <<"address", attempt[r].peer>>
Loses(r, k) ==
    \/ attempt[r].pc = "total" /\ k = Admin!Total /\ Admin!Gone(r, k)
    \/ attempt[r].pc = "address" /\ (k \in attempt[r].lost \/ (k = Address(r) /\ Admin!Gone(r, k)))

\* It holds the lock of reports, what it has looked up it may still count, and no report
\* of its window was let through uncounted for a key whose row it has lost.
Reserve(r) == attempt[r].pc \in {"total", "address"} =>
    /\ \A q \in Client : attempt[q].pc \in {"total", "address"} => q = r
    /\ Admin!May(limits, Admin!Total, Admin!Start(r))
    /\ attempt[r].pc = "address" => Admin!May(limits, Address(r), Admin!Start(r))
    /\ attempt[r].pc = "address" /\ Admin!Total \in attempt[r].lost => limits[Admin!Total] = None
    /\ \A k \in Admin!LimitKey : Loses(r, k) => \A j \in DOMAIN missed[k] : missed[k][j] # Admin!Start(r)

\* Windows of reports not counted: c, each at most once; a row x that was made since is
\* not much older.
Misses(c, x, now) ==
    /\ c \in Seq(Int) /\ \A i, j \in DOMAIN c : c[i] = c[j] => i = j
    /\ \A j \in DOMAIN c : c[j] <= now /\ (x # None => x.start > c[j] - (Patience + AttemptWindow))

ReserveInv ==
    /\ \A k \in Admin!LimitKey : Misses(missed[k], limits[k], clock)
    /\ \A r \in Client : Reserve(r)

\* Nothing is reserved yet.
LEMMA ReserveInit == Admin!Init => ReserveInv
BY DEF Admin!Init, Admin!New, ReserveInv, Reserve, Misses

\* What is written now is younger than a request may be, time passes, and rows may go.
LEMMA MissesStay ==
    ASSUME NEW c, NEW x, NEW now \in Int, Misses(c, x, now), NEW y, NEW later \in Int, now <= later,
           y \in {x, None} \/ (y.start \in Int /\ y.start > now - (Patience + AttemptWindow))
    PROVE  Misses(c, y, later)
<1>1. c \in Seq(Int) /\ Patience + AttemptWindow \in Int /\ \A j \in DOMAIN c : c[j] \in Int
  BY LimitsPositive DEF Misses
<1> QED
  BY <1>1 DEF Misses

\* One more report of a window of which none was missed before.
LEMMA MissesGrow ==
    ASSUME NEW c, NEW now \in Int, Misses(c, None, now), NEW w \in Int, w <= now, \A j \in DOMAIN c : c[j] # w
    PROVE  Misses(Append(c, w), None, now)
<1>0. PICK d : d = Append(c, w)
  OBVIOUS
<1>1. c \in Seq(Int) /\ Len(c) \in Nat /\ DOMAIN c = 1 .. Len(c)
  BY DEF Misses
<1>2. /\ d \in Seq(Int) /\ DOMAIN d = 1 .. Len(c) + 1 /\ d[Len(c) + 1] = w
      /\ \A j \in DOMAIN c : d[j] = c[j]
  BY <1>0, <1>1
<1>3. DOMAIN d = DOMAIN c \cup {Len(c) + 1}
  BY <1>1, <1>2
<1>4. \A j \in DOMAIN d : d[j] <= now
  BY <1>2, <1>3 DEF Misses
<1>5. \A i, j \in DOMAIN d : d[i] = d[j] => i = j
  BY <1>2, <1>3 DEF Misses
<1> QED
  BY <1>0, <1>2, <1>4, <1>5 DEF Misses

\* What a report may count it may still count when the row is gone.
LEMMA MayStays ==
    ASSUME NEW k \in Admin!LimitKey, NEW w, limits'[k] \in {limits[k], None}, Admin!May(limits, k, w)
    PROVE  Admin!May(limits, k, w)'
<1>1. Admin!Used(limits, k, w) < Maximum[k[1]]
  BY DEF Admin!May
<1>2. Maximum[k[1]] > 0
  BY LimitsPositive
<1>3. limits'[k] = limits[k] => Admin!Used(limits', k, w) = Admin!Used(limits, k, w)
  BY DEF Admin!Used
<1>4. limits'[k] = None => Admin!Used(limits', k, w) = 0
  BY DEF Admin!Used
<1> QED
  BY <1>1, <1>2, <1>3, <1>4 DEF Admin!May

\* A step in which no report begins, goes on or is counted, and rows of reports go only if no
\* report loses one that it has looked up and that another of its window has lost.
LEMMA ReserveStays ==
    ASSUME AdminInv, CountInv, ReserveInv, missed' = missed, clock' \in Nat, clock <= clock',
           \A k \in Admin!LimitKey : \/ limits'[k] \in {limits[k], None}
                                    \/ /\ k[1] \in {"peer", "account"} /\ limits'[k].start \in Int
                                       /\ limits'[k].start > clock - (Patience + AttemptWindow),
           \A r \in Client : attempt'[r].pc \in {"total", "address"} =>
               /\ attempt'[r] = attempt[r]
               /\ \A k \in Admin!LimitKey : limits[k] # None /\ limits'[k] = None /\ k[1] # "account" =>
                      \A j \in DOMAIN missed[k] : missed[k][j] # Admin!Start(r)
    PROVE  ReserveInv'
<1>1. clock \in Nat
  BY DEF CountInv
<1>2. ASSUME NEW k \in Admin!LimitKey PROVE Misses(missed[k], limits'[k], clock')
  BY <1>1, MissesStay DEF ReserveInv
<1>3. ASSUME NEW r \in Client, attempt'[r].pc \in {"total", "address"} PROVE Reserve(r)'
  <2>1. attempt'[r] = attempt[r] /\ Reserve(r) /\ attempt[r].pc \in {"total", "address"}
    BY <1>3 DEF ReserveInv
  <2>2. attempt[r].peer \in Peer
    BY <2>1 DEF CountInv, Admin!Pending
  <2>3. Admin!Total \in Admin!LimitKey /\ Address(r) \in Admin!LimitKey
    BY <2>2 DEF Address, Admin!Total, Admin!LimitKey
  <2>4. Admin!Total[1] = "total" /\ Address(r)[1] = "address"
    BY DEF Address, Admin!Total
  <2>5. limits'[Admin!Total] \in {limits[Admin!Total], None} /\ limits'[Address(r)] \in {limits[Address(r)], None}
    BY <2>3, <2>4
  <2>6. Admin!Start(r)' = Admin!Start(r) /\ Address(r)' = Address(r)
    BY <2>1 DEF Admin!Start, Address
  <2>7. Admin!May(limits, Admin!Total, Admin!Start(r))'
    BY <2>1, <2>3, <2>5, <2>6, MayStays DEF Reserve
  <2>8. attempt[r].pc = "address" => Admin!May(limits, Address(r), Admin!Start(r))'
    BY <2>1, <2>3, <2>5, <2>6, MayStays DEF Reserve
  <2>9. ASSUME NEW k \in Admin!LimitKey, Loses(r, k)' PROVE \A j \in DOMAIN missed[k] : missed[k][j] # Admin!Start(r)
    <3>1. CASE Loses(r, k)
      BY <2>1, <3>1 DEF Reserve
    <3>2. CASE ~Loses(r, k)
      <4>1. k \in {Admin!Total, Address(r)} /\ limits'[k] = None /\ limits[k] # None
        BY <2>1, <2>6, <2>9, <3>2 DEF Loses, Admin!Gone
      <4> QED
        BY <1>3, <2>4, <4>1
    <3> QED
      BY <3>1, <3>2
  <2>10. \A q \in Client : attempt'[q].pc \in {"total", "address"} => q = r
    BY <2>1 DEF Reserve
  <2> QED
    BY <2>1, <2>5, <2>6, <2>7, <2>8, <2>9, <2>10 DEF Reserve
<1>4. \A r \in Client : Reserve(r)'
  BY <1>3 DEF Reserve
<1> QED
  BY <1>2, <1>4 DEF ReserveInv

\* A report looks up a row: it holds the lock, and has lost only what was gone already.
LEMMA ReserveSelects ==
    ASSUME AdminInv, CountInv, ReserveInv, NEW r \in Client, Admin!SelectTotal(r) \/ Admin!SelectAddress(r)
    PROVE  ReserveInv'
<1>1. attempt \in [Client -> AttemptRow] /\ UNCHANGED <<clock, limits, missed>>
  BY DEF AdminInv, Admin!SelectTotal, Admin!SelectAddress
<1>2. ASSUME NEW k, NEW pc \in {"total", "address"}, NEW lost \in SUBSET {Admin!Total}, Admin!Select(r, k, pc, lost),
             \A q \in Client : attempt[q].pc \in {"total", "address"} => q = r,
             Admin!May(limits, k, Admin!Start(r)) => Admin!May(limits, Admin!Total, Admin!Start(r)),
             pc = "total" => k = Admin!Total, pc = "address" => k = Address(r),
             pc = "address" /\ Admin!Total \in lost => limits[Admin!Total] = None /\ Loses(r, Admin!Total) /\ Reserve(r)
                                                       /\ attempt[r].pc \in {"total", "address"}
      PROVE  ReserveInv'
  <2> DEFINE x == [attempt[r] EXCEPT !.pc = pc, !.row = (limits[k] # None), !.lost = lost]
  <2>1. /\ \A q \in Client \ {r} : attempt'[q] = attempt[q]
        /\ attempt'[r] = IF Admin!May(limits, k, Admin!Start(r)) THEN x ELSE Admin!Over
    BY <1>1, <1>2 DEF Admin!Select
  <2>2. /\ x.pc = pc /\ x.row = (limits[k] # None) /\ x.lost = lost /\ x.at = attempt[r].at /\ x.peer = attempt[r].peer
        /\ Admin!Over.pc = "over"
    BY <1>1 DEF AttemptRow, Admin!Over, Admin!New
  <2> HIDE DEF x
  <2>3. ASSUME NEW q \in Client, attempt'[q].pc \in {"total", "address"} PROVE Reserve(q)'
    <3>1. q = r /\ attempt'[r] = x /\ Admin!May(limits, k, Admin!Start(r))
      BY <1>2, <2>1, <2>2, <2>3
    <3>2. Admin!Start(r)' = Admin!Start(r) /\ Address(r)' = Address(r)
      BY <2>2, <3>1 DEF Admin!Start, Address
    <3>3. \A v \in Client : attempt'[v].pc \in {"total", "address"} => v = r
      BY <1>2, <2>1
    <3>4. Admin!May(limits, Admin!Total, Admin!Start(r))' /\ (pc = "address" => Admin!May(limits, Address(r), Admin!Start(r))')
      BY <1>1, <1>2, <3>1, <3>2 DEF Admin!May, Admin!Used
    <3>5. ASSUME NEW l \in Admin!LimitKey, Loses(r, l)'
          PROVE  \A j \in DOMAIN missed[l] : missed[l][j] # Admin!Start(r)
      <4>1. l = Admin!Total /\ pc = "address" /\ Admin!Total \in lost
        BY <1>1, <1>2, <2>2, <3>1, <3>2, <3>5 DEF Loses, Admin!Gone
      <4> QED
        BY <1>2, <3>5, <4>1 DEF Reserve
    <3> QED
      BY <1>1, <1>2, <2>2, <3>1, <3>2, <3>3, <3>4, <3>5 DEF Reserve
  <2>4. \A q \in Client : Reserve(q)'
    BY <2>3 DEF Reserve
  <2> QED
    BY <1>1, <2>4 DEF ReserveInv
<1>3. CASE Admin!SelectTotal(r)
  <2>1. Admin!Select(r, Admin!Total, "total", {}) /\ \A q \in Client : attempt[q].pc \notin {"total", "address"}
    BY <1>3 DEF Admin!SelectTotal, Admin!Reserving
  <2> QED
    BY <1>2, <2>1
<1>4. CASE Admin!SelectAddress(r)
  <2>1. /\ attempt[r].pc = "total"
        /\ Admin!Select(r, Address(r), "address", IF Admin!Gone(r, Admin!Total) THEN {Admin!Total} ELSE {})
    BY <1>4 DEF Admin!SelectAddress, Address
  <2>2. Reserve(r)
    BY DEF ReserveInv
  <2>3. Admin!Gone(r, Admin!Total) => limits[Admin!Total] = None /\ Loses(r, Admin!Total)
    BY <2>1 DEF Admin!Gone, Loses
  <2>4. PICK lost \in SUBSET {Admin!Total} : /\ Admin!Select(r, Address(r), "address", lost)
                                            /\ Admin!Total \in lost => Admin!Gone(r, Admin!Total)
    BY <2>1
  <2>5. (\A q \in Client : attempt[q].pc \in {"total", "address"} => q = r) /\ Admin!May(limits, Admin!Total, Admin!Start(r))
    BY <2>1, <2>2 DEF Reserve
  <2> QED
    BY <1>2, <2>1, <2>2, <2>3, <2>4, <2>5
<1> QED
  BY <1>3, <1>4

\* A login is counted: the rows that it purges are older than any that was made since a
\* report of an open window was missed.
LEMMA ReserveLogs ==
    ASSUME AdminInv, CountInv, ReserveInv, NEW q \in Client, Admin!CountLogin(q)
    PROVE  ReserveInv'
<1>1. Admin!Pending(q) /\ UNCHANGED <<clock, missed>> /\ clock \in Nat /\ attempt \in [Client -> AttemptRow]
  BY DEF Admin!CountLogin, Admin!Pending, CountInv, AdminInv
<1>2. PICK w \in Int : w = Admin!Start(q) /\ w <= clock /\ w > clock - (Patience + AttemptWindow)
  BY <1>1, WindowOpen
<1>3. PICK keys : Admin!Count(Admin!Purged(w), keys, w) /\ \A k \in keys : k[1] \in {"peer", "account"}
  BY <1>2 DEF Admin!CountLogin
<1>4. ASSUME NEW k \in Admin!LimitKey
      PROVE  \/ k \in keys /\ limits'[k].start = w
             \/ limits'[k] = limits[k]
             \/ limits'[k] = None /\ limits[k] # None /\ limits[k].start < w - AttemptHour
  BY <1>3 DEF Admin!Count, Admin!Purged
<1>5. \A r \in Client : attempt'[r].pc \in {"total", "address"} => attempt'[r] = attempt[r]
  <2>1. attempt' = [attempt EXCEPT ![q] = Admin!Over] \/ attempt' = [attempt EXCEPT ![q].pc = "counted", ![q].read = password]
    BY DEF Admin!CountLogin
  <2> QED
    BY <1>1, <2>1 DEF Admin!Over, Admin!New, AttemptRow
<1>6. ASSUME NEW r \in Client, attempt'[r].pc \in {"total", "address"},
             NEW k \in Admin!LimitKey, limits[k] # None, limits'[k] = None, k[1] # "account", NEW j \in DOMAIN missed[k]
      PROVE  missed[k][j] # Admin!Start(r)
  <2>1. Admin!Pending(r)
    BY <1>5, <1>6 DEF Admin!Pending
  <2>2. Admin!Start(r) \in Int /\ Admin!Start(r) > clock - (Patience + AttemptWindow)
    BY <2>1, WindowOpen
  <2>3. limits[k] \in LimitRow
    BY <1>6 DEF CountInv
  <2>4. limits[k].start \in Int /\ limits[k].start < w - AttemptHour
    <3>1. ~(k \in keys /\ limits'[k].start = w)
      <4>1. k \in keys => limits'[k] \in LimitRow
        <5>1. Admin!Purged(w)[k] \in LimitRow \cup {None}
          BY <1>6, <2>3 DEF Admin!Purged
        <5>2. Admin!Used(Admin!Purged(w), k, w) \in Int
          BY <5>1 DEF Admin!Used, LimitRow
        <5> QED
          BY <1>2, <1>3, <1>6, <5>2 DEF Admin!Count, LimitRow
      <4> QED
        BY <1>6, <4>1, LimitsPositive
    <3> QED
      BY <1>4, <1>6, <2>3, <3>1 DEF LimitRow
  <2>5. missed[k] \in Seq(Int) /\ missed[k][j] \in Int /\ limits[k].start > missed[k][j] - (Patience + AttemptWindow)
    BY <1>6 DEF ReserveInv, Misses
  <2>6. PICK slack \in Nat : slack = Patience + AttemptWindow
    BY LimitsPositive
  <2>7. AttemptHour \in Nat /\ slack + slack <= AttemptHour
    BY <2>6, LimitsPositive
  <2>8. Admin!Start(r) > clock - slack /\ limits[k].start > missed[k][j] - slack
    BY <2>2, <2>5, <2>6
  <2>9. limits[k].start < clock - slack - slack
    BY <1>1, <1>2, <2>4, <2>6, <2>7
  <2> QED
    BY <1>1, <2>2, <2>4, <2>5, <2>6, <2>8, <2>9
<1> QED
  BY <1>1, <1>2, <1>3, <1>4, <1>5, <1>6, ReserveStays

\* A report commits: the rows that it has lost are not there, so it was the first of its
\* window that was not counted.
LEMMA ReserveCommits ==
    ASSUME AdminInv, CountInv, ReserveInv, NEW r \in Client, Admin!CountReport(r)
    PROVE  ReserveInv'
<1>1. attempt[r].pc = "address" /\ clock' = clock /\ clock \in Nat /\ attempt \in [Client -> AttemptRow] /\ Admin!Pending(r)
  BY DEF Admin!CountReport, Admin!Pending, CountInv, AdminInv
<1>2. PICK w \in Int : w = Admin!Start(r) /\ w <= clock /\ w > clock - (Patience + AttemptWindow)
  BY <1>1, WindowOpen
<1>3. PICK lost : lost = attempt[r].lost \cup IF Admin!Gone(r, Address(r)) THEN {Address(r)} ELSE {}
  OBVIOUS
<1>4. /\ attempt' = [attempt EXCEPT ![r] = Admin!Over] /\ Admin!Count(limits, {Admin!Total, Address(r)} \ lost, w)
      /\ missed' = [k \in Admin!LimitKey |-> IF k \in lost THEN Append(missed[k], w) ELSE missed[k]]
  BY <1>2, <1>3 DEF Admin!CountReport, Address
<1>5. Reserve(r)
  BY DEF ReserveInv
<1>6. \A q \in Client : Reserve(q)'
  <2>1. \A q \in Client : attempt'[q].pc \notin {"total", "address"}
    BY <1>1, <1>4, <1>5 DEF Reserve, Admin!Over, Admin!New
  <2> QED
    BY <2>1 DEF Reserve
<1>7. ASSUME NEW k \in Admin!LimitKey PROVE Misses(missed'[k], limits'[k], clock)
  <2>1. Misses(missed[k], limits[k], clock)
    BY DEF ReserveInv
  <2>2. CASE k \in lost
    <3>1. Loses(r, k) /\ limits[k] = None
      <4>1. attempt[r].lost \subseteq {Admin!Total}
        BY <1>1 DEF AttemptRow
      <4> QED
        BY <1>1, <1>3, <1>5, <2>2, <4>1 DEF Loses, Reserve, Admin!Gone
    <3>2. \A j \in DOMAIN missed[k] : missed[k][j] # w
      BY <1>1, <1>2, <1>5, <3>1 DEF Reserve
    <3>3. limits'[k] = None /\ missed'[k] = Append(missed[k], w)
      BY <1>4, <2>2, <3>1 DEF Admin!Count
    <3> QED
      BY <1>1, <1>2, <2>1, <3>1, <3>2, <3>3, MissesGrow
  <2>3. CASE k \notin lost
    <3>1. missed'[k] = missed[k] /\ (limits'[k] = limits[k] \/ limits'[k].start = w)
      BY <1>4, <2>3 DEF Admin!Count
    <3> QED
      BY <1>1, <1>2, <2>1, <3>1, MissesStay
  <2> QED
    BY <2>2, <2>3
<1> QED
  BY <1>1, <1>6, <1>7 DEF ReserveInv

\* Steps of requests, and those in which no report takes part.
LEMMA ReserveStep == AdminInv /\ CountInv /\ ReserveInv /\ [Admin!Next]_Admin!accountVars => ReserveInv'
<1> SUFFICES ASSUME AdminInv, CountInv, ReserveInv, [Admin!Next]_Admin!accountVars PROVE ReserveInv'
  OBVIOUS
<1>1. attempt \in [Client -> AttemptRow] /\ clock \in Nat /\ limits \in [Admin!LimitKey -> LimitRow \cup {None}]
  BY DEF AdminInv, CountInv
<1>2. CASE \/ \E s \in sessions : Admin!Use(s) \/ Admin!logout(s)
           \/ Admin!Reset \/ Admin!Tick \/ UNCHANGED Admin!accountVars
  <2>1. UNCHANGED <<limits, missed, attempt>> /\ clock' \in {clock, clock + 1}
    BY <1>2 DEF Admin!Use, Admin!logout, Admin!Reset, Admin!Tick, Admin!accountVars
  <2> QED
    BY <1>1, <2>1, ReserveStays
<1>3. ASSUME NEW r \in Client, NEW kind, NEW peer, NEW given, Admin!Come(r, kind, peer, given) PROVE ReserveInv'
  <2> DEFINE x == [Admin!New EXCEPT !.pc = "uncounted", !.kind = kind, !.peer = peer, !.at = clock, !.given = given]
  <2>1. attempt' = [attempt EXCEPT ![r] = x] /\ UNCHANGED <<clock, limits, missed>>
    BY <1>3 DEF Admin!Come
  <2>2. x.pc = "uncounted"
    BY DEF Admin!New
  <2> HIDE DEF x
  <2>3. \A q \in Client : attempt'[q].pc \in {"total", "address"} => attempt'[q] = attempt[q]
    BY <1>1, <2>1, <2>2
  <2> QED
    BY <1>1, <2>1, <2>3, ReserveStays
<1>4. ASSUME NEW r \in Client,
             Admin!Unavailable(r) \/ Admin!Hash(r) \/ Admin!Busy(r) \/ Admin!Verify(r) \/ Admin!Open(r)
      PROVE  ReserveInv'
  <2>1. /\ UNCHANGED <<clock, missed>>
        /\ limits' = limits \/ limits' = [limits EXCEPT ![<<"account", None>>] = None]
        /\ \/ attempt' = [attempt EXCEPT ![r] = Admin!Over] \/ attempt' = [attempt EXCEPT ![r].pc = "hashing"]
           \/ attempt' = [attempt EXCEPT ![r].pc = "verified"] \/ attempt' = [attempt EXCEPT ![r].pc = "open"]
    BY <1>4 DEF Admin!Unavailable, Admin!Hash, Admin!Busy, Admin!Verify, Admin!Open
  <2>2. \A q \in Client : attempt'[q].pc \in {"total", "address"} => attempt'[q] = attempt[q]
    BY <1>1, <2>1 DEF Admin!Over, Admin!New, AttemptRow
  <2>3. \A k \in Admin!LimitKey : limits'[k] = limits[k] \/ (limits'[k] = None /\ k[1] = "account")
    BY <1>1, <2>1
  <2> QED
    BY <1>1, <2>1, <2>2, <2>3, ReserveStays
<1> QED
  BY <1>2, <1>3, <1>4, ReserveSelects, ReserveLogs, ReserveCommits DEF Admin!Next

\* Requests are counted under their lock, and time goes on only as long as they may wait.
LEMMA CountStep == AdminInv /\ CountInv /\ ReserveInv /\ [Admin!Next]_Admin!accountVars => CountInv'
<1> SUFFICES ASSUME AdminInv, CountInv, ReserveInv, [Admin!Next]_Admin!accountVars PROVE CountInv'
  OBVIOUS
<1>1. attempt \in [Client -> AttemptRow]
  BY DEF AdminInv
<1>2. CASE \/ \E s \in sessions : Admin!Use(s) \/ Admin!logout(s)
           \/ Admin!Reset \/ UNCHANGED Admin!accountVars
  <2>1. UNCHANGED <<clock, limits, counted, attempt>>
    BY <1>2 DEF Admin!Use, Admin!logout, Admin!Reset, Admin!accountVars
  <2> QED
    BY <2>1, CountStays DEF Admin!Pending
<1>3. CASE Admin!Tick
  <2>1. /\ clock' = clock + 1 /\ UNCHANGED <<limits, counted, attempt>>
        /\ \A r \in Client : Admin!Pending(r) => attempt[r].at + Patience > clock
        /\ \A r \in Client : Admin!Pending(r)' <=> Admin!Pending(r)
    BY <1>3 DEF Admin!Tick, Admin!Pending
  <2>2. ASSUME NEW k \in Limited PROVE Tally(counted[k], limits[k], Maximum[k[1]], (clock + 1) - AttemptHour)
    <3>1. Tally(counted[k], limits[k], Maximum[k[1]], clock - AttemptHour) /\ Maximum[k[1]] \in Nat
      BY LimitsPositive DEF CountInv, Counts, Limited
    <3>2. clock - AttemptHour \in Int /\ (clock + 1) - AttemptHour \in Int /\ clock - AttemptHour <= (clock + 1) - AttemptHour
      BY LimitsPositive DEF CountInv
    <3> QED
      BY <3>1, <3>2, TallyForgets
  <2>3. Counts'
    <3>1. clock' - AttemptHour = (clock + 1) - AttemptHour
      BY <2>1
    <3>2. \A k \in Limited : Tally(counted'[k], limits'[k], Maximum[k[1]], clock' - AttemptHour)
      BY <2>1, <2>2, <3>1
    <3> QED
      BY <3>2 DEF Counts
  <2> QED
    BY <2>1, <2>3, LimitsPositive DEF CountInv
<1>4. ASSUME NEW r \in Client, NEW kind, NEW peer \in Peer, NEW given, Admin!Come(r, kind, peer, given) PROVE CountInv'
  <2> DEFINE x == [Admin!New EXCEPT !.pc = "uncounted", !.kind = kind, !.peer = peer, !.at = clock, !.given = given]
  <2>1. attempt' = [attempt EXCEPT ![r] = x] /\ UNCHANGED <<clock, limits, counted>>
    BY <1>4 DEF Admin!Come
  <2>2. x.at = clock /\ x.peer = peer
    BY DEF Admin!New
  <2> HIDE DEF x
  <2>3. \A q \in Client : attempt'[q] = attempt[q] \/ (attempt'[q].at = clock /\ attempt'[q].peer \in Peer)
    BY <1>1, <2>1, <2>2
  <2> QED
    BY <2>1, <2>3, CountStays DEF Admin!Pending
<1>5. ASSUME NEW r \in Client, Admin!Unavailable(r) \/ Admin!Hash(r) \/ Admin!Busy(r) \/ Admin!Verify(r) \/ Admin!Open(r)
      PROVE  CountInv'
  <2>1. /\ UNCHANGED <<clock, counted>>
        /\ limits' = limits \/ limits' = [limits EXCEPT ![<<"account", None>>] = None]
        /\ \/ attempt' = [attempt EXCEPT ![r] = Admin!Over] \/ attempt' = [attempt EXCEPT ![r].pc = "hashing"]
           \/ attempt' = [attempt EXCEPT ![r].pc = "verified"] \/ attempt' = [attempt EXCEPT ![r].pc = "open"]
    BY <1>5 DEF Admin!Unavailable, Admin!Hash, Admin!Busy, Admin!Verify, Admin!Open
  <2>2. ~Admin!Pending(r)' /\ \A q \in Client \ {r} : attempt'[q] = attempt[q]
    BY <1>1, <2>1 DEF Admin!Over, Admin!New, Admin!Pending, AttemptRow
  <2> QED
    BY <2>1, <2>2, CountStays DEF Admin!Pending
<1>6. ASSUME NEW r \in Client, Admin!SelectTotal(r) \/ Admin!SelectAddress(r) PROVE CountInv'
  <2>1. /\ Admin!Pending(r) /\ UNCHANGED <<clock, counted, limits>>
        /\ \E k, lost, pc : Admin!Select(r, k, pc, lost)
    BY <1>6 DEF Admin!SelectTotal, Admin!SelectAddress, Admin!Pending
  <2>2. PICK k, lost, pc : Admin!Select(r, k, pc, lost)
    BY <2>1
  <2>3. \/ attempt' = [attempt EXCEPT ![r] = Admin!Over]
        \/ attempt' = [attempt EXCEPT ![r] = [@ EXCEPT !.pc = pc, !.row = (limits[k] # None), !.lost = lost]]
    BY <2>2 DEF Admin!Select
  <2>4. /\ \A q \in Client \ {r} : attempt'[q] = attempt[q]
        /\ Admin!Pending(r)' => attempt'[r].at = attempt[r].at /\ attempt'[r].peer = attempt[r].peer
    BY <1>1, <2>3 DEF Admin!Over, Admin!New, Admin!Pending, AttemptRow
  <2> QED
    BY <2>1, <2>4, CountStays DEF Admin!Pending
<1>7. ASSUME NEW r \in Client, Admin!CountLogin(r) \/ Admin!CountReport(r) PROVE CountInv'
  <2>1. /\ Admin!Pending(r) /\ clock' = clock
        /\ \/ attempt' = [attempt EXCEPT ![r] = Admin!Over]
           \/ attempt' = [attempt EXCEPT ![r].pc = "counted", ![r].read = password]
    BY <1>7 DEF Admin!CountLogin, Admin!CountReport, Admin!Pending
  <2>2. ~Admin!Pending(r)' /\ \A q \in Client \ {r} : attempt'[q] = attempt[q]
    BY <1>1, <2>1 DEF Admin!Over, Admin!New, Admin!Pending, AttemptRow
  <2>3. PICK table, keys :
            /\ table \in {limits, Admin!Purged(Admin!Start(r))}
            /\ \A k \in keys : Admin!May(table, k, Admin!Start(r)) \/ k[1] = "account"
            /\ Admin!Count(table, keys, Admin!Start(r))
    <3>1. CASE Admin!CountLogin(r)
      BY <3>1 DEF Admin!CountLogin
    <3>2. CASE Admin!CountReport(r)
      <4>1. PICK keys \in SUBSET {Admin!Total, Address(r)} : Admin!Count(limits, keys, Admin!Start(r))
        BY <3>2 DEF Admin!CountReport, Address
      <4>2. Admin!May(limits, Admin!Total, Admin!Start(r)) /\ Admin!May(limits, Address(r), Admin!Start(r))
        BY <3>2 DEF Admin!CountReport, ReserveInv, Reserve
      <4> QED
        BY <4>1, <4>2
    <3> QED
      BY <1>7, <3>1, <3>2
  <2>4. limits' \in [Admin!LimitKey -> LimitRow \cup {None}] /\ Counts'
    BY <2>1, <2>3, KeysCounted
  <2>5. \A q \in Client \ {r} : Admin!Pending(q)' <=> Admin!Pending(q)
    BY <2>2 DEF Admin!Pending
  <2> QED
    BY <2>1, <2>2, <2>4, <2>5 DEF CountInv
<1> QED
  BY <1>2, <1>3, <1>4, <1>5, <1>6, <1>7 DEF Admin!Next

\* What the rows count is within the limits, but for what came late.
LEMMA CountHolds == CountInv /\ ReserveInv => Admin!AttemptsKept
<1>0. ReserveInv => \A k \in Admin!LimitKey : \A i, j \in DOMAIN missed[k] : missed[k][i] = missed[k][j] => i = j
  BY DEF ReserveInv, Misses
<1> SUFFICES ASSUME CountInv, NEW k \in Admin!LimitKey, k[1] # "account", NEW i \in DOMAIN counted[k]
             PROVE  Admin!Cardinality(Admin!InWindow(k, counted[k][i])) <= Maximum[k[1]] * (1 + Admin!Cardinality(Admin!Late(k)))
  BY <1>0 DEF Admin!AttemptsKept
<1>1. PICK c : c = counted[k]
  OBVIOUS
<1>2. PICK m \in Nat \ {0} : m = Maximum[k[1]]
  BY LimitsPositive
<1>3. Tally(c, limits[k], m, clock - AttemptHour)
  BY <1>1, <1>2 DEF CountInv, Counts, Limited
<1>4. c \in Seq(Int) /\ \A w \in Int : Cardinality(Within(c, w)) <= Delays(c, m) + m
  BY <1>3 DEF Tally
<1>5. c[i] \in Int
  BY <1>1, <1>4
<1>6. Admin!InWindow(k, c[i]) = Within(c, c[i]) /\ Admin!Late(k) = Overdue(c)
  BY <1>1 DEF Admin!InWindow, Admin!Late, Within, Overdue
<1>7. PICK late \in Nat : late = Cardinality(Overdue(c))
  BY <1>4, CountsFinite
<1>8. m \in Nat /\ (late + 1) * m = late * m + m /\ m * (1 + late) = (late + 1) * m
  BY Products
<1> QED
  BY <1>1, <1>2, <1>4, <1>5, <1>6, <1>7, <1>8, SameCount DEF Delays

\* Attempts are within their limits in every window, but for a whole limit more with each
\* request that was counted after one of a later window; and no two reports of a window
\* are let through uncounted because a login has purged the row that they had looked up.
THEOREM AttemptsAreCounted == Admin!Spec => []Admin!AttemptsKept
<1>1. AdminInv /\ CountInv /\ ReserveInv /\ [Admin!Next]_Admin!accountVars => (AdminInv /\ CountInv /\ ReserveInv)'
  BY AdminStep, CountStep, ReserveStep
<1> QED
  BY <1>1, AdminInit, CountInit, ReserveInit, CountHolds, PTL DEF Admin!Spec

-----------------------------------------------------------------------------
(***************************************************************************)
(* Natural numbers.                                                        *)
(***************************************************************************)
\* The numbers before each number.
Before == OpToRel(<, Nat)

\* A non-empty set of natural numbers has a least element.
LEMMA Least == \A S : S \subseteq Nat /\ S # {} => \E n \in S : \A m \in S : n <= m
<1> SUFFICES ASSUME NEW S, S \subseteq Nat, S # {} PROVE \E n \in S : \A m \in S : n <= m
  OBVIOUS
<1>1. PICK n \in S : \A m \in S : ~(<<m, n>> \in Before)
  BY NatLessThanWellFounded, WFMin DEF Before
<1>2. ASSUME NEW m \in S, ~(n <= m) PROVE <<m, n>> \in Before
  <2>1. m \in Nat /\ n \in Nat /\ m < n
    BY <1>2
  <2> QED
    BY <2>1 DEF OpToRel, Before
<1> QED
  BY <1>1, <1>2

\* What holds of zero, and with each number of the next, holds of all.
LEMMA Induction == \A P : 0 \in P /\ (\A n \in Nat : n \in P => n + 1 \in P) => Nat \subseteq P
<1> SUFFICES ASSUME NEW P, 0 \in P, \A n \in Nat : n \in P => n + 1 \in P, Nat \ P # {} PROVE FALSE
  OBVIOUS
<1>1. PICK n \in Nat \ P : \A m \in Nat \ P : n <= m
  BY Least
<1>2. n # 0 /\ n - 1 \in Nat
  BY <1>1
<1> QED
  BY <1>1, <1>2

-----------------------------------------------------------------------------
(***************************************************************************)
(* Public limits.                                                          *)
(***************************************************************************)
\* Times of a sequence after t, and whether they come in order.
Newer(x, t) == {i \in DOMAIN x : x[i] > t}
InOrder(x) == \A i, j \in DOMAIN x : i <= j => x[i] <= x[j]

\* Of requests: those of a key, those of them from the s-th on that were let through after
\* t, and the other keys that came between two.
AsksOf(a, k) == {n \in DOMAIN a : a[n].key = k}
LetBy(a, k, s, t) == {n \in DOMAIN a : n >= s /\ a[n].key = k /\ a[n].wait = 0 /\ a[n].at > t}
Besides(a, k, i, j) == {a[n].key : n \in i .. j} \ {k}

\* These sets are finite.
LEMMA NewerFinite ==
    ASSUME NEW x \in Seq(Nat), NEW t
    PROVE  /\ Newer(x, t) \subseteq 1 .. Len(x) /\ IsFiniteSet(Newer(x, t))
           /\ Cardinality(Newer(x, t)) \in Nat /\ Cardinality(Newer(x, t)) <= Len(x)
<1>1. IsFiniteSet(1 .. Len(x)) /\ Cardinality(1 .. Len(x)) = Len(x)
  <2>1. PICK n \in Nat : n = Len(x)
    OBVIOUS
  <2>2. IsFiniteSet(1 .. n) /\ Cardinality(1 .. n) = n
    BY FS_Interval
  <2> QED
    BY <2>1, <2>2
<1>2. Newer(x, t) \in SUBSET (1 .. Len(x))
  BY DEF Newer
<1>3. IsFiniteSet(Newer(x, t)) /\ Cardinality(Newer(x, t)) <= Cardinality(1 .. Len(x))
  BY <1>1, <1>2, FS_Subset
<1> QED
  BY <1>1, <1>2, <1>3, FS_CardinalityType

\* These sets of requests are finite.
LEMMA AsksFinite ==
    ASSUME NEW S, NEW a \in Seq(S), NEW k, NEW s, NEW t
    PROVE  IsFiniteSet(LetBy(a, k, s, t)) /\ Cardinality(LetBy(a, k, s, t)) \in Nat
<1>1. IsFiniteSet(DOMAIN a)
  BY FS_Interval
<1>2. LetBy(a, k, s, t) \subseteq DOMAIN a
  BY DEF LetBy
<1> QED
  BY <1>1, <1>2, FS_Subset, FS_CardinalityType

\* The keys between two requests are finitely many.
LEMMA BesidesFinite ==
    ASSUME NEW S, NEW a \in Seq(S), NEW k, NEW i \in Int, NEW j \in Int
    PROVE  IsFiniteSet(Besides(a, k, i, j)) /\ Cardinality(Besides(a, k, i, j)) \in Nat
<1> DEFINE T == {a[n].key : n \in i .. j}
<1>1. IsFiniteSet(i .. j)
  BY FS_Interval
<1>2. [n \in i .. j |-> a[n].key] \in Surjection(i .. j, T)
  BY DEF Surjection
<1>3. IsFiniteSet(T)
  BY <1>1, <1>2, FS_Surjection
<1>4. IsFiniteSet(T \ {k})
  BY <1>3, FS_Subset
<1> QED
  BY <1>4, FS_CardinalityType DEF Besides

\* What came between two requests does not change.
LEMMA BesidesKept ==
    ASSUME NEW S, NEW a \in Seq(S), NEW r \in S, NEW k, NEW i \in DOMAIN a, NEW j \in DOMAIN a
    PROVE  Besides(Append(a, r), k, i, j) = Besides(a, k, i, j)
<1>0. PICK b : b = Append(a, r)
  OBVIOUS
<1>1. (\A n \in DOMAIN a : b[n] = a[n]) /\ i .. j \subseteq DOMAIN a
  BY <1>0
<1>2. \A n \in i .. j : b[n] = a[n]
  BY <1>1
<1>3. {b[n].key : n \in i .. j} = {a[n].key : n \in i .. j}
  BY <1>2
<1> QED
  BY <1>0, <1>3 DEF Besides

\* With one request more, no fewer keys came since.
LEMMA BesidesGrow ==
    ASSUME NEW S, NEW a \in Seq(S), NEW r \in S, NEW k, NEW i \in DOMAIN a
    PROVE  Cardinality(Besides(a, k, i, Len(a))) <= Cardinality(Besides(Append(a, r), k, i, Len(a) + 1))
<1>0. PICK b : b = Append(a, r)
  OBVIOUS
<1>1. PICK l \in Nat : l = Len(a)
  OBVIOUS
<1>2. /\ DOMAIN a = 1 .. l /\ (\A n \in DOMAIN a : b[n] = a[n]) /\ i .. l \subseteq i .. l + 1 /\ i .. l \subseteq DOMAIN a
      /\ i \in Int /\ l + 1 \in Int
  BY <1>0, <1>1
<1>3. \A n \in i .. l : b[n] = a[n] /\ n \in i .. l + 1
  BY <1>2
<1>4. Besides(a, k, i, l) \subseteq Besides(b, k, i, l + 1)
  BY <1>3 DEF Besides
<1>5. b \in Seq(S)
  BY <1>0
<1>6. IsFiniteSet(Besides(b, k, i, l + 1))
  BY <1>2, <1>5, BesidesFinite
<1> QED
  BY <1>0, <1>1, <1>4, <1>6, FS_Subset

\* One more time is counted if it is later.
LEMMA NewerGrows ==
    ASSUME NEW x \in Seq(Nat), NEW c \in Nat, NEW t \in Int
    PROVE  Cardinality(Newer(Append(x, c), t)) = Cardinality(Newer(x, t)) + (IF c > t THEN 1 ELSE 0)
<1>0. PICK y : y = Append(x, c)
  OBVIOUS
<1>1. /\ Len(x) \in Nat /\ DOMAIN x = 1 .. Len(x) /\ DOMAIN y = 1 .. Len(x) + 1
      /\ (\A n \in DOMAIN x : y[n] = x[n]) /\ y[Len(x) + 1] = c
  BY <1>0
<1>2. PICK n : n = Len(x) + 1
  OBVIOUS
<1>3. n \notin Newer(x, t) /\ Newer(y, t) = IF c > t THEN Newer(x, t) \cup {n} ELSE Newer(x, t)
  BY <1>1, <1>2 DEF Newer
<1>4. IsFiniteSet(Newer(x, t)) /\ Cardinality(Newer(x, t)) \in Nat
  BY NewerFinite
<1>5. Cardinality(Newer(x, t) \cup {n}) = Cardinality(Newer(x, t)) + 1
  BY <1>3, <1>4, FS_AddElement
<1> QED
  BY <1>0, <1>3, <1>4, <1>5

\* One more request is counted if it is of the key, was let through, and is later.
LEMMA LetGrows ==
    ASSUME NEW S, NEW a \in Seq(S), NEW r \in S, NEW k, NEW s \in 1 .. Len(a) + 1, NEW t
    PROVE  Cardinality(LetBy(Append(a, r), k, s, t)) =
               Cardinality(LetBy(a, k, s, t)) + (IF r.key = k /\ r.wait = 0 /\ r.at > t THEN 1 ELSE 0)
<1>0. PICK b : b = Append(a, r)
  OBVIOUS
<1>1. /\ Len(a) \in Nat /\ DOMAIN a = 1 .. Len(a) /\ DOMAIN b = 1 .. Len(a) + 1
      /\ (\A n \in DOMAIN a : b[n] = a[n]) /\ b[Len(a) + 1] = r
  BY <1>0
<1>2. PICK n : n = Len(a) + 1
  OBVIOUS
<1>3. n \notin LetBy(a, k, s, t)
  BY <1>1, <1>2 DEF LetBy
<1>4. r.key = k /\ r.wait = 0 /\ r.at > t => LetBy(b, k, s, t) = LetBy(a, k, s, t) \cup {n}
  BY <1>1, <1>2 DEF LetBy
<1>5. ~(r.key = k /\ r.wait = 0 /\ r.at > t) => LetBy(b, k, s, t) = LetBy(a, k, s, t)
  BY <1>1, <1>2 DEF LetBy
<1>6. IsFiniteSet(LetBy(a, k, s, t)) /\ Cardinality(LetBy(a, k, s, t)) \in Nat
  BY AsksFinite
<1>7. Cardinality(LetBy(a, k, s, t) \cup {n}) = Cardinality(LetBy(a, k, s, t)) + 1
  BY <1>3, <1>6, FS_AddElement
<1>8. CASE r.key = k /\ r.wait = 0 /\ r.at > t
  BY <1>0, <1>4, <1>7, <1>8
<1>9. CASE ~(r.key = k /\ r.wait = 0 /\ r.at > t)
  BY <1>0, <1>5, <1>6, <1>9
<1> QED
  BY <1>8, <1>9

\* The times that remain when the first ones leave: those after any time that none of the
\* first ones exceeds.
LEMMA NewerShift ==
    ASSUME NEW x \in Seq(Nat), NEW g \in 0 .. Len(x), NEW y, y = SubSeq(x, g + 1, Len(x)), NEW t \in Int
    PROVE  /\ Cardinality(Newer(y, t)) <= Cardinality(Newer(x, t))
           /\ (\A i \in 1 .. g : x[i] <= t) => Cardinality(Newer(x, t)) = Cardinality(Newer(y, t))
<1>1. PICK m \in Nat : m = Len(x)
  OBVIOUS
<1>2. g \in Nat /\ g <= m /\ DOMAIN x = 1 .. m /\ \A i \in 1 .. m : x[i] \in Nat
  BY <1>1
<1>3. PICK n \in Nat : n = m - g
  BY <1>2
<1>4. y \in Seq(Nat) /\ DOMAIN y = 1 .. n /\ \A i \in 1 .. n : g + i \in 1 .. m /\ y[i] = x[g + i]
  <2>1. g + 1 \in Int /\ m \in Int /\ \A i \in g + 1 .. m : x[i] \in Nat
    BY <1>2
  <2>2. /\ y \in Seq(Nat) /\ Len(y) = IF g + 1 <= m THEN m - (g + 1) + 1 ELSE 0
        /\ \A i \in 1 .. m - (g + 1) + 1 : y[i] = x[(g + 1) + i - 1]
    BY <1>1, <2>1, SubSeqProperties
  <2>3. m - (g + 1) + 1 = n /\ (g + 1 <= m <=> n > 0)
    BY <1>2, <1>3
  <2>4. Len(y) = n
    BY <2>2, <2>3
  <2>5. \A i \in 1 .. n : g + i \in 1 .. m /\ (g + 1) + i - 1 = g + i
    BY <1>2, <1>3
  <2>6. DOMAIN y = 1 .. n
    BY <2>2, <2>4
  <2> QED
    BY <2>2, <2>3, <2>5, <2>6
<1>5. IsFiniteSet(Newer(x, t)) /\ IsFiniteSet(Newer(y, t))
  BY <1>4, NewerFinite
<1> DEFINE f == [i \in Newer(y, t) |-> g + i]
<1>6. f \in Injection(Newer(y, t), Newer(x, t))
  <2>1. \A i \in Newer(y, t) : g + i \in Newer(x, t)
    BY <1>2, <1>4 DEF Newer
  <2>2. \A i \in Newer(y, t) : i \in Int
    BY <1>4 DEF Newer
  <2>3. \A i, j \in Newer(y, t) : g + i = g + j => i = j
    BY <1>2, <2>2
  <2> QED
    BY <2>1, <2>3 DEF Injection, IsInjective
<1>7. ASSUME \A i \in 1 .. g : x[i] <= t PROVE f \in Surjection(Newer(y, t), Newer(x, t))
  <2> SUFFICES ASSUME NEW j \in Newer(x, t) PROVE \E i \in Newer(y, t) : f[i] = j
    BY <1>6 DEF Surjection, Injection
  <2>1. j \in 1 .. m /\ x[j] > t /\ x[j] \in Nat
    BY <1>2 DEF Newer
  <2>2. j > g
    BY <1>2, <1>7, <2>1
  <2>3. j - g \in 1 .. n /\ g + (j - g) = j
    BY <1>2, <1>3, <2>1, <2>2
  <2>4. j - g \in Newer(y, t)
    BY <1>4, <2>1, <2>3 DEF Newer
  <2> QED
    BY <2>3, <2>4
<1> HIDE DEF f
<1> QED
  BY <1>5, <1>6, <1>7, FS_Injection

\* Keys of the requests that are counted, rows of the tracked keys, and requests.
PublicKey == {<<Path[path], client>> : path \in {p \in DOMAIN Path : Path[p] # "none"}, client \in Request}
\* Windows and limits are positive.
LEMMA PublicNumbers ==
    /\ LimitWindow \in Nat \ {0} /\ MaxTracked \in Nat \ {0} /\ QuotaDay \in Nat \ {0} /\ DailyLimit \in Nat
    /\ \A k \in PublicKey : PublicLimit[k[1]] \in Nat \ {0}
BY LimitAssumption DEF PublicKey

HitRow == [key : PublicKey, at : Seq(Nat)]
AskRow == [key : PublicKey, at : Nat, wait : Nat]

\* Of tracked keys h and requests a: keys are tracked once, and one that comes before
\* another has been unused for longer.
Lined(h, a) ==
    /\ h \in Seq(HitRow) /\ Len(h) <= MaxTracked
    /\ \A i, j \in DOMAIN h : h[i].key = h[j].key => i = j
    /\ \A i, j \in DOMAIN h : i < j => \A n \in AsksOf(a, h[i].key) : \E m \in DOMAIN a : m > n /\ a[m].key = h[j].key
    /\ \A i \in DOMAIN h : AsksOf(a, h[i].key) # {}

Untracked(h, k) == \A i \in DOMAIN h : h[i].key # k

\* A key that is not tracked was followed by as many others.
Crowded(h, a) ==
    \A k : Untracked(h, k) => \A n \in AsksOf(a, k) : Cardinality(Besides(a, k, n, Len(a))) >= MaxTracked

\* What was let through since the last time the key was forgotten is within the limit, and
\* is counted as long as the key is tracked.
Since(h, a, k, now) ==
    \E s \in AsksOf(a, k) :
        /\ \A n \in AsksOf(a, k) : n < s => Cardinality(Besides(a, k, n, s)) >= MaxTracked
        /\ Cardinality(LetBy(a, k, s, now - LimitWindow)) <= PublicLimit[k[1]]
        /\ \A i \in DOMAIN h : h[i].key = k => \A t \in Int : t >= now - LimitWindow =>
               Cardinality(LetBy(a, k, s, t)) <= Cardinality(Newer(h[i].at, t))

\* The times of a tracked key are in order, past, and no more than its limit; when the
\* wait it was last told is over, they are fewer.
Timed(e, now) ==
    InOrder(e.at) /\ (\A i \in DOMAIN e.at : e.at[i] <= now) /\ Len(e.at) <= PublicLimit[e.key[1]]
Awaited(e, a) ==
    \A n \in AsksOf(a, e.key) : a[n].wait > 0 /\ (\A m \in AsksOf(a, e.key) : m > n => a[m].wait > 0) =>
        Cardinality(Newer(e.at, (a[n].at + a[n].wait) - LimitWindow)) < PublicLimit[e.key[1]]

\* Who waited as told was let through.
Told(a) ==
    \A i, j \in DOMAIN a :
        /\ i < j /\ a[i].key = a[j].key /\ a[i].wait > 0 /\ a[j].at >= a[i].at + a[i].wait
        /\ \A n \in i .. j - 1 : a[n].key = a[i].key => a[n].wait > 0
        => a[j].wait = 0

\* What a request of key k makes of the tracked keys h: they are moved up to g, k with its
\* times y comes last, and at most the first is lost; x are the times k had.
Moves(h, g, k, x, y) ==
    /\ g \in Seq(HitRow) /\ Len(g) \in 1 .. MaxTracked /\ g[Len(g)] = [key |-> k, at |-> y]
    /\ \E f \in [1 .. Len(g) - 1 -> DOMAIN h] :
           /\ \A i, j \in 1 .. Len(g) - 1 : i < j => f[i] < f[j]
           /\ \A j \in 1 .. Len(g) - 1 : g[j] = h[f[j]] /\ g[j].key # k
    /\ \A i \in DOMAIN h : \/ h[i].key = k /\ h[i].at = x
                           \/ \E j \in 1 .. Len(g) - 1 : g[j] = h[i]
                           \/ i = 1 /\ Len(h) = MaxTracked /\ Untracked(h, k)
    /\ x \in Seq(Nat) /\ (Untracked(h, k) => x = <<>>)

\* What it makes of the times of a key with limit m: w is the wait it is told.
Slides(x, y, w, now, m) ==
    /\ y \in Seq(Nat) /\ InOrder(y) /\ (\A i \in DOMAIN y : y[i] <= now) /\ Len(y) <= m /\ w \in Nat
    /\ \A t \in Int : t >= now - LimitWindow =>
           Cardinality(Newer(x, t)) + (IF w = 0 /\ now > t THEN 1 ELSE 0) <= Cardinality(Newer(y, t))
    /\ w > 0 => /\ \A t \in Int : Cardinality(Newer(y, t)) <= Cardinality(Newer(x, t))
                /\ Cardinality(Newer(y, (now + w) - LimitWindow)) < m
                /\ \A t \in Int : t <= now - LimitWindow => Cardinality(Newer(x, t)) >= m

\* b is a with one more request r.
Follows(a, r, b) ==
    /\ a \in Seq(AskRow) /\ r \in AskRow /\ b = Append(a, r)
    /\ Len(a) \in Nat /\ DOMAIN a = 1 .. Len(a) /\ b \in Seq(AskRow) /\ Len(b) = Len(a) + 1
    /\ DOMAIN b = DOMAIN a \cup {Len(a) + 1} /\ b[Len(a) + 1] = r /\ \A n \in DOMAIN a : b[n] = a[n] /\ n < Len(a) + 1
    /\ AsksOf(b, r.key) = AsksOf(a, r.key) \cup {Len(a) + 1}
    /\ \A q : q # r.key => AsksOf(b, q) = AsksOf(a, q)

\* A request that comes follows the others.
LEMMA AskLast ==
    ASSUME NEW a \in Seq(AskRow), NEW r \in AskRow
    PROVE  Follows(a, r, Append(a, r))
<1>0. PICK b : b = Append(a, r)
  OBVIOUS
<1>1. /\ Len(a) \in Nat /\ DOMAIN a = 1 .. Len(a) /\ b \in Seq(AskRow) /\ Len(b) = Len(a) + 1 /\ DOMAIN b = 1 .. Len(a) + 1
      /\ (\A n \in DOMAIN a : n \in DOMAIN b /\ b[n] = a[n] /\ n < Len(a) + 1) /\ b[Len(a) + 1] = r
  BY <1>0
<1>2. DOMAIN b = DOMAIN a \cup {Len(a) + 1}
  BY <1>1
<1>3. AsksOf(b, r.key) = AsksOf(a, r.key) \cup {Len(a) + 1} /\ \A q : q # r.key => AsksOf(b, q) = AsksOf(a, q)
  BY <1>1, <1>2 DEF AsksOf
<1> QED
  BY <1>0, <1>1, <1>2, <1>3 DEF Follows

\* The line is kept.
LEMMA LinedStep ==
    ASSUME NEW h, NEW g, NEW k, NEW x, NEW y, NEW a, NEW r, r.key = k, NEW b, Follows(a, r, b),
           Lined(h, a), Moves(h, g, k, x, y)
    PROVE  Lined(g, b)
<1>1. PICK l \in Nat : l = Len(g) - 1
  BY PublicNumbers DEF Moves
<1>2. /\ g \in Seq(HitRow) /\ Len(g) <= MaxTracked /\ DOMAIN g = 1 .. l + 1 /\ g[l + 1].key = k /\ Len(g) = l + 1
      /\ \A i \in DOMAIN g : i \in 1 .. l \/ i = l + 1
  BY <1>1 DEF Moves
<1>3. PICK f \in [1 .. l -> DOMAIN h] :
          /\ \A i, j \in 1 .. l : i < j => f[i] < f[j]
          /\ \A j \in 1 .. l : g[j] = h[f[j]] /\ g[j].key # k
  BY <1>1 DEF Moves
<1>4. /\ \A i, j \in DOMAIN h : h[i].key = h[j].key => i = j
      /\ \A i \in DOMAIN h : AsksOf(a, h[i].key) # {}
      /\ DOMAIN h \subseteq Int
  BY DEF Lined
<1>11. \A i, j \in DOMAIN h : i < j => \A o \in AsksOf(a, h[i].key) : \E m \in DOMAIN a : m > o /\ a[m].key = h[j].key
  BY DEF Lined
<1>5. PICK n \in Nat : n = Len(a)
  BY DEF Follows
<1>6. /\ DOMAIN a = 1 .. n /\ (\A i \in DOMAIN a : i \in DOMAIN b /\ b[i] = a[i] /\ i < n + 1) /\ b[n + 1] = r /\ n + 1 \in DOMAIN b
      /\ AsksOf(b, k) = AsksOf(a, k) \cup {n + 1} /\ \A q : q # k => AsksOf(b, q) = AsksOf(a, q)
  BY <1>5 DEF Follows
<1>7. \A i \in 1 .. l : f[i] \in DOMAIN h /\ AsksOf(b, g[i].key) = AsksOf(a, h[f[i]].key)
  BY <1>3, <1>6
<1>8. ASSUME NEW i \in DOMAIN g, NEW j \in DOMAIN g, g[i].key = g[j].key PROVE i = j
  <2>1. CASE i \in 1 .. l /\ j \in 1 .. l
    <3>1. f[i] = f[j]
      BY <1>3, <1>4, <1>8, <2>1
    <3>2. ~(i < j) /\ ~(j < i)
      BY <1>3, <1>4, <2>1, <3>1
    <3> QED
      BY <2>1, <3>2
  <2> QED
    BY <1>2, <1>3, <1>8, <2>1
<1>9. ASSUME NEW i \in DOMAIN g, NEW j \in DOMAIN g, i < j, NEW o \in AsksOf(b, g[i].key)
      PROVE  \E m \in DOMAIN b : m > o /\ b[m].key = g[j].key
  <2>1. i \in 1 .. l
    BY <1>2, <1>9
  <2>2. o \in AsksOf(a, h[f[i]].key) /\ o \in DOMAIN a
    BY <1>7, <1>9, <2>1 DEF AsksOf
  <2>3. CASE j \in 1 .. l
    <3>1. f[i] < f[j]
      BY <1>3, <1>9, <2>1, <2>3
    <3>2. f[i] \in DOMAIN h /\ f[j] \in DOMAIN h
      BY <1>7, <2>1, <2>3
    <3>3. PICK m \in DOMAIN a : m > o /\ a[m].key = h[f[j]].key
      BY <1>11, <2>2, <3>1, <3>2
    <3> QED
      BY <1>3, <1>6, <2>3, <3>3
  <2>4. CASE j = l + 1
    <3>1. n + 1 > o
      BY <1>6, <2>2
    <3> QED
      BY <1>2, <1>6, <2>4, <3>1
  <2> QED
    BY <1>2, <2>3, <2>4
<1>10. ASSUME NEW i \in DOMAIN g PROVE AsksOf(b, g[i].key) # {}
  <2>1. CASE i \in 1 .. l
    BY <1>4, <1>7, <2>1
  <2>2. CASE i = l + 1
    BY <1>2, <1>6, <2>2
  <2> QED
    BY <1>2, <2>1, <2>2
<1> QED
  BY <1>2, <1>8, <1>9, <1>10 DEF Lined

\* A key that is lost from the line was followed by the keys after it, and by the one that
\* comes.
LEMMA CrowdedStep ==
    ASSUME NEW h, NEW g, NEW k, NEW x, NEW y, NEW a, NEW r, r.key = k, NEW b, Follows(a, r, b),
           Lined(h, a), Crowded(h, a), Moves(h, g, k, x, y)
    PROVE  Crowded(g, b)
<1> SUFFICES ASSUME NEW q, Untracked(g, q), NEW n \in AsksOf(b, q)
             PROVE  Cardinality(Besides(b, q, n, Len(b))) >= MaxTracked
  BY DEF Crowded
<1>1. PICK l \in Nat : l = Len(a)
  BY DEF Follows
<1>2. /\ a \in Seq(AskRow) /\ r \in AskRow /\ b = Append(a, r) /\ b \in Seq(AskRow) /\ DOMAIN a = 1 .. l /\ Len(b) = l + 1
      /\ b[l + 1] = r /\ (\A i \in DOMAIN a : b[i] = a[i]) /\ \A p : p # k => AsksOf(b, p) = AsksOf(a, p)
  BY <1>1 DEF Follows
<1>3. q # k
  <2>1. Len(g) \in DOMAIN g /\ g[Len(g)].key = k
    BY PublicNumbers DEF Moves
  <2> QED
    BY <2>1 DEF Untracked
<1>4. n \in AsksOf(a, q) /\ n \in DOMAIN a /\ n \in Int
  BY <1>2, <1>3 DEF AsksOf
<1>5. IsFiniteSet(Besides(b, q, n, l + 1)) /\ Cardinality(Besides(b, q, n, l + 1)) \in Nat
  <2>1. l + 1 \in Int
    OBVIOUS
  <2> QED
    BY <1>2, <1>4, <2>1, BesidesFinite
<1>6. CASE Untracked(h, q)
  <2>1. Cardinality(Besides(a, q, n, l)) >= MaxTracked
    BY <1>1, <1>4, <1>6 DEF Crowded
  <2>2. Cardinality(Besides(a, q, n, Len(a))) <= Cardinality(Besides(Append(a, r), q, n, Len(a) + 1))
    BY <1>2, <1>4, BesidesGrow
  <2>3. Cardinality(Besides(a, q, n, l)) \in Nat
    <3>1. l \in Int
      OBVIOUS
    <3> QED
      BY <1>2, <1>4, <3>1, BesidesFinite
  <2> QED
    BY <1>1, <1>2, <1>5, <2>1, <2>2, <2>3, PublicNumbers
<1>7. CASE ~Untracked(h, q)
  <2>1. PICK i \in DOMAIN h : h[i].key = q
    BY <1>7 DEF Untracked
  <2>2. i = 1 /\ Len(h) = MaxTracked /\ Untracked(h, k)
    <3>1. ASSUME NEW j \in 1 .. Len(g) - 1, g[j] = h[i] PROVE FALSE
      <4>1. Len(g) \in Nat /\ DOMAIN g = 1 .. Len(g)
        BY PublicNumbers DEF Moves
      <4>2. j \in DOMAIN g
        BY <4>1
      <4> QED
        BY <2>1, <3>1, <4>2 DEF Untracked
    <3> QED
      BY <1>3, <2>1, <3>1 DEF Moves
  <2>3. /\ DOMAIN h = 1 .. MaxTracked /\ (\A j, m \in DOMAIN h : h[j].key = h[m].key => j = m)
        /\ \A j \in DOMAIN h : j > 1 => \E m \in DOMAIN a : m > n /\ a[m].key = h[j].key
    <3>1. DOMAIN h = 1 .. MaxTracked /\ \A j, m \in DOMAIN h : h[j].key = h[m].key => j = m
      BY <2>2 DEF Lined
    <3>2. \A j \in DOMAIN h : i < j => \A o \in AsksOf(a, h[i].key) : \E m \in DOMAIN a : m > o /\ a[m].key = h[j].key
      BY DEF Lined
    <3> QED
      BY <1>4, <2>1, <2>2, <3>1, <3>2
  <2> DEFINE T == {h[j].key : j \in DOMAIN h}
             U == T \ {q}
             V == U \cup {k}
  <2>4. IsFiniteSet(T) /\ Cardinality(T) = MaxTracked
    <3>1. [j \in DOMAIN h |-> h[j].key] \in Bijection(DOMAIN h, T)
      BY <2>3 DEF Bijection, Injection, Surjection, IsInjective
    <3>2. IsFiniteSet(1 .. MaxTracked) /\ Cardinality(1 .. MaxTracked) = MaxTracked
      BY FS_Interval, PublicNumbers
    <3> QED
      BY <2>3, <3>1, <3>2, FS_Bijection DEF ExistsBijection
  <2>5. q \in T /\ k \notin T
    BY <2>1, <2>2 DEF Untracked
  <2>6. V \subseteq Besides(b, q, n, l + 1)
    <3>1. k \in Besides(b, q, n, l + 1)
      BY <1>2, <1>3, <1>4 DEF Besides
    <3>2. ASSUME NEW j \in DOMAIN h, h[j].key # q PROVE h[j].key \in Besides(b, q, n, l + 1)
      <4>1. j > 1
        BY <2>1, <2>2, <2>3, <3>2
      <4>2. PICK m \in DOMAIN a : m > n /\ a[m].key = h[j].key
        BY <2>3, <4>1
      <4>3. m \in n .. l + 1 /\ b[m].key = h[j].key
        BY <1>2, <1>4, <4>2
      <4> QED
        BY <3>2, <4>3 DEF Besides
    <3> QED
      BY <3>1, <3>2
  <2>7. PICK t, u, v : t = T /\ u = t \ {q} /\ v = u \cup {k} /\ v = V
    OBVIOUS
  <2> HIDE DEF T, U, V
  <2>8. IsFiniteSet(t) /\ Cardinality(t) = MaxTracked /\ q \in t /\ k \notin u
    BY <2>4, <2>5, <2>7
  <2>9. IsFiniteSet(u) /\ Cardinality(u) = MaxTracked - 1
    BY <2>7, <2>8, FS_RemoveElement
  <2>10. Cardinality(v) = MaxTracked
    <3>1. Cardinality(u \cup {k}) = Cardinality(u) + 1
      BY <2>8, <2>9, FS_AddElement
    <3> QED
      BY <2>7, <2>9, <3>1, PublicNumbers
  <2>11. Cardinality(v) <= Cardinality(Besides(b, q, n, l + 1))
    BY <1>5, <2>6, <2>7, FS_Subset
  <2> QED
    BY <1>2, <1>5, <2>10, <2>11, PublicNumbers
<1> QED
  BY <1>6, <1>7

\* What was let through is counted, and what was forgotten began anew.
LEMMA SinceStep ==
    ASSUME NEW h, NEW g, NEW k \in PublicKey, NEW x, NEW y, NEW a, NEW r, r.key = k, NEW b, Follows(a, r, b),
           NEW now \in Nat, NEW w, r.at = now, r.wait = w, Slides(x, y, w, now, PublicLimit[k[1]]),
           Lined(h, a), Crowded(h, a), Moves(h, g, k, x, y), \A q : AsksOf(a, q) # {} => Since(h, a, q, now)
    PROVE  \A q : AsksOf(b, q) # {} => Since(g, b, q, now)
<1>1. PICK l \in Nat : l = Len(a)
  BY DEF Follows
<1>2. /\ a \in Seq(AskRow) /\ r \in AskRow /\ b = Append(a, r) /\ b \in Seq(AskRow) /\ DOMAIN a = 1 .. l /\ Len(b) = l + 1
      /\ AsksOf(b, k) = AsksOf(a, k) \cup {l + 1} /\ \A q : q # k => AsksOf(b, q) = AsksOf(a, q)
  BY <1>1 DEF Follows
<1>3. PICK p \in Nat : p = Len(g) - 1
  BY PublicNumbers DEF Moves
<1>4. /\ DOMAIN g = 1 .. p + 1 /\ Len(g) = p + 1 /\ g[p + 1].key = k /\ g[p + 1].at = y
      /\ (\A i \in DOMAIN g : i \in 1 .. p \/ i = p + 1)
      /\ \A i \in 1 .. p : g[i].key # k /\ \E j \in DOMAIN h : g[i] = h[j]
  <2>1. DOMAIN g = 1 .. p + 1 /\ Len(g) = p + 1 /\ g[p + 1].key = k /\ g[p + 1].at = y
    BY <1>3, PublicNumbers DEF Moves
  <2>2. PICK f \in [1 .. p -> DOMAIN h] : \A j \in 1 .. p : g[j] = h[f[j]] /\ g[j].key # k
    BY <1>3 DEF Moves
  <2> QED
    BY <2>1, <2>2
<1>5. PICK m \in Nat : m = PublicLimit[k[1]]
  BY PublicNumbers
<1>6. now - LimitWindow \in Int
  BY PublicNumbers
<1>7. ASSUME NEW q, q # k, AsksOf(b, q) # {} PROVE Since(g, b, q, now)
  <2>1. PICK s \in AsksOf(a, q) :
            /\ \A n \in AsksOf(a, q) : n < s => Cardinality(Besides(a, q, n, s)) >= MaxTracked
            /\ Cardinality(LetBy(a, q, s, now - LimitWindow)) <= PublicLimit[q[1]]
            /\ \A i \in DOMAIN h : h[i].key = q => \A t \in Int : t >= now - LimitWindow =>
                   Cardinality(LetBy(a, q, s, t)) <= Cardinality(Newer(h[i].at, t))
    BY <1>2, <1>7 DEF Since
  <2>2. s \in 1 .. Len(a) + 1 /\ s \in DOMAIN a
    BY <1>1, <1>2 DEF AsksOf
  <2>3. \A t \in Int : Cardinality(LetBy(b, q, s, t)) = Cardinality(LetBy(a, q, s, t))
    <3> SUFFICES ASSUME NEW t \in Int PROVE Cardinality(LetBy(b, q, s, t)) = Cardinality(LetBy(a, q, s, t))
      OBVIOUS
    <3>1. Cardinality(LetBy(Append(a, r), q, s, t)) =
              Cardinality(LetBy(a, q, s, t)) + (IF r.key = q /\ r.wait = 0 /\ r.at > t THEN 1 ELSE 0)
      BY <1>2, <2>2, LetGrows
    <3>2. Cardinality(LetBy(a, q, s, t)) \in Nat
      BY <1>2, AsksFinite
    <3> QED
      BY <1>2, <1>7, <3>1, <3>2
  <2>4. ASSUME NEW n \in AsksOf(b, q), n < s PROVE Cardinality(Besides(b, q, n, s)) >= MaxTracked
    <3>1. n \in AsksOf(a, q) /\ n \in DOMAIN a
      BY <1>2, <1>7 DEF AsksOf
    <3>2. Besides(b, q, n, s) = Besides(a, q, n, s)
      BY <1>2, <2>2, <3>1, BesidesKept
    <3> QED
      BY <2>1, <2>4, <3>1, <3>2
  <2>5. ASSUME NEW i \in DOMAIN g, g[i].key = q, NEW t \in Int, t >= now - LimitWindow
        PROVE  Cardinality(LetBy(b, q, s, t)) <= Cardinality(Newer(g[i].at, t))
    <3>1. PICK j \in DOMAIN h : g[i] = h[j]
      BY <1>4, <1>7, <2>5
    <3> QED
      BY <2>1, <2>3, <2>5, <3>1
  <2>6. s \in AsksOf(b, q) /\ Cardinality(LetBy(b, q, s, now - LimitWindow)) <= PublicLimit[q[1]]
    BY <1>2, <1>6, <1>7, <2>1, <2>3
  <2> QED
    BY <2>4, <2>5, <2>6 DEF Since
<1>8. PICK s \in 1 .. l + 1 :
          /\ s \in AsksOf(b, k)
          /\ \A n \in AsksOf(b, k) : n < s => Cardinality(Besides(b, k, n, s)) >= MaxTracked
          /\ \A t \in Int : t >= now - LimitWindow => Cardinality(LetBy(a, k, s, t)) <= Cardinality(Newer(x, t))
  <2>1. CASE ~Untracked(h, k)
    <3>1. PICK i \in DOMAIN h : h[i].key = k
      BY <2>1 DEF Untracked
    <3>2. h[i].at = x
      <4>1. ASSUME NEW j \in 1 .. p, g[j] = h[i] PROVE FALSE
        BY <1>4, <3>1, <4>1
      <4>2. \A j \in DOMAIN h : h[j].key = k => j = i
        BY <3>1 DEF Lined
      <4>3. \/ h[i].key = k /\ h[i].at = x
            \/ \E j \in 1 .. p : g[j] = h[i]
            \/ Untracked(h, k)
        BY <1>3, <1>4 DEF Moves
      <4> QED
        BY <2>1, <4>1, <4>3
    <3>3. AsksOf(a, k) # {}
      BY <3>1 DEF Lined
    <3>4. PICK s \in AsksOf(a, k) :
            /\ \A n \in AsksOf(a, k) : n < s => Cardinality(Besides(a, k, n, s)) >= MaxTracked
            /\ \A t \in Int : t >= now - LimitWindow => Cardinality(LetBy(a, k, s, t)) <= Cardinality(Newer(x, t))
      BY <3>1, <3>2, <3>3 DEF Since
    <3>5. s \in DOMAIN a /\ s \in 1 .. l + 1 /\ s \in AsksOf(b, k)
      BY <1>2, <3>4 DEF AsksOf
    <3>6. ASSUME NEW n \in AsksOf(b, k), n < s PROVE Cardinality(Besides(b, k, n, s)) >= MaxTracked
      <4>1. n \in AsksOf(a, k) /\ n \in DOMAIN a
        BY <1>2, <3>5, <3>6 DEF AsksOf
      <4>2. Besides(b, k, n, s) = Besides(a, k, n, s)
        BY <1>2, <3>5, <4>1, BesidesKept
      <4> QED
        BY <3>4, <3>6, <4>1, <4>2
    <3> QED
      BY <3>4, <3>5, <3>6
  <2>2. CASE Untracked(h, k)
    <3>1. x = <<>>
      BY <2>2 DEF Moves
    <3>2. ASSUME NEW n \in AsksOf(b, k), n < l + 1 PROVE Cardinality(Besides(b, k, n, l + 1)) >= MaxTracked
      <4>1. n \in AsksOf(a, k) /\ n \in DOMAIN a
        BY <1>2, <3>2 DEF AsksOf
      <4>2. Cardinality(Besides(a, k, n, l)) >= MaxTracked
        BY <1>1, <2>2, <4>1 DEF Crowded
      <4>3. Cardinality(Besides(a, k, n, Len(a))) <= Cardinality(Besides(Append(a, r), k, n, Len(a) + 1))
        BY <1>2, <4>1, BesidesGrow
      <4>4. Cardinality(Besides(a, k, n, l)) \in Nat /\ Cardinality(Besides(b, k, n, l + 1)) \in Nat
        <5>1. n \in Int /\ l \in Int /\ l + 1 \in Int
          BY <1>2, <4>1
        <5> QED
          BY <1>2, <5>1, BesidesFinite
      <4> QED
        BY <1>1, <1>2, <4>2, <4>3, <4>4, PublicNumbers
    <3>3. ASSUME NEW t \in Int PROVE Cardinality(LetBy(a, k, l + 1, t)) <= Cardinality(Newer(x, t))
      <4>1. LetBy(a, k, l + 1, t) = {}
        BY <1>2 DEF LetBy
      <4>2. Newer(x, t) = {}
        BY <3>1 DEF Newer
      <4> QED
        BY <4>1, <4>2, FS_EmptySet
    <3>4. l + 1 \in AsksOf(b, k) /\ l + 1 \in 1 .. l + 1
      BY <1>2
    <3> QED
      BY <3>2, <3>3, <3>4
  <2> QED
    BY <2>1, <2>2
<1>9. y \in Seq(Nat) /\ Len(y) \in Nat /\ Len(y) <= m /\ \A t \in Int : t >= now - LimitWindow =>
          Cardinality(Newer(x, t)) + (IF w = 0 /\ now > t THEN 1 ELSE 0) <= Cardinality(Newer(y, t))
  BY <1>5 DEF Slides
<1>10. ASSUME NEW t \in Int, t >= now - LimitWindow PROVE Cardinality(LetBy(b, k, s, t)) <= Cardinality(Newer(y, t))
  <2>1. s \in 1 .. Len(a) + 1
    BY <1>1
  <2>2. Cardinality(LetBy(Append(a, r), k, s, t)) =
            Cardinality(LetBy(a, k, s, t)) + (IF r.key = k /\ r.wait = 0 /\ r.at > t THEN 1 ELSE 0)
    BY <1>2, <2>1, LetGrows
  <2>3. Cardinality(LetBy(b, k, s, t)) = Cardinality(LetBy(a, k, s, t)) + (IF w = 0 /\ now > t THEN 1 ELSE 0)
    BY <1>2, <2>2
  <2>4. Cardinality(LetBy(a, k, s, t)) <= Cardinality(Newer(x, t)) /\ Cardinality(LetBy(a, k, s, t)) \in Nat
    BY <1>2, <1>8, <1>10, AsksFinite
  <2>5. Cardinality(Newer(x, t)) + (IF w = 0 /\ now > t THEN 1 ELSE 0) <= Cardinality(Newer(y, t))
    BY <1>9, <1>10
  <2>6. Cardinality(Newer(y, t)) \in Nat /\ Cardinality(Newer(x, t)) \in Nat
    <3>1. x \in Seq(Nat)
      BY DEF Moves
    <3> QED
      BY <1>9, <3>1, NewerFinite
  <2> QED
    BY <2>3, <2>4, <2>5, <2>6
<1>11. Cardinality(LetBy(b, k, s, now - LimitWindow)) <= m
  <2>1. Cardinality(LetBy(b, k, s, now - LimitWindow)) <= Cardinality(Newer(y, now - LimitWindow))
    BY <1>6, <1>10
  <2>2. Cardinality(Newer(y, now - LimitWindow)) <= Len(y) /\ Cardinality(Newer(y, now - LimitWindow)) \in Nat
    BY <1>9, NewerFinite
  <2>3. Cardinality(LetBy(b, k, s, now - LimitWindow)) \in Nat
    BY <1>2, AsksFinite
  <2> QED
    BY <1>9, <2>1, <2>2, <2>3
<1>12. ASSUME NEW i \in DOMAIN g, g[i].key = k, NEW t \in Int, t >= now - LimitWindow
      PROVE  Cardinality(LetBy(b, k, s, t)) <= Cardinality(Newer(g[i].at, t))
  BY <1>4, <1>10, <1>12
<1>13. Since(g, b, k, now)
  BY <1>5, <1>8, <1>11, <1>12 DEF Since
<1> QED
  BY <1>7, <1>13

\* The times of a key that comes are those it had in the line, or none.
LEMMA TimesHad ==
    ASSUME NEW h, NEW g, NEW k, NEW x, NEW y, NEW a, Lined(h, a), Moves(h, g, k, x, y)
    PROVE  (Untracked(h, k) /\ x = <<>>) \/ \E i \in DOMAIN h : h[i].key = k /\ h[i].at = x
<1>1. CASE Untracked(h, k)
  BY <1>1 DEF Moves
<1>2. CASE ~Untracked(h, k)
  <2>1. PICK i \in DOMAIN h : h[i].key = k
    BY <1>2 DEF Untracked
  <2>2. \A j \in 1 .. Len(g) - 1 : g[j].key # k
    BY DEF Moves
  <2>3. \/ h[i].key = k /\ h[i].at = x
        \/ \E j \in 1 .. Len(g) - 1 : g[j] = h[i]
        \/ Untracked(h, k)
    BY DEF Moves
  <2> QED
    BY <1>2, <2>1, <2>2, <2>3
<1> QED
  BY <1>1, <1>2

\* The other keys of the line were there before, and the last one is the key that comes.
LEMMA LineAfter ==
    ASSUME NEW h, NEW g, NEW k, NEW x, NEW y, Moves(h, g, k, x, y), NEW i \in DOMAIN g
    PROVE  (g[i].key = k /\ g[i].at = y) \/ (g[i].key # k /\ \E j \in DOMAIN h : g[i] = h[j])
<1>1. PICK p \in Nat : p = Len(g) - 1
  BY PublicNumbers DEF Moves
<1>2. Len(g) = p + 1 /\ DOMAIN g = 1 .. p + 1 /\ g[p + 1] = [key |-> k, at |-> y]
  BY <1>1, PublicNumbers DEF Moves
<1>3. PICK f \in [1 .. p -> DOMAIN h] : \A j \in 1 .. p : g[j] = h[f[j]] /\ g[j].key # k
  BY <1>1 DEF Moves
<1>4. i \in 1 .. p \/ i = p + 1
  BY <1>2
<1> QED
  BY <1>2, <1>3, <1>4

\* Times stay in order and within the limit.
LEMMA TimedStep ==
    ASSUME NEW h, NEW g, NEW k, NEW x, NEW y, NEW now, NEW w, Slides(x, y, w, now, PublicLimit[k[1]]),
           Moves(h, g, k, x, y), \A i \in DOMAIN h : Timed(h[i], now), NEW i \in DOMAIN g
    PROVE  Timed(g[i], now)
<1>1. CASE g[i].key = k /\ g[i].at = y
  BY <1>1 DEF Slides, Timed
<1> QED
  BY <1>1, LineAfter

\* Who is told to wait finds fewer times after that.
LEMMA AwaitedStep ==
    ASSUME NEW h, NEW g, NEW k \in PublicKey, NEW x, NEW y, NEW a, NEW r, r.key = k, NEW b, Follows(a, r, b),
           NEW now \in Nat, NEW w, r.at = now, r.wait = w, Slides(x, y, w, now, PublicLimit[k[1]]),
           Lined(h, a), Moves(h, g, k, x, y), \A i \in DOMAIN h : Awaited(h[i], a), NEW i \in DOMAIN g
    PROVE  Awaited(g[i], b)
<1>1. PICK l \in Nat : l = Len(a)
  BY DEF Follows
<1>2. /\ a \in Seq(AskRow) /\ DOMAIN a = 1 .. l /\ b[l + 1] = r /\ (\A n \in DOMAIN a : b[n] = a[n] /\ n < l + 1)
      /\ AsksOf(b, k) = AsksOf(a, k) \cup {l + 1} /\ (\A q : q # k => AsksOf(b, q) = AsksOf(a, q))
      /\ \A q : AsksOf(a, q) \subseteq DOMAIN a
  BY <1>1 DEF Follows, AsksOf
<1>3. CASE g[i].key # k /\ \E j \in DOMAIN h : g[i] = h[j]
  <2>1. PICK j \in DOMAIN h : g[i] = h[j]
    BY <1>3
  <2>2. \A n \in AsksOf(a, h[j].key) : b[n] = a[n]
    BY <1>2
  <2>3. AsksOf(b, h[j].key) = AsksOf(a, h[j].key)
    BY <1>2, <1>3, <2>1
  <2>4. Awaited(h[j], a)
    OBVIOUS
  <2> QED
    BY <2>1, <2>2, <2>3, <2>4 DEF Awaited
<1>4. CASE g[i].key = k /\ g[i].at = y
  <2> SUFFICES ASSUME NEW n \in AsksOf(b, k), b[n].wait > 0, \A m \in AsksOf(b, k) : m > n => b[m].wait > 0
               PROVE  Cardinality(Newer(y, (b[n].at + b[n].wait) - LimitWindow)) < PublicLimit[k[1]]
    BY <1>4 DEF Awaited
  <2>1. w > 0 /\ w \in Nat
    <3>1. w \in Nat
      BY DEF Slides
    <3>2. l + 1 \in AsksOf(b, k)
      BY <1>2
    <3>3. n = l + 1 \/ n < l + 1
      BY <1>2
    <3> QED
      BY <1>2, <3>1, <3>2, <3>3
  <2>2. CASE n = l + 1
    <3>1. b[n].at = now /\ b[n].wait = w
      BY <1>2, <2>2
    <3> QED
      BY <2>1, <3>1 DEF Slides
  <2>3. CASE n \in AsksOf(a, k)
    <3>1. PICK t \in Int : t = (a[n].at + a[n].wait) - LimitWindow
      <4>1. n \in DOMAIN a /\ a[n] \in AskRow
        BY <1>2, <2>3
      <4> QED
        BY <4>1, PublicNumbers DEF AskRow
    <3>2. b[n] = a[n] /\ a[n].wait > 0 /\ \A m \in AsksOf(a, k) : m > n => a[m].wait > 0
      BY <1>2, <2>3
    <3>3. \A q \in Int : Cardinality(Newer(y, q)) <= Cardinality(Newer(x, q))
      BY <2>1 DEF Slides
    <3>4. x \in Seq(Nat) /\ y \in Seq(Nat)
      BY DEF Moves, Slides
    <3>5. Cardinality(Newer(x, t)) \in Nat /\ Cardinality(Newer(y, t)) \in Nat /\ Cardinality(Newer(y, t)) <= Cardinality(Newer(x, t))
      <4>1. Cardinality(Newer(x, t)) \in Nat /\ Cardinality(Newer(y, t)) \in Nat
        BY <3>4, NewerFinite
      <4> QED
        BY <3>3, <4>1
    <3>6. Cardinality(Newer(x, t)) < PublicLimit[k[1]]
      <4>1. CASE x = <<>>
        <5>1. Newer(x, t) = {}
          BY <4>1 DEF Newer
        <5> QED
          BY <5>1, FS_EmptySet, PublicNumbers
      <4>2. ASSUME NEW j \in DOMAIN h, h[j].key = k, h[j].at = x PROVE Cardinality(Newer(x, t)) < PublicLimit[k[1]]
        <5>1. Awaited(h[j], a)
          OBVIOUS
        <5> QED
          BY <2>3, <3>1, <3>2, <4>2, <5>1 DEF Awaited
      <4> QED
        BY <4>1, <4>2, TimesHad
    <3>7. PublicLimit[k[1]] \in Nat
      BY PublicNumbers
    <3> QED
      BY <3>1, <3>2, <3>5, <3>6, <3>7
  <2> QED
    BY <1>2, <2>2, <2>3
<1> QED
  BY <1>3, <1>4, LineAfter

\* Who comes after the wait it was told is let through.
LEMMA ToldStep ==
    ASSUME NEW h, NEW g, NEW k \in PublicKey, NEW x, NEW y, NEW a, NEW r, r.key = k, NEW b, Follows(a, r, b),
           NEW now \in Nat, NEW w, r.at = now, r.wait = w, Slides(x, y, w, now, PublicLimit[k[1]]),
           Lined(h, a), Moves(h, g, k, x, y), \A i \in DOMAIN h : Awaited(h[i], a), Told(a)
    PROVE  Told(b)
<1>1. PICK l \in Nat : l = Len(a)
  BY DEF Follows
<1>2. /\ a \in Seq(AskRow) /\ DOMAIN a = 1 .. l /\ DOMAIN b = DOMAIN a \cup {l + 1} /\ b[l + 1] = r
      /\ \A n \in DOMAIN a : b[n] = a[n] /\ n < l + 1
  BY <1>1 DEF Follows
<1> SUFFICES ASSUME NEW i \in DOMAIN b, NEW j \in DOMAIN b,
                    i < j, b[i].key = b[j].key, b[i].wait > 0, b[j].at >= b[i].at + b[i].wait,
                    \A n \in i .. j - 1 : b[n].key = b[i].key => b[n].wait > 0
             PROVE  b[j].wait = 0
  BY DEF Told
<1>3. i \in DOMAIN a
  BY <1>2
<1>4. CASE j \in DOMAIN a
  <2>1. \A n \in i .. j - 1 : n \in DOMAIN a
    BY <1>2, <1>3, <1>4
  <2>2. \A n \in i .. j - 1 : a[n].key = a[i].key => a[n].wait > 0
    BY <1>2, <1>3, <2>1
  <2>3. i < j /\ a[i].key = a[j].key /\ a[i].wait > 0 /\ a[j].at >= a[i].at + a[i].wait
    BY <1>2, <1>3, <1>4
  <2>4. a[j].wait = 0
    BY <1>3, <1>4, <2>2, <2>3 DEF Told
  <2> QED
    BY <1>2, <1>4, <2>4
<1>5. CASE j = l + 1
  <2>1. a[i] \in AskRow /\ b[i] = a[i] /\ a[i].key = k /\ b[j] = r
    BY <1>2, <1>3, <1>5
  <2>2. PICK t \in Int : t = (a[i].at + a[i].wait) - LimitWindow /\ t <= now - LimitWindow
    BY <2>1, PublicNumbers DEF AskRow
  <2> SUFFICES ASSUME w # 0 PROVE FALSE
    BY <2>1
  <2>3. w > 0
    BY DEF Slides
  <2>4. Cardinality(Newer(x, t)) >= PublicLimit[k[1]]
    BY <2>2, <2>3 DEF Slides
  <2>5. CASE x = <<>>
    <3>1. Newer(x, t) = {}
      BY <2>5 DEF Newer
    <3> QED
      BY <2>4, <3>1, FS_EmptySet, PublicNumbers
  <2>6. ASSUME NEW m \in DOMAIN h, h[m].key = k, h[m].at = x PROVE FALSE
    <3>1. i \in AsksOf(a, k) /\ a[i].wait > 0
      BY <1>3, <2>1 DEF AsksOf
    <3>2. ASSUME NEW n \in AsksOf(a, k), n > i PROVE a[n].wait > 0
      <4>1. n \in DOMAIN a /\ a[n].key = k
        BY DEF AsksOf
      <4>2. n \in i .. j - 1
        BY <1>2, <1>3, <1>5, <3>2, <4>1
      <4> QED
        BY <1>2, <2>1, <4>1, <4>2
    <3>3. Awaited(h[m], a)
      OBVIOUS
    <3>4. Cardinality(Newer(x, t)) < PublicLimit[k[1]]
      BY <2>2, <2>6, <3>1, <3>2, <3>3 DEF Awaited
    <3>5. x \in Seq(Nat)
      BY DEF Moves
    <3>6. Cardinality(Newer(x, t)) \in Nat
      BY <3>5, NewerFinite
    <3> QED
      BY <2>4, <3>4, <3>6, PublicNumbers
  <2> QED
    BY <2>5, <2>6, TimesHad
<1> QED
  BY <1>2, <1>4, <1>5

-----------------------------------------------------------------------------
\* The first times that are old are found: the longest run of them.
LEMMA OldOnes ==
    ASSUME NEW x \in Seq(Nat), NEW c \in Int
    PROVE  \E n \in 0 .. Len(x) : (\A i \in 1 .. n : x[i] <= c) /\ (n < Len(x) => ~(x[n + 1] <= c))
<1>1. PICK l \in Nat : l = Len(x)
  OBVIOUS
<1> DEFINE S == {n \in 0 .. l : n < l => ~(x[n + 1] <= c)}
<1>2. S \subseteq Nat /\ l \in S
  OBVIOUS
<1>3. PICK n \in S : \A m \in S : n <= m
  BY <1>2, Least
<1>4. n \in 0 .. l /\ (n < l => ~(x[n + 1] <= c))
  OBVIOUS
<1>5. ASSUME NEW i \in 1 .. n PROVE x[i] <= c
  <2>1. PICK j \in 0 .. l : j = i - 1 /\ j < l /\ ~(n <= j) /\ j + 1 = i
    BY <1>4
  <2>2. j \notin S
    BY <1>3, <2>1
  <2>3. j < l /\ (x[j + 1] <= c)
    BY <2>1, <2>2
  <2> QED
    BY <2>1, <2>3
<1> QED
  BY <1>1, <1>4, <1>5

\* z is what is left of x when the times until c have left.
Rest(x, z, c, now) ==
    /\ x \in Seq(Nat) /\ z \in Seq(Nat) /\ InOrder(z) /\ Len(z) <= Len(x)
    /\ \A i \in DOMAIN z : z[i] > c /\ z[i] <= now
    /\ \A t \in Int : Cardinality(Newer(z, t)) <= Cardinality(Newer(x, t))
    /\ \A t \in Int : t >= c => Cardinality(Newer(x, t)) = Cardinality(Newer(z, t))

\* What is left when the longest run of old times has left.
LEMMA OldGone ==
    ASSUME NEW now \in Nat, NEW c \in Int, NEW x \in Seq(Nat), InOrder(x), \A i \in DOMAIN x : x[i] <= now,
           NEW g \in 0 .. Len(x), \A i \in 1 .. g : x[i] <= c, g < Len(x) => ~(x[g + 1] <= c),
           NEW z, z = SubSeq(x, g + 1, Len(x))
    PROVE  Rest(x, z, c, now)
<1>1. PICK l \in Nat, n \in Nat : l = Len(x) /\ n = Len(z) /\ n = l - g /\ n <= l
  OBVIOUS
<1>2. DOMAIN x = 1 .. l /\ DOMAIN z = 1 .. n /\ (\A i \in 1 .. l : x[i] \in Nat) /\ z \in Seq(Nat)
  <2>1. z \in Seq(Nat)
    OBVIOUS
  <2>2. DOMAIN x = 1 .. l
    BY <1>1
  <2>3. DOMAIN z = 1 .. n
    BY <1>1, <2>1
  <2>4. \A i \in DOMAIN x : x[i] \in Nat
    OBVIOUS
  <2> QED
    BY <2>1, <2>2, <2>3, <2>4
<1>3. g \in Nat /\ \A i \in 1 .. n : g + i \in 1 .. l /\ z[i] = x[g + i]
  <2>1. g \in Nat
    BY <1>1
  <2>2. \A i \in 1 .. n : z[i] = x[g + i]
    BY <1>1
  <2>3. \A i \in 1 .. n : g + i \in 1 .. l
    BY <1>1
  <2> QED
    BY <2>1, <2>2, <2>3
<1>4. InOrder(z)
  <2>1. \A i, j \in 1 .. n : i <= j => g + i <= g + j
    BY <1>3
  <2>2. \A i, j \in 1 .. l : i <= j => x[i] <= x[j]
    BY <1>2 DEF InOrder
  <2>3. \A i, j \in 1 .. n : i <= j => z[i] <= z[j]
    BY <1>3, <2>1, <2>2
  <2> QED
    BY <1>2, <2>3 DEF InOrder
<1>5. ASSUME NEW i \in DOMAIN z PROVE z[i] > c /\ z[i] <= now
  <2>1. i \in 1 .. n /\ g + i \in 1 .. l /\ z[i] = x[g + i] /\ z[i] \in Nat
    BY <1>2, <1>3
  <2>2. z[i] <= now
    BY <1>2, <2>1
  <2>3. g < l /\ g + 1 \in 1 .. l /\ g + 1 <= g + i
    <3>1. i \in Nat /\ 1 <= i /\ g + i <= l /\ g \in Nat
      BY <1>3, <2>1
    <3>2. g < l /\ g + 1 <= l /\ g + 1 <= g + i /\ 1 <= g + 1 /\ g + 1 \in Nat
      BY <3>1
    <3> QED
      BY <3>2
  <2>4. x[g + 1] <= x[g + i]
    BY <1>2, <2>1, <2>3 DEF InOrder
  <2>5. x[g + 1] \in Nat /\ ~(x[g + 1] <= c)
    BY <1>1, <1>2, <2>3
  <2>6. \A p, q \in Nat : ~(p <= c) /\ p <= q => q > c
    OBVIOUS
  <2> QED
    BY <2>1, <2>2, <2>4, <2>5, <2>6
<1>6. ASSUME NEW t \in Int PROVE Cardinality(Newer(z, t)) <= Cardinality(Newer(x, t))
  BY NewerShift
<1>7. ASSUME NEW t \in Int, t >= c PROVE Cardinality(Newer(x, t)) = Cardinality(Newer(z, t))
  <2>1. ASSUME NEW i \in 1 .. g PROVE x[i] <= t
    <3>1. x[i] <= c /\ x[i] \in Nat
      BY <1>1, <1>2
    <3>2. \A p \in Nat : p <= c => p <= t
      BY <1>7
    <3> QED
      BY <3>1, <3>2
  <2> QED
    BY <2>1, NewerShift
<1> QED
  BY <1>1, <1>2, <1>4, <1>5, <1>6, <1>7 DEF Rest

\* With room for one more the request is let through.
LEMMA GoesThrough ==
    ASSUME NEW now \in Nat, NEW m \in Nat, NEW x, NEW z, Rest(x, z, now - LimitWindow, now), Len(z) < m
    PROVE  Slides(x, Append(z, now), 0, now, m)
<1>1. PICK y : y = Append(z, now)
  OBVIOUS
<1>2. z \in Seq(Nat) /\ x \in Seq(Nat) /\ (\A i, j \in DOMAIN z : i <= j => z[i] <= z[j]) /\ \A i \in DOMAIN z : z[i] <= now
  BY DEF Rest, InOrder
<1>3. PICK n \in Nat : n = Len(z)
  BY <1>2
<1>4. DOMAIN z = 1 .. n /\ y \in Seq(Nat) /\ Len(y) = n + 1 /\ DOMAIN y = 1 .. n + 1 /\ y[n + 1] = now
  BY <1>1, <1>2, <1>3
<1>5. \A i \in 1 .. n : y[i] = z[i]
  BY <1>1, <1>2, <1>3
<1>6. \A i \in 1 .. n + 1 : i \in 1 .. n \/ i = n + 1
  OBVIOUS
<1>7. \A i \in 1 .. n + 1 : y[i] <= now
  <2>1. \A i \in 1 .. n : y[i] <= now
    BY <1>2, <1>4, <1>5
  <2>2. y[n + 1] <= now
    BY <1>4
  <2> QED
    BY <1>6, <2>1, <2>2
<1>8. InOrder(y)
  <2> SUFFICES ASSUME NEW i \in 1 .. n + 1, NEW j \in 1 .. n + 1, i <= j PROVE y[i] <= y[j]
    BY <1>4 DEF InOrder
  <2>1. CASE j = n + 1
    BY <1>4, <1>7, <2>1
  <2>2. CASE j \in 1 .. n
    <3>1. i \in 1 .. n
      BY <2>2
    <3> QED
      BY <1>2, <1>4, <1>5, <2>2, <3>1
  <2> QED
    BY <1>6, <2>1, <2>2
<1>9. ASSUME NEW t \in Int, t >= now - LimitWindow
      PROVE  Cardinality(Newer(x, t)) + (IF 0 = 0 /\ now > t THEN 1 ELSE 0) <= Cardinality(Newer(y, t))
  <2>1. Cardinality(Newer(Append(z, now), t)) = Cardinality(Newer(z, t)) + (IF now > t THEN 1 ELSE 0)
    BY <1>2, NewerGrows
  <2>2. Cardinality(Newer(x, t)) = Cardinality(Newer(z, t))
    BY <1>9 DEF Rest
  <2>3. Cardinality(Newer(z, t)) \in Nat
    BY <1>2, NewerFinite
  <2> QED
    BY <1>1, <2>1, <2>2, <2>3
<1>10. Len(y) <= m
  BY <1>3, <1>4
<1>11. Slides(x, y, 0, now, m)
  BY <1>4, <1>7, <1>8, <1>9, <1>10 DEF Slides
<1> QED
  BY <1>1, <1>11

\* Otherwise it waits until the first of those that are left is old.
LEMMA GetsWait ==
    ASSUME NEW now \in Nat, NEW m \in Nat \ {0}, NEW x, NEW z, Rest(x, z, now - LimitWindow, now), Len(x) <= m, ~(Len(z) < m)
    PROVE  Slides(x, z, z[1] + (LimitWindow - now), now, m)
<1>1. /\ z \in Seq(Nat) /\ x \in Seq(Nat) /\ Len(z) <= Len(x) /\ InOrder(z)
      /\ \A i \in DOMAIN z : z[i] > now - LimitWindow /\ z[i] <= now
  BY DEF Rest
<1>2. PICK c \in Int : c = now - LimitWindow /\ LimitWindow \in Nat \ {0}
  BY PublicNumbers
<1>3. Len(z) = m /\ DOMAIN z = 1 .. m /\ 1 \in 1 .. m
  BY <1>1
<1>4. \A i \in 1 .. m : z[i] \in Nat /\ z[i] > c /\ z[i] <= now
  <2>1. \A i \in 1 .. m : z[i] \in Nat
    BY <1>1, <1>3
  <2> QED
    BY <1>1, <1>2, <1>3, <2>1
<1>5. PICK first \in Nat : first = z[1] /\ first > c
  BY <1>3, <1>4
<1>6. PICK w \in Nat : w = first + (LimitWindow - now) /\ w > 0 /\ (now + w) - LimitWindow = first
  BY <1>2, <1>5
<1>7. \A t \in Int : Cardinality(Newer(z, t)) \in Nat /\ Cardinality(Newer(x, t)) \in Nat
  BY <1>1, NewerFinite
<1>8. \A t \in Int : Cardinality(Newer(z, t)) <= Cardinality(Newer(x, t))
  BY DEF Rest
<1>9. Cardinality(Newer(z, first)) < m
  <2>1. ASSUME NEW i \in Newer(z, first) PROVE i \in 2 .. m
    <3>1. i \in 1 .. m /\ z[i] > first
      BY <1>3 DEF Newer
    <3>2. i # 1
      BY <1>5, <3>1
    <3> QED
      BY <3>1, <3>2
  <2>2. IsFiniteSet(2 .. m) /\ Cardinality(2 .. m) = m - 1
    <3>1. Cardinality(2 .. m) = (IF 2 > m THEN 0 ELSE (m - 2) + 1) /\ IsFiniteSet(2 .. m)
      BY FS_Interval
    <3> QED
      BY <3>1
  <2>3. Newer(z, first) \subseteq 2 .. m
    BY <2>1
  <2>4. Cardinality(Newer(z, first)) <= m - 1
    BY <2>2, <2>3, FS_Subset
  <2>5. Cardinality(Newer(z, first)) \in Nat
    <3>1. first \in Int
      OBVIOUS
    <3> QED
      BY <1>7, <3>1
  <2> QED
    BY <2>4, <2>5
<1>10. ASSUME NEW t \in Int, t <= now - LimitWindow PROVE Cardinality(Newer(x, t)) >= m
  <2>1. \A p \in Nat : p > c => p > t
    BY <1>2, <1>10
  <2>2. Newer(z, t) = 1 .. m
    BY <1>3, <1>4, <2>1 DEF Newer
  <2>3. Cardinality(1 .. m) = m
    <3>1. Cardinality(1 .. m) = (IF 1 > m THEN 0 ELSE (m - 1) + 1)
      BY FS_Interval
    <3> QED
      BY <3>1
  <2> QED
    BY <1>7, <1>8, <2>2, <2>3
<1>11. ASSUME NEW t \in Int, t >= now - LimitWindow
       PROVE  Cardinality(Newer(x, t)) + (IF w = 0 /\ now > t THEN 1 ELSE 0) <= Cardinality(Newer(z, t))
  <2>1. Cardinality(Newer(x, t)) = Cardinality(Newer(z, t))
    BY <1>11 DEF Rest
  <2>2. (IF w = 0 /\ now > t THEN 1 ELSE 0) = 0
    BY <1>6
  <2> QED
    BY <1>7, <2>1, <2>2
<1>12. Slides(x, z, w, now, m)
  BY <1>1, <1>3, <1>6, <1>8, <1>9, <1>10, <1>11 DEF Slides
<1> QED
  BY <1>5, <1>6, <1>12

\* Before time goes on, what was let through in the window was let through in a longer one.
LEMMA SinceLater ==
    ASSUME NEW h, NEW a \in Seq(AskRow), NEW k \in PublicKey, NEW now \in Nat, Since(h, a, k, now)
    PROVE  Since(h, a, k, now + 1)
<1>1. PICK c \in Int, d \in Int : c = now - LimitWindow /\ d = (now + 1) - LimitWindow /\ c <= d
  BY PublicNumbers
<1>2. PICK s \in AsksOf(a, k) :
          /\ \A n \in AsksOf(a, k) : n < s => Cardinality(Besides(a, k, n, s)) >= MaxTracked
          /\ Cardinality(LetBy(a, k, s, c)) <= PublicLimit[k[1]]
          /\ \A i \in DOMAIN h : h[i].key = k => \A t \in Int : t >= c =>
                 Cardinality(LetBy(a, k, s, t)) <= Cardinality(Newer(h[i].at, t))
  BY <1>1 DEF Since
<1>3. LetBy(a, k, s, d) \subseteq LetBy(a, k, s, c)
  <2>1. \A n \in DOMAIN a : a[n] \in AskRow
    OBVIOUS
  <2>2. \A n \in DOMAIN a : a[n].at \in Int
    BY <2>1 DEF AskRow
  <2> QED
    BY <1>1, <2>2 DEF LetBy
<1>4. Cardinality(LetBy(a, k, s, d)) <= Cardinality(LetBy(a, k, s, c))
  BY <1>3, AsksFinite, FS_Subset
<1>5. Cardinality(LetBy(a, k, s, d)) \in Nat /\ Cardinality(LetBy(a, k, s, c)) \in Nat /\ PublicLimit[k[1]] \in Nat
  BY AsksFinite, PublicNumbers
<1>6. Cardinality(LetBy(a, k, s, d)) <= PublicLimit[k[1]]
  BY <1>2, <1>4, <1>5
<1>7. \A t \in Int : t >= d => t >= c
  BY <1>1
<1> QED
  BY <1>1, <1>2, <1>6, <1>7 DEF Since

\* w is h without its p-th of n elements.
Without(h, p, n, w) == /\ Len(w) = n - 1 /\ DOMAIN w = 1 .. n - 1
                       /\ \A j \in 1 .. n - 1 : (j < p => w[j] = h[j]) /\ (~(j < p) => w[j] = h[j + 1])

\* A sequence without one of its elements.
LEMMA TakenOut ==
    ASSUME NEW S, NEW h \in Seq(S), NEW n \in Nat, n = Len(h), NEW p \in 1 .. n
    PROVE  /\ SubSeq(h, 1, p - 1) \o SubSeq(h, p + 1, n) \in Seq(S)
           /\ Without(h, p, n, SubSeq(h, 1, p - 1) \o SubSeq(h, p + 1, n))
<1>1. \A i \in 1 .. n : h[i] \in S
  OBVIOUS
<1>2. PICK u, v : u = SubSeq(h, 1, p - 1) /\ v = SubSeq(h, p + 1, n)
  OBVIOUS
<1>3. u \in Seq(S) /\ Len(u) = p - 1 /\ \A j \in 1 .. p - 1 : u[j] = h[j]
  <2>1. 1 \in Int /\ p - 1 \in Int /\ \A i \in 1 .. p - 1 : h[i] \in S
    BY <1>1
  <2>2. /\ u \in Seq(S) /\ Len(u) = IF 1 <= p - 1 THEN (p - 1) - 1 + 1 ELSE 0
        /\ \A i \in 1 .. (p - 1) - 1 + 1 : u[i] = h[1 + i - 1]
    BY <1>2, <2>1, SubSeqProperties
  <2> QED
    BY <2>2
<1>4. v \in Seq(S) /\ Len(v) = n - p /\ \A j \in 1 .. n - p : v[j] = h[p + j]
  <2>1. p + 1 \in Int /\ n \in Int /\ \A i \in p + 1 .. n : h[i] \in S
    BY <1>1
  <2>2. /\ v \in Seq(S) /\ Len(v) = IF p + 1 <= n THEN n - (p + 1) + 1 ELSE 0
        /\ \A i \in 1 .. n - (p + 1) + 1 : v[i] = h[p + 1 + i - 1]
    BY <1>2, <2>1, SubSeqProperties
  <2> QED
    BY <2>2
<1>5. PICK w : w = u \o v
  OBVIOUS
<1>6. w \in Seq(S) /\ Len(w) = n - 1
  <2>1. u \in Seq(S) /\ v \in Seq(S)
    BY <1>3, <1>4
  <2>2. u \o v \in Seq(S) /\ Len(u \o v) = Len(u) + Len(v)
    BY <2>1
  <2>3. Len(u) = p - 1 /\ Len(v) = n - p
    BY <1>3, <1>4
  <2>4. Len(w) = (p - 1) + (n - p)
    BY <1>5, <2>2, <2>3
  <2>5. (p - 1) + (n - p) = n - 1
    OBVIOUS
  <2> QED
    BY <1>5, <2>2, <2>4, <2>5
<1>7. DOMAIN w = 1 .. n - 1
  BY <1>6
<1>8. ASSUME NEW j \in 1 .. n - 1 PROVE (j < p => w[j] = h[j]) /\ (~(j < p) => w[j] = h[j + 1])
  <2>1. p - 1 \in Nat /\ n - p \in Nat
    OBVIOUS
  <2>2. CASE j < p
    <3>1. j \in 1 .. p - 1 /\ j <= Len(u)
      BY <1>3, <2>2
    <3>2. (u \o v)[j] = u[j]
      BY <1>3, <1>4, <3>1
    <3> QED
      BY <1>3, <1>5, <2>2, <3>1, <3>2
  <2>3. CASE ~(j < p)
    <3>1. j - (p - 1) \in 1 .. n - p /\ p + (j - (p - 1)) = j + 1 /\ j > p - 1 /\ j <= (p - 1) + (n - p)
      BY <2>3
    <3>2. (u \o v)[j] = v[j - (p - 1)]
      BY <1>3, <1>4, <2>1, <3>1
    <3>3. v[j - (p - 1)] = h[p + (j - (p - 1))]
      BY <1>4, <3>1
    <3> QED
      BY <1>5, <2>3, <3>1, <3>2, <3>3
  <2> QED
    BY <2>2, <2>3
<1>9. Without(h, p, n, w)
  BY <1>6, <1>7, <1>8 DEF Without
<1> QED
  BY <1>2, <1>5, <1>6, <1>9

\* A tracked key that comes moves to the end.
LEMMA MovedBack ==
    ASSUME NEW h, NEW a, Lined(h, a), NEW p \in DOMAIN h
    PROVE  Moves(h, Append(SubSeq(h, 1, p - 1) \o SubSeq(h, p + 1, Len(h)), h[p]), h[p].key, h[p].at, h[p].at)
<1>1. h \in Seq(HitRow) /\ (\A i, j \in DOMAIN h : h[i].key = h[j].key => i = j)
  BY DEF Lined
<1>2. PICK n \in Nat : n = Len(h) /\ n <= MaxTracked
  BY <1>1 DEF Lined
<1>3. DOMAIN h = 1 .. n /\ p \in 1 .. n
  BY <1>1, <1>2
<1>4. PICK w : w = SubSeq(h, 1, p - 1) \o SubSeq(h, p + 1, n)
  OBVIOUS
<1>5. w \in Seq(HitRow) /\ Without(h, p, n, w)
  BY <1>1, <1>2, <1>3, <1>4, TakenOut
<1>6. PICK g : g = Append(w, h[p])
  OBVIOUS
<1>7. Len(w) = n - 1 /\ DOMAIN w = 1 .. n - 1
  BY <1>5 DEF Without
<1>8. h[p] \in HitRow
  BY <1>1, <1>2, <1>3
<1>9. g \in Seq(HitRow) /\ Len(g) = n /\ g[n] = h[p]
  <2>1. Append(w, h[p]) \in Seq(HitRow) /\ Len(Append(w, h[p])) = Len(w) + 1 /\ Append(w, h[p])[Len(w) + 1] = h[p]
    BY <1>5, <1>8
  <2>2. Len(w) + 1 = n
    BY <1>3, <1>7
  <2> QED
    BY <1>6, <2>1, <2>2
<1>10. \A j \in 1 .. n - 1 : (j < p => g[j] = h[j]) /\ (~(j < p) => g[j] = h[j + 1])
  <2>1. \A j \in 1 .. n - 1 : g[j] = w[j]
    BY <1>3, <1>5, <1>6, <1>7, <1>8
  <2> QED
    BY <1>5, <2>1 DEF Without
<1>11. h[p] = [key |-> h[p].key, at |-> h[p].at] /\ h[p].at \in Seq(Nat)
  BY <1>8 DEF HitRow
<1> DEFINE f == [j \in 1 .. n - 1 |-> IF j < p THEN j ELSE j + 1]
<1>12. f \in [1 .. n - 1 -> DOMAIN h]
  BY <1>3
<1>13. \A i, j \in 1 .. n - 1 : i < j => f[i] < f[j]
  BY <1>3
<1>20. \A j \in 1 .. n - 1 : (j < p => f[j] = j) /\ (~(j < p) => f[j] = j + 1)
  OBVIOUS
<1> HIDE DEF f
<1>14. \A j \in 1 .. n - 1 : f[j] # p /\ g[j] = h[f[j]]
  <2> SUFFICES ASSUME NEW j \in 1 .. n - 1 PROVE f[j] # p /\ g[j] = h[f[j]]
    OBVIOUS
  <2>1. CASE j < p
    <3>1. f[j] = j /\ g[j] = h[j] /\ j # p
      BY <1>3, <1>10, <1>20, <2>1
    <3> QED
      BY <3>1
  <2>2. CASE ~(j < p)
    <3>1. f[j] = j + 1 /\ g[j] = h[j + 1]
      BY <1>10, <1>20, <2>2
    <3>2. j + 1 # p
      BY <1>3, <2>2
    <3> QED
      BY <3>1, <3>2
  <2> QED
    BY <2>1, <2>2
<1>15. \A i \in DOMAIN h : i = p \/ \E j \in 1 .. n - 1 : f[j] = i
  <2> SUFFICES ASSUME NEW i \in 1 .. n, i # p PROVE \E j \in 1 .. n - 1 : f[j] = i
    BY <1>3
  <2>1. CASE i < p
    <3>1. i \in 1 .. n - 1
      BY <1>3, <2>1
    <3> QED
      BY <1>20, <2>1, <3>1
  <2>2. CASE i > p
    <3>1. i - 1 \in 1 .. n - 1 /\ ~(i - 1 < p) /\ (i - 1) + 1 = i
      BY <1>3, <2>2
    <3> QED
      BY <1>20, <3>1
  <2> QED
    BY <1>3, <2>1, <2>2
<1>21. \A j \in 1 .. n - 1 : f[j] \in DOMAIN h /\ f[j] # p /\ g[j] = h[f[j]]
  BY <1>12, <1>14
<1>16. \A j \in 1 .. n - 1 : g[j] = h[f[j]] /\ g[j].key # h[p].key
  <2> SUFFICES ASSUME NEW j \in 1 .. n - 1 PROVE g[j] = h[f[j]] /\ g[j].key # h[p].key
    OBVIOUS
  <2>1. f[j] \in DOMAIN h /\ f[j] # p /\ g[j] = h[f[j]]
    BY <1>21
  <2> QED
    BY <1>1, <2>1
<1>17. \A i \in DOMAIN h : i = p \/ \E j \in 1 .. n - 1 : g[j] = h[i]
  <2> SUFFICES ASSUME NEW i \in DOMAIN h, i # p PROVE \E j \in 1 .. n - 1 : g[j] = h[i]
    OBVIOUS
  <2>1. PICK j \in 1 .. n - 1 : f[j] = i
    BY <1>15
  <2> QED
    BY <1>14, <2>1
<1>18. ~Untracked(h, h[p].key)
  BY DEF Untracked
<1>19. Len(g) \in 1 .. MaxTracked /\ Len(g) - 1 = n - 1
  BY <1>2, <1>3, <1>9, PublicNumbers
<1>22. Moves(h, g, h[p].key, h[p].at, h[p].at)
  BY <1>9, <1>11, <1>12, <1>13, <1>16, <1>17, <1>18, <1>19 DEF Moves
<1> QED
  BY <1>2, <1>4, <1>6, <1>22

\* Another key is added.
LEMMA Added ==
    ASSUME NEW h, NEW a, Lined(h, a), NEW k \in PublicKey, Untracked(h, k), Len(h) < MaxTracked,
           NEW g, g = Append(h, [key |-> k, at |-> <<>>])
    PROVE  Moves(h, g, k, <<>>, <<>>)
<1>1. h \in Seq(HitRow)
  BY DEF Lined
<1>2. PICK n \in Nat : n = Len(h)
  BY <1>1
<1>3. PICK e : e = [key |-> k, at |-> <<>>]
  OBVIOUS
<1>4. e \in HitRow
  BY <1>3 DEF HitRow
<1>5. DOMAIN h = 1 .. n /\ g \in Seq(HitRow) /\ Len(g) = n + 1 /\ g[n + 1] = e /\ \A j \in 1 .. n : g[j] = h[j]
  BY <1>1, <1>2, <1>3, <1>4
<1>6. Len(g) \in 1 .. MaxTracked /\ Len(g) - 1 = n
  BY <1>2, <1>5, PublicNumbers
<1> DEFINE f == [j \in 1 .. n |-> j]
<1>7. f \in [1 .. n -> DOMAIN h] /\ (\A i, j \in 1 .. n : i < j => f[i] < f[j]) /\ \A j \in 1 .. n : f[j] = j
  BY <1>5
<1> HIDE DEF f
<1>8. \A j \in 1 .. n : g[j] = h[f[j]] /\ g[j].key # k
  BY <1>5, <1>7 DEF Untracked
<1>9. \A i \in DOMAIN h : \E j \in 1 .. n : g[j] = h[i]
  BY <1>5
<1>10. <<>> \in Seq(Nat)
  OBVIOUS
<1> QED
  BY <1>3, <1>5, <1>6, <1>7, <1>8, <1>9, <1>10 DEF Moves

\* Another key is added at the cost of the first.
LEMMA Replaced ==
    ASSUME NEW h, NEW a, Lined(h, a), NEW k \in PublicKey, Untracked(h, k), Len(h) = MaxTracked,
           NEW g, g = Tail(Append(h, [key |-> k, at |-> <<>>]))
    PROVE  Moves(h, g, k, <<>>, <<>>)
<1>1. h \in Seq(HitRow)
  BY DEF Lined
<1>2. PICK n \in Nat \ {0} : n = Len(h) /\ n = MaxTracked
  BY <1>1, PublicNumbers
<1>3. PICK e : e = [key |-> k, at |-> <<>>]
  OBVIOUS
<1>4. e \in HitRow
  BY <1>3 DEF HitRow
<1>5. PICK t : t = Append(h, e)
  OBVIOUS
<1>6. DOMAIN h = 1 .. n /\ t \in Seq(HitRow) /\ Len(t) = n + 1 /\ t[n + 1] = e /\ \A j \in 1 .. n : t[j] = h[j]
  BY <1>1, <1>2, <1>4, <1>5
<1>7. g = Tail(t) /\ t # <<>>
  BY <1>3, <1>5, <1>6
<1>8. g \in Seq(HitRow) /\ Len(g) = n /\ \A j \in 1 .. n : g[j] = t[j + 1]
  <2>1. g \in Seq(HitRow) /\ Len(g) = Len(t) - 1
    BY <1>6, <1>7, HeadTailProperties
  <2>2. \A j \in 1 .. Len(g) : g[j] = t[j + 1]
    BY <1>6, <1>7, HeadTailProperties
  <2> QED
    BY <1>6, <2>1, <2>2
<1>9. g[n] = e /\ \A j \in 1 .. n - 1 : g[j] = h[j + 1]
  BY <1>2, <1>6, <1>8
<1>10. Len(g) \in 1 .. MaxTracked /\ Len(g) - 1 = n - 1
  BY <1>2, <1>8
<1> DEFINE f == [j \in 1 .. n - 1 |-> j + 1]
<1>11. f \in [1 .. n - 1 -> DOMAIN h] /\ (\A i, j \in 1 .. n - 1 : i < j => f[i] < f[j]) /\ \A j \in 1 .. n - 1 : f[j] = j + 1
  BY <1>6
<1> HIDE DEF f
<1>12. \A j \in 1 .. n - 1 : g[j] = h[f[j]] /\ g[j].key # k
  BY <1>9, <1>11 DEF Untracked
<1>13. ASSUME NEW i \in DOMAIN h, i # 1 PROVE \E j \in 1 .. n - 1 : g[j] = h[i]
  <2>1. i - 1 \in 1 .. n - 1 /\ (i - 1) + 1 = i
    BY <1>6, <1>13
  <2> QED
    BY <1>9, <2>1
<1>14. <<>> \in Seq(Nat)
  OBVIOUS
<1> QED
  BY <1>3, <1>8, <1>9, <1>10, <1>11, <1>12, <1>13, <1>14 DEF Moves

\* The key that comes is found at the end, and given its new times.
LEMMA Placing ==
    ASSUME NEW h, NEW g, NEW k, NEW x, Moves(h, g, k, x, x), NEW y \in Seq(Nat)
    PROVE  /\ \A i \in DOMAIN g : g[i].key = k <=> i = Len(g)
           /\ Len(g) \in DOMAIN g /\ g[Len(g)].at = x
           /\ Moves(h, [g EXCEPT ![Len(g)].at = y], k, x, y)
<1>1. g \in Seq(HitRow) /\ Len(g) \in 1 .. MaxTracked /\ g[Len(g)] = [key |-> k, at |-> x] /\ x \in Seq(Nat) /\ (Untracked(h, k) => x = <<>>)
  BY DEF Moves
<1>2. PICK n \in Nat : n = Len(g) /\ n # 0
  BY <1>1, PublicNumbers
<1>3. DOMAIN g = 1 .. n /\ n \in DOMAIN g /\ g[n] \in HitRow /\ n \in 1 .. MaxTracked
  BY <1>1, <1>2
<1>4. PICK f \in [1 .. n - 1 -> DOMAIN h] :
          /\ \A i, j \in 1 .. n - 1 : i < j => f[i] < f[j]
          /\ \A j \in 1 .. n - 1 : g[j] = h[f[j]] /\ g[j].key # k
  BY <1>2 DEF Moves
<1>5. \A i \in 1 .. n : i \in 1 .. n - 1 \/ i = n
  BY <1>2
<1>6. \A i \in DOMAIN g : g[i].key = k <=> i = n
  BY <1>1, <1>2, <1>3, <1>4, <1>5
<1>7. PICK e : e = [key |-> k, at |-> y]
  OBVIOUS
<1>8. e \in HitRow
  BY <1>1, <1>2, <1>3, <1>7 DEF HitRow
<1>9. [g[n] EXCEPT !.at = y] = e
  BY <1>1, <1>2, <1>7
<1>10. PICK u : u = [g EXCEPT ![n] = e]
  OBVIOUS
<1>11. u = [g EXCEPT ![n].at = y]
  BY <1>3, <1>9, <1>10
<1>12. u \in Seq(HitRow) /\ Len(u) = n /\ u[n] = e /\ \A j \in 1 .. n - 1 : u[j] = g[j]
  BY <1>1, <1>2, <1>3, <1>8, <1>10
<1>13. \A i \in DOMAIN h : \/ h[i].key = k /\ h[i].at = x
                           \/ \E j \in 1 .. n - 1 : u[j] = h[i]
                           \/ i = 1 /\ Len(h) = MaxTracked /\ Untracked(h, k)
  BY <1>2, <1>12 DEF Moves
<1>14. \A j \in 1 .. n - 1 : u[j] = h[f[j]] /\ u[j].key # k
  BY <1>4, <1>12
<1>15. Moves(h, u, k, x, y)
  BY <1>1, <1>3, <1>4, <1>7, <1>12, <1>13, <1>14 DEF Moves
<1> QED
  BY <1>1, <1>2, <1>3, <1>6, <1>11, <1>15

-----------------------------------------------------------------------------
\* Of the requests: the tracked keys, and what was let through; of the routes: on no day
\* more than the allowance, and none later than the day that is counted.
HitsInv ==
    /\ clock \in Nat /\ asked \in Seq(AskRow)
    /\ Lined(hits, asked) /\ Crowded(hits, asked) /\ Told(asked)
    /\ \A q : AsksOf(asked, q) # {} => Since(hits, asked, q, clock)
    /\ \A i \in DOMAIN hits : Timed(hits[i], clock) /\ Awaited(hits[i], asked)
RoutesOn(d) == {m \in DOMAIN routes : routes[m] \div QuotaDay = d}
QuotaInv ==
    /\ clock \in Nat /\ quota \in [day : Int, used : Nat] /\ quota.used <= DailyLimit
    /\ quota.day <= clock \div QuotaDay
    /\ routes \in Seq(Nat) /\ \A n \in DOMAIN routes : routes[n] \div QuotaDay <= quota.day
    /\ \A d \in Int : /\ IsFiniteSet(RoutesOn(d)) /\ Cardinality(RoutesOn(d)) <= DailyLimit
                      /\ d = quota.day => Cardinality(RoutesOn(d)) <= quota.used
PublicInv == HitsInv /\ QuotaInv

-----------------------------------------------------------------------------
\* The initial state: nothing is tracked.
LEMMA PublicInit == Public!Init => PublicInv
<1> SUFFICES ASSUME Public!Init PROVE PublicInv
  OBVIOUS
<1>1. clock = 0 /\ hits = <<>> /\ quota = [day |-> -1, used |-> 0] /\ asked = <<>> /\ routes = <<>>
  BY DEF Public!Init
<1>2. DOMAIN asked = {} /\ DOMAIN hits = {} /\ DOMAIN routes = {} /\ Len(hits) = 0
  BY <1>1
<1>3. asked \in Seq(AskRow) /\ hits \in Seq(HitRow) /\ routes \in Seq(Nat) /\ clock \in Nat
  BY <1>1
<1>4. \A k : AsksOf(asked, k) = {}
  BY <1>2 DEF AsksOf
<1>5. HitsInv
  BY <1>2, <1>3, <1>4, PublicNumbers DEF HitsInv, Lined, Crowded, Told
<1>6. 0 \div QuotaDay = 0
  BY PublicNumbers
<1>7. \A d \in Int : RoutesOn(d) = {}
  BY <1>2 DEF RoutesOn
<1>8. IsFiniteSet({}) /\ Cardinality({}) = 0
  BY FS_EmptySet
<1>9. \A d \in Int : IsFiniteSet(RoutesOn(d)) /\ Cardinality(RoutesOn(d)) = 0
  BY <1>7, <1>8
<1>10. quota \in [day : Int, used : Nat] /\ quota.used = 0 /\ quota.day = -1
  BY <1>1
<1>11. QuotaInv
  BY <1>1, <1>2, <1>3, <1>6, <1>9, <1>10, PublicNumbers DEF QuotaInv
<1> QED
  BY <1>5, <1>11 DEF PublicInv

\* A key that comes is the last one of the line.
LEMMA TouchMoves ==
    ASSUME HitsInv, NEW k \in PublicKey
    PROVE  \E x : Moves(hits, Public!Touch(k), k, x, x)
<1>1. Lined(hits, asked) /\ hits \in Seq(HitRow) /\ Len(hits) <= MaxTracked
  BY DEF HitsInv, Lined
<1>2. PICK all : all = Append(hits, [key |-> k, at |-> <<>>])
  OBVIOUS
<1>3. CASE Public!Tracked(k) # {}
  <2>1. PICK i : i = CHOOSE j \in Public!Tracked(k) : TRUE
    OBVIOUS
  <2>2. i \in DOMAIN hits /\ hits[i].key = k
    BY <1>3, <2>1 DEF Public!Tracked
  <2>3. Public!Touch(k) = Append(SubSeq(hits, 1, i - 1) \o SubSeq(hits, i + 1, Len(hits)), hits[i])
    BY <1>3, <2>1 DEF Public!Touch
  <2>4. Moves(hits, Append(SubSeq(hits, 1, i - 1) \o SubSeq(hits, i + 1, Len(hits)), hits[i]), hits[i].key, hits[i].at, hits[i].at)
    BY <1>1, <2>2, MovedBack
  <2> QED
    BY <2>2, <2>3, <2>4
<1>4. CASE Public!Tracked(k) = {}
  <2>1. Untracked(hits, k)
    BY <1>4 DEF Untracked, Public!Tracked
  <2>2. Public!Touch(k) = IF Len(all) > MaxTracked THEN Tail(all) ELSE all
    BY <1>2, <1>4 DEF Public!Touch
  <2>3. [key |-> k, at |-> <<>>] \in HitRow
    BY DEF HitRow
  <2>4. Len(hits) \in Nat /\ Len(all) = Len(hits) + 1
    BY <1>1, <1>2, <2>3
  <2>5. CASE Len(hits) < MaxTracked
    <3>1. Moves(hits, all, k, <<>>, <<>>)
      BY <1>1, <1>2, <2>1, <2>5, Added
    <3>2. Public!Touch(k) = all
      BY <2>2, <2>4, <2>5, PublicNumbers
    <3> QED
      BY <3>1, <3>2
  <2>6. CASE Len(hits) = MaxTracked
    <3>1. Moves(hits, Tail(all), k, <<>>, <<>>)
      BY <1>1, <1>2, <2>1, <2>6, Replaced
    <3>2. Public!Touch(k) = Tail(all)
      BY <2>2, <2>4, <2>6, PublicNumbers
    <3> QED
      BY <3>1, <3>2
  <2> QED
    BY <1>1, <2>4, <2>5, <2>6, PublicNumbers
<1> QED
  BY <1>3, <1>4

\* The times that are left when the old ones have left.
LEMMA RecentRest ==
    ASSUME clock \in Nat, NEW x \in Seq(Nat), InOrder(x), \A i \in DOMAIN x : x[i] <= clock
    PROVE  Rest(x, Public!Recent(x), clock - LimitWindow, clock)
<1>1. PICK c \in Int : c = clock - LimitWindow
  BY PublicNumbers
<1>2. \E n \in 0 .. Len(x) : (\A i \in 1 .. n : x[i] <= c) /\ (n < Len(x) => ~(x[n + 1] <= c))
  BY OldOnes
<1>3. PICK g : g = CHOOSE n \in 0 .. Len(x) : (\A i \in 1 .. n : Public!Old(x, i)) /\ (n < Len(x) => ~Public!Old(x, n + 1))
  OBVIOUS
<1>4. \A i : Public!Old(x, i) <=> x[i] <= c
  BY <1>1 DEF Public!Old
<1>5. g \in 0 .. Len(x) /\ (\A i \in 1 .. g : x[i] <= c) /\ (g < Len(x) => ~(x[g + 1] <= c))
  BY <1>2, <1>3, <1>4
<1>6. Public!Recent(x) = SubSeq(x, g + 1, Len(x))
  BY <1>3 DEF Public!Recent
<1>7. Rest(x, SubSeq(x, g + 1, Len(x)), c, clock)
  BY <1>5, OldGone
<1> QED
  BY <1>1, <1>6, <1>7

\* What a request that comes makes of the line and of its key's times, and what it is told.
LEMMA CheckSlides ==
    ASSUME HitsInv, NEW path \in DOMAIN Path, NEW client \in Request, Public!Check(path, client)
    PROVE  \E k \in PublicKey : \E x, y, w :
               /\ Moves(hits, hits', k, x, y) /\ Slides(x, y, w, clock, PublicLimit[k[1]])
               /\ w \in Nat /\ asked' = Append(asked, [key |-> k, at |-> clock, wait |-> w])
<1> DEFINE k == <<Public!group(path), client>>
           g == Public!Touch(k)
           i == CHOOSE j \in DOMAIN g : g[j].key = k
           z == Public!Recent(g[i].at)
           m == PublicLimit[Public!group(path)]
<1>1. hits' = [g EXCEPT ![i].at = IF Len(z) < m THEN Append(z, clock) ELSE z]
  BY DEF Public!Check
<1>2. asked' = Append(asked, [key |-> k, at |-> clock, wait |-> IF Len(z) < m THEN 0 ELSE z[1] + (LimitWindow - clock)])
  BY DEF Public!Check
<1>3. k = <<Path[path], client>> /\ m = PublicLimit[k[1]] /\ Path[path] # "none"
  BY DEF Public!Check, Public!group
<1>4. (\E j \in DOMAIN g : g[j].key = k) => i \in DOMAIN g /\ g[i].key = k
  OBVIOUS
<1>5. g = Public!Touch(k)
  OBVIOUS
<1>6. z = Public!Recent(g[i].at)
  OBVIOUS
<1> HIDE DEF k, g, i, z, m
<1>7. k \in PublicKey /\ m \in Nat \ {0}
  <2>1. k \in PublicKey
    BY <1>3 DEF PublicKey
  <2> QED
    BY <1>3, <2>1, PublicNumbers
<1>8. PICK x : Moves(hits, g, k, x, x)
  BY <1>5, <1>7, TouchMoves
<1>9. i = Len(g) /\ g[i].at = x
  <2>1. <<>> \in Seq(Nat)
    OBVIOUS
  <2>2. /\ \A j \in DOMAIN g : g[j].key = k <=> j = Len(g)
        /\ Len(g) \in DOMAIN g /\ g[Len(g)].at = x
    BY <1>8, <2>1, Placing
  <2> QED
    BY <1>4, <2>2
<1>10. x \in Seq(Nat) /\ InOrder(x) /\ (\A j \in DOMAIN x : x[j] <= clock) /\ Len(x) <= m
  <2>1. Lined(hits, asked) /\ \A j \in DOMAIN hits : Timed(hits[j], clock)
    BY DEF HitsInv
  <2>2. x \in Seq(Nat)
    BY <1>8 DEF Moves
  <2>3. (Untracked(hits, k) /\ x = <<>>) \/ \E j \in DOMAIN hits : hits[j].key = k /\ hits[j].at = x
    BY <1>8, <2>1, TimesHad
  <2>4. CASE x = <<>>
    BY <1>7, <2>2, <2>4 DEF InOrder
  <2>5. CASE \E j \in DOMAIN hits : hits[j].key = k /\ hits[j].at = x
    <3>1. PICK j \in DOMAIN hits : hits[j].key = k /\ hits[j].at = x
      BY <2>5
    <3>2. Timed(hits[j], clock)
      BY <2>1
    <3> QED
      BY <1>3, <2>2, <3>1, <3>2 DEF Timed
  <2> QED
    BY <2>3, <2>4, <2>5
<1>11. Rest(x, z, clock - LimitWindow, clock) /\ clock \in Nat /\ z \in Seq(Nat)
  <2>1. clock \in Nat
    BY DEF HitsInv
  <2>2. Rest(x, Public!Recent(x), clock - LimitWindow, clock)
    BY <1>10, <2>1, RecentRest
  <2>3. z = Public!Recent(x)
    BY <1>6, <1>9
  <2> QED
    BY <2>1, <2>2, <2>3 DEF Rest
<1>12. CASE Len(z) < m
  <2>1. PICK y : y = Append(z, clock)
    OBVIOUS
  <2>2. Slides(x, y, 0, clock, m) /\ y \in Seq(Nat)
    BY <1>7, <1>11, <1>12, <2>1, GoesThrough
  <2>3. hits' = [g EXCEPT ![Len(g)].at = y] /\ asked' = Append(asked, [key |-> k, at |-> clock, wait |-> 0])
    BY <1>1, <1>2, <1>9, <1>12, <2>1
  <2>4. Moves(hits, [g EXCEPT ![Len(g)].at = y], k, x, y)
    BY <1>8, <2>2, Placing
  <2> QED
    BY <1>3, <1>7, <2>2, <2>3, <2>4
<1>13. CASE ~(Len(z) < m)
  <2>1. PICK w : w = z[1] + (LimitWindow - clock)
    OBVIOUS
  <2>2. Slides(x, z, w, clock, m)
    BY <1>7, <1>10, <1>11, <1>13, <2>1, GetsWait
  <2>3. hits' = [g EXCEPT ![Len(g)].at = z] /\ asked' = Append(asked, [key |-> k, at |-> clock, wait |-> w])
    BY <1>1, <1>2, <1>9, <1>13, <2>1
  <2>4. Moves(hits, [g EXCEPT ![Len(g)].at = z], k, x, z)
    BY <1>8, <1>11, Placing
  <2>5. w \in Nat
    BY <2>2 DEF Slides
  <2> QED
    BY <1>3, <1>7, <2>2, <2>3, <2>4, <2>5
<1> QED
  BY <1>12, <1>13

\* A request that comes.
LEMMA CheckKeeps ==
    ASSUME HitsInv, NEW path \in DOMAIN Path, NEW client \in Request, Public!Check(path, client)
    PROVE  HitsInv'
<1>0. PICK k \in PublicKey : \E x, y, w :
          /\ Moves(hits, hits', k, x, y) /\ Slides(x, y, w, clock, PublicLimit[k[1]])
          /\ w \in Nat /\ asked' = Append(asked, [key |-> k, at |-> clock, wait |-> w])
  BY CheckSlides
<1>1. PICK x, y, w :
          /\ Moves(hits, hits', k, x, y) /\ Slides(x, y, w, clock, PublicLimit[k[1]])
          /\ w \in Nat /\ asked' = Append(asked, [key |-> k, at |-> clock, wait |-> w])
  BY <1>0
<1>2. /\ clock \in Nat /\ asked \in Seq(AskRow)
      /\ Lined(hits, asked) /\ Crowded(hits, asked) /\ Told(asked)
      /\ \A q : AsksOf(asked, q) # {} => Since(hits, asked, q, clock)
      /\ \A i \in DOMAIN hits : Timed(hits[i], clock) /\ Awaited(hits[i], asked)
  BY DEF HitsInv
<1>3. PICK r : r = [key |-> k, at |-> clock, wait |-> w]
  OBVIOUS
<1>4. r \in AskRow /\ r.key = k /\ r.at = clock /\ r.wait = w
  BY <1>1, <1>2, <1>3 DEF AskRow
<1>5. PICK g, b : g = hits' /\ b = asked'
  OBVIOUS
<1>6. Follows(asked, r, b) /\ b \in Seq(AskRow)
  <2>1. Follows(asked, r, Append(asked, r))
    BY <1>2, <1>4, AskLast
  <2>2. Follows(asked, r, b)
    BY <1>1, <1>3, <1>5, <2>1
  <2> QED
    BY <2>2 DEF Follows
<1>7. Moves(hits, g, k, x, y)
  BY <1>1, <1>5
<1>8. clock' = clock
  BY DEF Public!Check
<1>9. Lined(g, b)
  BY <1>2, <1>4, <1>6, <1>7, LinedStep
<1>10. Crowded(g, b)
  BY <1>2, <1>4, <1>6, <1>7, CrowdedStep
<1>11. \A q : AsksOf(b, q) # {} => Since(g, b, q, clock)
  BY <1>1, <1>2, <1>4, <1>6, <1>7, SinceStep
<1>12. \A i \in DOMAIN g : Timed(g[i], clock)
  BY <1>1, <1>2, <1>7, TimedStep
<1>13. \A i \in DOMAIN g : Awaited(g[i], b)
  BY <1>1, <1>2, <1>4, <1>6, <1>7, AwaitedStep
<1>14. Told(b)
  BY <1>1, <1>2, <1>4, <1>6, <1>7, ToldStep
<1> QED
  BY <1>2, <1>5, <1>6, <1>8, <1>9, <1>10, <1>11, <1>12, <1>13, <1>14 DEF HitsInv

\* Days come in the order of their times.
LEMMA DaysInOrder ==
    ASSUME NEW d \in Nat \ {0}, NEW a \in Nat, NEW b \in Nat, a <= b
    PROVE  a \div d \in Nat /\ b \div d \in Nat /\ a \div d <= b \div d
<1>1. PICK p, q : p = a \div d /\ q = b \div d
  OBVIOUS
<1>2. p \in Nat /\ p * d <= a
  BY <1>1
<1>3. q \in Nat /\ b < q * d + d
  BY <1>1
<1>4. ~(q + 1 <= p)
  <2> SUFFICES ASSUME q + 1 <= p PROVE FALSE
    OBVIOUS
  <2>1. (q + 1) * d = q * d + d
    BY <1>3, Products
  <2>2. q + 1 \in Nat
    BY <1>3
  <2>3. (q + 1) * d <= p * d /\ (q + 1) * d \in Nat /\ p * d \in Nat /\ q * d \in Nat
    BY <1>2, <1>3, <2>2, Products
  <2> QED
    BY <1>2, <1>3, <2>1, <2>3
<1> QED
  BY <1>1, <1>2, <1>3, <1>4

\* Time goes on: in a longer window there is no more than in the one before.
LEMMA PublicTicks == ASSUME PublicInv, Public!Tick PROVE PublicInv'
<1>1. clock' = clock + 1 /\ UNCHANGED <<hits, asked, quota, routes>> /\ clock \in Nat
  BY DEF Public!Tick, PublicInv, HitsInv
<1>2. HitsInv'
  <2>1. /\ asked \in Seq(AskRow) /\ hits \in Seq(HitRow)
        /\ Lined(hits, asked) /\ Crowded(hits, asked) /\ Told(asked)
        /\ \A q : AsksOf(asked, q) # {} => Since(hits, asked, q, clock)
        /\ \A i \in DOMAIN hits : Timed(hits[i], clock) /\ Awaited(hits[i], asked)
    BY DEF PublicInv, HitsInv, Lined
  <2>2. ASSUME NEW q, AsksOf(asked, q) # {} PROVE Since(hits, asked, q, clock + 1)
    <3>1. PICK n \in DOMAIN asked : asked[n].key = q
      BY <2>2 DEF AsksOf
    <3>2. asked[n] \in AskRow
      BY <2>1, <3>1
    <3>3. q \in PublicKey
      BY <3>1, <3>2 DEF AskRow
    <3> QED
      BY <1>1, <2>1, <2>2, <3>3, SinceLater
  <2>3. ASSUME NEW i \in DOMAIN hits PROVE Timed(hits[i], clock + 1)
    <3>1. hits[i] \in HitRow
      BY <2>1
    <3>2. hits[i].at \in Seq(Nat)
      BY <3>1 DEF HitRow
    <3>3. \A j \in DOMAIN hits[i].at : hits[i].at[j] \in Nat
      BY <3>2
    <3> QED
      BY <1>1, <2>1, <3>3 DEF Timed
  <2>4. clock + 1 \in Nat
    BY <1>1
  <2>5. PICK c : c = clock + 1
    OBVIOUS
  <2>6. /\ c \in Nat /\ \A q : AsksOf(asked, q) # {} => Since(hits, asked, q, c)
        /\ \A i \in DOMAIN hits : Timed(hits[i], c)
    BY <2>2, <2>3, <2>4, <2>5
  <2>7. clock' = c /\ hits' = hits /\ asked' = asked
    BY <1>1, <2>5
  <2> QED
    BY <2>1, <2>6, <2>7 DEF HitsInv
<1>3. QuotaInv'
  <2>1. QuotaInv
    BY DEF PublicInv
  <2>2. clock \div QuotaDay <= (clock + 1) \div QuotaDay /\ clock \div QuotaDay \in Nat /\ (clock + 1) \div QuotaDay \in Nat
    BY <1>1, DaysInOrder, PublicNumbers
  <2>3. quota.day <= (clock + 1) \div QuotaDay
    BY <2>1, <2>2 DEF QuotaInv
  <2>4. \A d \in Int : RoutesOn(d)' = RoutesOn(d)
    BY <1>1 DEF RoutesOn
  <2>5. clock + 1 \in Nat
    BY <1>1
  <2> QED
    BY <1>1, <2>1, <2>3, <2>4, <2>5 DEF QuotaInv
<1> QED
  BY <1>2, <1>3 DEF PublicInv

\* A route is asked for while the allowance of the day lasts.
LEMMA RouteTaken == ASSUME QuotaInv, Public!Take PROVE QuotaInv'
<1>1. /\ clock \in Nat /\ quota \in [day : Int, used : Nat] /\ quota.used <= DailyLimit /\ quota.day <= clock \div QuotaDay
      /\ routes \in Seq(Nat) /\ \A n \in DOMAIN routes : routes[n] \div QuotaDay <= quota.day
      /\ \A d \in Int : /\ IsFiniteSet(RoutesOn(d)) /\ Cardinality(RoutesOn(d)) <= DailyLimit
                        /\ d = quota.day => Cardinality(RoutesOn(d)) <= quota.used
  BY DEF QuotaInv
<1>2. PICK today, used : today = clock \div QuotaDay /\ used = IF quota.day = today THEN quota.used ELSE 0
  OBVIOUS
<1>3. /\ quota' = [day |-> today, used |-> IF used < DailyLimit THEN used + 1 ELSE used]
      /\ routes' = IF used < DailyLimit THEN Append(routes, clock) ELSE routes
      /\ clock' = clock
  BY <1>2 DEF Public!Take
<1>4. today \in Nat /\ used \in Nat /\ used <= DailyLimit /\ quota.day \in Int /\ quota.used \in Nat /\ DailyLimit \in Nat
      /\ quota.day <= today
  <2>0. clock \in Nat /\ clock <= clock
    BY <1>1
  <2>1. clock \div QuotaDay \in Nat /\ DailyLimit \in Nat
    BY <2>0, DaysInOrder, PublicNumbers
  <2>2. quota.day \in Int /\ quota.used \in Nat
    BY <1>1
  <2>3. today \in Nat /\ quota.day <= today
    BY <1>1, <1>2, <2>1
  <2>4. used \in Nat /\ used <= DailyLimit
    BY <1>1, <1>2, <2>1, <2>2
  <2> QED
    BY <2>1, <2>2, <2>3, <2>4
<1>5. PICK new : new = IF used < DailyLimit THEN used + 1 ELSE used
  OBVIOUS
<1>6. new \in Nat /\ used <= new /\ new <= DailyLimit /\ quota' = [day |-> today, used |-> new]
  BY <1>3, <1>4, <1>5
<1>7. quota' \in [day : Int, used : Nat] /\ quota'.used = new /\ quota'.day = today
  BY <1>4, <1>6
<1>8. \A d \in Int : Cardinality(RoutesOn(d)) \in Nat
  BY <1>1, FS_CardinalityType
<1>9. Cardinality(RoutesOn(today)) <= used
  <2>1. CASE quota.day = today
    BY <1>1, <1>2, <1>4, <2>1
  <2>2. CASE quota.day # today
    <3>1. RoutesOn(today) = {}
      <4> SUFFICES ASSUME NEW n \in DOMAIN routes, routes[n] \div QuotaDay = today PROVE FALSE
        BY DEF RoutesOn
      <4>1. today <= quota.day
        BY <1>1
      <4> QED
        BY <1>4, <2>2, <4>1
    <3> QED
      BY <1>4, <3>1, FS_EmptySet
  <2> QED
    BY <2>1, <2>2
<1>10. CASE ~(used < DailyLimit)
  <2>1. routes' = routes /\ new = used
    BY <1>3, <1>5, <1>10
  <2>2. \A d \in Int : RoutesOn(d)' = RoutesOn(d)
    BY <2>1 DEF RoutesOn
  <2>3. \A n \in DOMAIN routes : routes[n] \div QuotaDay <= today
    <3> SUFFICES ASSUME NEW n \in DOMAIN routes PROVE routes[n] \div QuotaDay <= today
      OBVIOUS
    <3>1. routes[n] \in Nat /\ routes[n] \div QuotaDay <= quota.day
      BY <1>1
    <3>2. routes[n] \div QuotaDay \in Nat
      BY <3>1, DaysInOrder, PublicNumbers
    <3> QED
      BY <1>4, <3>1, <3>2
  <2>4. today <= clock' \div QuotaDay
    BY <1>2, <1>3, <1>4
  <2>5. \A d \in Int : /\ IsFiniteSet(RoutesOn(d)') /\ Cardinality(RoutesOn(d)') <= DailyLimit
                       /\ d = today => Cardinality(RoutesOn(d)') <= new
    BY <1>1, <1>9, <2>1, <2>2
  <2> QED
    BY <1>1, <1>3, <1>6, <1>7, <2>1, <2>3, <2>4, <2>5 DEF QuotaInv
<1>11. CASE used < DailyLimit
  <2>1. routes' = Append(routes, clock) /\ new = used + 1
    BY <1>3, <1>5, <1>11
  <2>2. PICK l \in Nat : l = Len(routes) /\ DOMAIN routes = 1 .. l
    BY <1>1
  <2>3. /\ routes' \in Seq(Nat) /\ DOMAIN routes' = 1 .. l + 1 /\ routes'[l + 1] = clock
        /\ \A n \in 1 .. l : routes'[n] = routes[n]
    BY <1>1, <2>1, <2>2
  <2>4. ASSUME NEW d \in Int PROVE RoutesOn(d)' = IF d = today THEN RoutesOn(d) \cup {l + 1} ELSE RoutesOn(d)
    <3>1. \A n \in 1 .. l + 1 : n \in 1 .. l \/ n = l + 1
      BY <2>2
    <3>2. 1 .. l \subseteq 1 .. l + 1 /\ l + 1 \in 1 .. l + 1
      BY <2>2
    <3>3. routes'[l + 1] \div QuotaDay = today
      BY <1>2, <2>3
    <3> QED
      BY <2>2, <2>3, <3>1, <3>2, <3>3 DEF RoutesOn
  <2>5. \A n \in DOMAIN routes' : routes'[n] \div QuotaDay <= today
    <3> SUFFICES ASSUME NEW n \in 1 .. l + 1 PROVE routes'[n] \div QuotaDay <= today
      BY <2>3
    <3>1. CASE n = l + 1
      BY <1>2, <1>4, <2>3, <3>1
    <3>2. CASE n \in 1 .. l
      <4>1. routes[n] \in Nat /\ routes[n] \div QuotaDay <= quota.day /\ routes'[n] = routes[n]
        <5>1. n \in DOMAIN routes
          BY <2>2, <3>2
        <5>2. routes[n] \in Nat /\ routes[n] \div QuotaDay <= quota.day
          BY <1>1, <5>1
        <5> QED
          BY <2>3, <3>2, <5>2
      <4>2. routes[n] \div QuotaDay \in Nat
        BY <4>1, DaysInOrder, PublicNumbers
      <4> QED
        BY <1>4, <4>1, <4>2
    <3> QED
      BY <2>2, <3>1, <3>2
  <2>6. today <= clock' \div QuotaDay
    BY <1>2, <1>3, <1>4
  <2>7. ASSUME NEW d \in Int PROVE /\ IsFiniteSet(RoutesOn(d)') /\ Cardinality(RoutesOn(d)') <= DailyLimit
                                   /\ d = today => Cardinality(RoutesOn(d)') <= new
    <3>1. CASE d # today
      BY <1>1, <2>4, <3>1
    <3>2. CASE d = today
      <4>1. RoutesOn(d)' = RoutesOn(d) \cup {l + 1} /\ IsFiniteSet(RoutesOn(d))
        BY <1>1, <2>4, <3>2
      <4>2. IsFiniteSet(RoutesOn(d) \cup {l + 1}) /\ Cardinality(RoutesOn(d) \cup {l + 1}) =
                IF l + 1 \in RoutesOn(d) THEN Cardinality(RoutesOn(d)) ELSE Cardinality(RoutesOn(d)) + 1
        BY <4>1, FS_AddElement
      <4>3. Cardinality(RoutesOn(d)) \in Nat /\ Cardinality(RoutesOn(d)) <= used
        BY <1>8, <1>9, <3>2
      <4>4. Cardinality(RoutesOn(d) \cup {l + 1}) <= used + 1
        BY <1>4, <4>2, <4>3
      <4> QED
        BY <1>6, <2>1, <3>2, <4>1, <4>2, <4>4, <1>4, FS_CardinalityType
    <3> QED
      BY <3>1, <3>2
  <2> QED
    BY <1>1, <1>3, <1>6, <1>7, <2>3, <2>5, <2>6, <2>7 DEF QuotaInv
<1> QED
  BY <1>10, <1>11

\* Every step.
LEMMA PublicStep == PublicInv /\ [Public!Next]_Public!limitVars => PublicInv'
<1> SUFFICES ASSUME PublicInv, [Public!Next]_Public!limitVars PROVE PublicInv'
  OBVIOUS
<1>1. HitsInv /\ QuotaInv
  BY DEF PublicInv
<1>2. ASSUME NEW path \in DOMAIN Path, NEW client \in Request, Public!Check(path, client) PROVE PublicInv'
  <2>1. HitsInv'
    BY <1>1, <1>2, CheckKeeps
  <2>2. UNCHANGED <<clock, quota, routes>>
    BY <1>2 DEF Public!Check
  <2>3. QuotaInv'
    BY <1>1, <2>2 DEF QuotaInv, RoutesOn
  <2> QED
    BY <2>1, <2>3 DEF PublicInv
<1>3. CASE Public!Refused
  BY <1>1, <1>3 DEF Public!Refused, PublicInv, HitsInv, QuotaInv, RoutesOn
<1>4. CASE Public!Take
  <2>1. QuotaInv'
    BY <1>1, <1>4, RouteTaken
  <2>2. UNCHANGED <<clock, hits, asked>>
    BY <1>4 DEF Public!Take
  <2> QED
    BY <1>1, <2>1, <2>2 DEF PublicInv, HitsInv
<1>5. CASE Public!Tick
  BY <1>5, PublicTicks
<1>6. CASE UNCHANGED Public!limitVars
  BY <1>1, <1>6 DEF Public!limitVars, PublicInv, HitsInv, QuotaInv, RoutesOn
<1> QED
  BY <1>2, <1>3, <1>4, <1>5, <1>6 DEF Public!Next

\* The limits are kept.
LEMMA PublicHolds == PublicInv => Public!LimitKept
<1> SUFFICES ASSUME PublicInv PROVE Public!LimitKept
  OBVIOUS
<1>1. HitsInv /\ QuotaInv
  BY DEF PublicInv
<1>2. clock \in Nat /\ asked \in Seq(AskRow) /\ Told(asked) /\ \A q : AsksOf(asked, q) # {} => Since(hits, asked, q, clock)
  BY <1>1 DEF HitsInv
<1>3. ASSUME NEW k \in {asked[n].key : n \in DOMAIN asked}, Public!Cardinality(Public!Let(k, clock - LimitWindow)) > PublicLimit[k[1]]
      PROVE  \E i, j \in Public!Of(k) : i < j /\ asked[i].at > clock - LimitWindow /\ Public!Forgotten(k, i, j)
  <2>1. \A n \in DOMAIN asked : asked[n] \in AskRow /\ n \in Nat
    BY <1>2
  <2>2. PICK l \in DOMAIN asked : asked[l].key = k
    BY <1>3
  <2>3. k \in PublicKey /\ AsksOf(asked, k) # {}
    BY <2>1, <2>2 DEF AskRow, AsksOf
  <2>4. PICK s \in AsksOf(asked, k) :
            /\ \A n \in AsksOf(asked, k) : n < s => Cardinality(Besides(asked, k, n, s)) >= MaxTracked
            /\ Cardinality(LetBy(asked, k, s, clock - LimitWindow)) <= PublicLimit[k[1]]
    BY <1>2, <2>3 DEF Since
  <2>5. PICK c \in Int : c = clock - LimitWindow
    BY <1>2, PublicNumbers
  <2>6. \E n \in Public!Let(k, c) : ~(n >= s)
    <3> SUFFICES ASSUME \A n \in Public!Let(k, c) : n >= s PROVE FALSE
      OBVIOUS
    <3>1. Public!Let(k, c) = LetBy(asked, k, s, c)
      BY DEF Public!Let, Public!Of, LetBy
    <3>2. Cardinality(LetBy(asked, k, s, c)) \in Nat /\ PublicLimit[k[1]] \in Nat
      BY <1>2, <2>3, AsksFinite, PublicNumbers
    <3>3. Cardinality(LetBy(asked, k, s, c)) > PublicLimit[k[1]]
      BY <1>3, <2>5, <3>1, SameCount
    <3> QED
      BY <2>4, <2>5, <3>2, <3>3
  <2>7. PICK n \in DOMAIN asked : asked[n].key = k /\ asked[n].at > c /\ ~(n >= s)
    BY <2>6 DEF Public!Let, Public!Of
  <2>8. n \in AsksOf(asked, k) /\ n \in Nat /\ s \in Nat /\ s \in DOMAIN asked /\ asked[s].key = k
    BY <2>1, <2>4, <2>7 DEF AsksOf
  <2>9. n < s
    BY <2>7, <2>8
  <2>10. Cardinality(Besides(asked, k, n, s)) >= MaxTracked
    BY <2>4, <2>8, <2>9
  <2>11. Public!Forgotten(k, n, s)
    BY <2>10, SameCount DEF Public!Forgotten, Besides
  <2> QED
    BY <2>5, <2>7, <2>8, <2>9, <2>11 DEF Public!Of
<1>4. ASSUME NEW k, NEW i \in Public!Of(k), NEW j \in Public!Of(k), i < j, asked[i].wait > 0,
             asked[j].at >= asked[i].at + asked[i].wait,
             \A n \in i .. j - 1 : n \in Public!Of(k) => asked[n].wait > 0
      PROVE  asked[j].wait = 0
  <2>1. i \in DOMAIN asked /\ j \in DOMAIN asked /\ asked[i].key = k /\ asked[j].key = k
    BY DEF Public!Of
  <2>2. \A n \in i .. j - 1 : n \in DOMAIN asked
    BY <1>2, <2>1
  <2>3. \A n \in i .. j - 1 : asked[n].key = asked[i].key => asked[n].wait > 0
    BY <1>4, <2>1, <2>2 DEF Public!Of
  <2> QED
    BY <1>2, <1>4, <2>1, <2>3 DEF Told
<1>5. ASSUME NEW n \in DOMAIN routes
      PROVE  Public!Cardinality({m \in DOMAIN routes : routes[m] \div QuotaDay = routes[n] \div QuotaDay}) <= DailyLimit
  <2>1. PICK d : d = routes[n] \div QuotaDay
    OBVIOUS
  <2>2. routes[n] \in Nat
    BY <1>1 DEF QuotaInv
  <2>3. d \in Int
    BY <2>1, <2>2, DaysInOrder, PublicNumbers
  <2>4. Cardinality(RoutesOn(d)) <= DailyLimit
    BY <1>1, <2>3 DEF QuotaInv
  <2> QED
    BY <2>1, <2>4, SameCount DEF RoutesOn
<1> QED
  BY <1>3, <1>4, <1>5 DEF Public!LimitKept

\* The limits are kept: more than the limit is let through in a window only to who was
\* forgotten in between, who waits as told is let through, and no day has more routes than
\* it may.
THEOREM RequestsAreLimited == Public!Spec => []Public!LimitKept
BY PublicInit, PublicStep, PublicHolds, PTL DEF Public!Spec

-----------------------------------------------------------------------------
(***************************************************************************)
(* The river forecast.                                                     *)
(***************************************************************************)
DayRow == [two : Nat, five : Nat, median : Nat]

\* A day stands above another, as the choice of the peak orders them.
Above(d, e) == \/ d.five > e.five
               \/ d.five = e.five /\ d.two > e.two
               \/ d.five = e.five /\ d.two = e.two /\ d.median > e.median

\* The first of the first n days that none of them is above.
PeakAt(days, n, i) ==
    /\ i \in 1 .. n
    /\ \A j \in 1 .. n : ~Above(days[j], days[i])
    /\ \A j \in 1 .. i - 1 : Above(days[i], days[j])

\* Days are ordered.
LEMMA Ordered ==
    \A d, e, f \in DayRow : /\ ~Above(d, d) /\ (Above(d, e) => ~Above(e, d))
                            /\ ~Above(e, d) /\ Above(f, d) => Above(f, e)
                            /\ Above(f, d) /\ Above(d, e) => Above(f, e)
BY DEF DayRow, Above

\* There is a peak, and it is found.
LEMMA PeakFound ==
    ASSUME NEW days \in Seq(DayRow) \ {<<>>}
    PROVE  \E i \in DOMAIN days : /\ River!Peak(days) = days[i] /\ days[i] \in DayRow
                                  /\ \A j \in DOMAIN days : days[j] \in DayRow /\ ~Above(days[j], days[i])
<1>1. DOMAIN days = 1 .. Len(days) /\ Len(days) \in Nat /\ Len(days) # 0 /\ \A i \in 1 .. Len(days) : days[i] \in DayRow
  OBVIOUS
<1> DEFINE P == {n \in Nat : n < Len(days) => \E i : PeakAt(days, n + 1, i)}
<1>2. 0 \in P
  <2>1. \A j \in 1 .. 1 : j = 1
    OBVIOUS
  <2>2. \A j \in 1 .. 1 - 1 : FALSE
    OBVIOUS
  <2>3. PeakAt(days, 1, 1)
    BY <1>1, <2>1, <2>2, Ordered DEF PeakAt
  <2> QED
    BY <2>3
<1>3. ASSUME NEW n \in Nat, n \in P PROVE n + 1 \in P
  <2> SUFFICES ASSUME n + 1 < Len(days) PROVE \E i : PeakAt(days, n + 2, i)
    BY <1>3
  <2>1. PICK i : PeakAt(days, n + 1, i)
    BY <1>1, <1>3
  <2>2. /\ i \in 1 .. n + 1 /\ (\A j \in 1 .. n + 1 : ~Above(days[j], days[i]))
        /\ \A j \in 1 .. i - 1 : Above(days[i], days[j])
    BY <2>1 DEF PeakAt
  <2>3. \A j \in 1 .. n + 2 : j \in 1 .. n + 1 \/ j = n + 2
    OBVIOUS
  <2>4. \A j \in 1 .. n + 2 : days[j] \in DayRow
    BY <1>1
  <2>5. n + 2 \in 1 .. n + 2 /\ i \in 1 .. n + 2 /\ (n + 2) - 1 = n + 1
    BY <2>2
  <2>6. CASE Above(days[n + 2], days[i])
    <3>1. \A j \in 1 .. n + 1 : days[j] \in DayRow /\ ~Above(days[j], days[i])
      BY <2>2, <2>4
    <3>2. days[n + 2] \in DayRow /\ days[i] \in DayRow
      BY <2>4, <2>5
    <3>3. \A j \in 1 .. n + 1 : Above(days[n + 2], days[j])
      BY <2>6, <3>1, <3>2, Ordered
    <3>4. \A j \in 1 .. n + 1 : ~Above(days[j], days[n + 2])
      BY <3>1, <3>2, <3>3, Ordered
    <3>5. ~Above(days[n + 2], days[n + 2])
      BY <3>2, Ordered
    <3> QED
      BY <2>3, <2>5, <3>3, <3>4, <3>5 DEF PeakAt
  <2>7. CASE ~Above(days[n + 2], days[i])
    BY <2>2, <2>3, <2>5, <2>7 DEF PeakAt
  <2> QED
    BY <2>6, <2>7
<1>4. Nat \subseteq P
  <2> HIDE DEF P
  <2> QED
    BY <1>2, <1>3, Induction
<1>5. Len(days) - 1 \in P /\ Len(days) - 1 \in Nat /\ Len(days) - 1 < Len(days) /\ (Len(days) - 1) + 1 = Len(days)
  <2>1. Len(days) - 1 \in Nat
    BY <1>1
  <2> HIDE DEF P
  <2> QED
    BY <1>1, <1>4, <2>1
<1>6. \E i : PeakAt(days, Len(days), i)
  <2>1. \E i : PeakAt(days, (Len(days) - 1) + 1, i)
    BY <1>5
  <2> QED
    BY <1>5, <2>1
<1> DEFINE Is(i) == /\ \A j \in DOMAIN days : ~Above(days[j], days[i])
                    /\ \A j \in 1 .. i - 1 : Above(days[i], days[j])
<1>7. \E i \in DOMAIN days : Is(i)
  BY <1>1, <1>6 DEF PeakAt
<1>8. River!Peak(days) = days[CHOOSE i \in DOMAIN days : Is(i)]
  BY DEF River!Peak, Above
<1>9. PICK i \in DOMAIN days : Is(i) /\ i = CHOOSE k \in DOMAIN days : Is(k)
  <2> HIDE DEF Is
  <2> QED
    BY <1>7
<1> QED
  BY <1>1, <1>8, <1>9

\* The warning that is shown of a river is that of its week, and what the trained
\* model is said to say is what the rain of its catchment made of it.
WeekStands(shown) ==
    LET Days == {shown.days[n] : n \in DOMAIN shown.days} IN
    /\ shown.level = "severe" <=> \E day \in Days : day.five >= 50
    /\ \E day \in Days : River!Rank[River!Level(day)] >= River!Rank[shown.level]
    /\ (\A day \in Days : day.five = 0) =>
           \A day \in Days : River!Rank[River!Level(day)] <= River!Rank[shown.level]
AiStands(i, ai, rain) == ai \in {"likely", "unlikely"} => i \in UsedRiver /\ ai = rain
Stands(f) == f.points # <<>> => \A i \in RiverPoint : WeekStands(f.points[i]) /\ AiStands(i, f.ai[i], f.rain[i])

\* Who reads holds the lock, and the ensemble is that of the request that asks the
\* trained model.
RiverInv ==
    /\ forecast # None => Stands(forecast)
    /\ line \in Seq(Request) /\ reader \in [Request -> {"idle", "waiting", "glofas", "ai"}]
    /\ \A r \in Request : reader[r] # "idle" => \E i \in DOMAIN line : line[i] = r
    /\ \A r \in Request : reader[r] \in {"glofas", "ai"} => Head(line) = r
    /\ \A r \in Request : reader[r] = "ai" => ensemble \in Ensembles

\* What the invariant says is what is promised.
LEMMA RiverHolds == RiverInv => River!ForecastStands
BY DEF RiverInv, Stands, WeekStands, AiStands, River!ForecastStands

\* The level of the peak is that of the week.
LEMMA PeakStands ==
    ASSUME NEW days \in Seq(DayRow) \ {<<>>}, NEW shown, shown = River!assess_point(days)
    PROVE  WeekStands(shown)
<1>1. PICK i \in DOMAIN days : /\ River!Peak(days) = days[i] /\ days[i] \in DayRow
                               /\ \A j \in DOMAIN days : days[j] \in DayRow /\ ~Above(days[j], days[i])
  BY PeakFound
<1>2. shown.level = River!Level(days[i]) /\ shown.days = days
  BY <1>1 DEF River!assess_point
<1>3. \A d, e \in DayRow : ~Above(d, e) =>
          /\ River!Level(e) = "severe" <=> e.five >= 50
          /\ d.five >= 50 => e.five >= 50
          /\ d.five = 0 /\ e.five = 0 => River!Rank[River!Level(d)] <= River!Rank[River!Level(e)]
  <2>1. \A d \in DayRow : /\ River!Level(d) = "severe" <=> d.five >= 50
                          /\ River!Rank[River!Level(d)] = IF d.five >= 50 THEN 3 ELSE IF d.two >= 50 THEN 2
                                                          ELSE IF d.two >= 20 THEN 1 ELSE 0
    BY DEF River!Level, River!Rank
  <2> SUFFICES ASSUME NEW d \in DayRow, NEW e \in DayRow, ~Above(d, e)
               PROVE  /\ River!Level(e) = "severe" <=> e.five >= 50
                      /\ d.five >= 50 => e.five >= 50
                      /\ d.five = 0 /\ e.five = 0 => River!Rank[River!Level(d)] <= River!Rank[River!Level(e)]
    OBVIOUS
  <2>2. d.five \in Nat /\ d.two \in Nat /\ e.five \in Nat /\ e.two \in Nat
    BY DEF DayRow
  <2>3. d.five <= e.five /\ (d.five = 0 /\ e.five = 0 => d.two <= e.two)
    BY <2>2 DEF Above
  <2> QED
    BY <2>1, <2>2, <2>3
<1>4. River!Rank[River!Level(days[i])] >= River!Rank[River!Level(days[i])]
  BY DEF River!Level, River!Rank
<1>5. River!Level(days[i]) = "severe" <=> days[i].five >= 50
  BY DEF River!Level
<1> QED
  BY <1>1, <1>2, <1>3, <1>4, <1>5 DEF WeekStands

\* Nobody reads at first.
LEMMA RiverInit == River!Init => RiverInv
BY DEF River!Init, RiverInv

\* A request that leaves gives the lock to the next.
LEMMA ReaderLeaves ==
    ASSUME RiverInv, NEW r \in Request, Head(line) = r, reader[r] # "idle", River!Leave(r),
           forecast' # None => Stands(forecast')
    PROVE  RiverInv'
<1>1. /\ line \in Seq(Request) /\ reader \in [Request -> {"idle", "waiting", "glofas", "ai"}]
      /\ reader' = [reader EXCEPT ![r] = "idle"] /\ line' = Tail(line)
  BY DEF RiverInv, River!Leave
<1>2. PICK k \in DOMAIN line : line[k] = r
  BY DEF RiverInv
<1>3. line # <<>> /\ line' \in Seq(Request) /\ line[1] = r /\ Len(line) \in Nat /\ Len(line') = Len(line) - 1
      /\ \A i \in 1 .. Len(line) - 1 : line'[i] = line[i + 1]
  BY <1>1, <1>2
<1>4. \A q \in Request : reader'[q] # "idle" => q # r /\ reader'[q] = reader[q]
  BY <1>1
<1>5. \A q \in Request : reader'[q] # "idle" => reader'[q] = "waiting"
  BY <1>1, <1>4 DEF RiverInv
<1>6. ASSUME NEW q \in Request, reader'[q] # "idle" PROVE \E i \in DOMAIN line' : line'[i] = q
  <2>1. PICK i \in DOMAIN line : line[i] = q
    BY <1>4, <1>6 DEF RiverInv
  <2>2. i \in 1 .. Len(line) /\ i # 1
    BY <1>1, <1>3, <1>4, <1>6, <2>1
  <2>3. i - 1 \in 1 .. Len(line) - 1 /\ (i - 1) + 1 = i
    BY <1>3, <2>2
  <2>4. i - 1 \in DOMAIN line' /\ line'[i - 1] = q
    BY <1>3, <2>1, <2>3
  <2> QED
    BY <2>4
<1> QED
  BY <1>1, <1>3, <1>5, <1>6 DEF RiverInv

\* Every step of the river forecast preserves what is promised.
LEMMA RiverStep == RiverInv /\ [River!Next]_River!riverVars => RiverInv'
<1> SUFFICES ASSUME RiverInv, [River!Next]_River!riverVars PROVE RiverInv'
  OBVIOUS
<1>0. line \in Seq(Request) /\ reader \in [Request -> {"idle", "waiting", "glofas", "ai"}]
  BY DEF RiverInv
<1>1. CASE River!Tick \/ UNCHANGED River!riverVars
  BY <1>1 DEF River!Tick, River!riverVars, RiverInv
<1>2. ASSUME NEW r \in Request, River!Ask(r) PROVE RiverInv'
  <2>1. /\ reader[r] = "idle" /\ reader' = [reader EXCEPT ![r] = "waiting"] /\ line' = Append(line, r)
        /\ UNCHANGED <<forecast, ensemble>>
    BY <1>2 DEF River!Ask
  <2>2. line' \in Seq(Request) /\ Len(line') = Len(line) + 1 /\ Len(line) \in Nat /\ line'[Len(line) + 1] = r
        /\ \A i \in DOMAIN line : i \in DOMAIN line' /\ line'[i] = line[i]
    BY <1>0, <2>1
  <2>3. Len(line) + 1 \in DOMAIN line'
    BY <2>2
  <2>4. ASSUME NEW q \in Request, reader'[q] # "idle" PROVE \E i \in DOMAIN line' : line'[i] = q
    BY <1>0, <2>1, <2>2, <2>3, <2>4 DEF RiverInv
  <2>5. ASSUME NEW q \in Request, reader'[q] \in {"glofas", "ai"} PROVE Head(line') = q /\ reader[q] = reader'[q]
    <3>1. reader[q] = reader'[q] /\ reader[q] # "idle" /\ Head(line) = q
      BY <1>0, <2>1, <2>5 DEF RiverInv
    <3>2. PICK i \in DOMAIN line : line[i] = q
      BY <3>1 DEF RiverInv
    <3>3. Head(line') = Head(line)
      BY <1>0, <2>1, <2>2, <3>2
    <3> QED
      BY <3>1, <3>3
  <2> QED
    BY <1>0, <2>1, <2>2, <2>4, <2>5 DEF RiverInv
<1>3. ASSUME NEW r \in Request, River!Cached(r) PROVE RiverInv'
  BY <1>3, ReaderLeaves DEF River!Cached, River!Turn, RiverInv
<1>4. ASSUME NEW r \in Request, River!Begin(r) PROVE RiverInv'
  BY <1>0, <1>4 DEF River!Begin, River!Turn, RiverInv
<1>5. ASSUME NEW r \in Request, NEW week \in Ensembles, River!Glofas(r, week) PROVE RiverInv'
  BY <1>0, <1>5 DEF River!Glofas, RiverInv
<1>6. ASSUME NEW r \in Request, River!GlofasFails(r) PROVE RiverInv'
  <2>1. Stands(forecast')
    BY <1>6 DEF River!GlofasFails, River!Keep, Stands
  <2> QED
    BY <1>6, <2>1, ReaderLeaves DEF River!GlofasFails, RiverInv
<1>7. ASSUME NEW r \in Request, River!Malformed(r) PROVE RiverInv'
  BY <1>7, ReaderLeaves DEF River!Malformed, RiverInv
<1>8. ASSUME NEW r \in Request, NEW rain \in River!Rain, River!Served(r, rain) PROVE RiverInv'
  <2>1. ensemble \in Ensembles /\ Head(line) = r /\ reader[r] # "idle" /\ River!Leave(r)
    BY <1>8 DEF River!Served, RiverInv
  <2>2. /\ forecast'.points = [i \in RiverPoint |-> River!assess_point(ensemble[i])]
        /\ forecast'.ai = [i \in RiverPoint |-> River!Ai(i, rain[i])] /\ forecast'.rain = rain
    BY <1>8 DEF River!Served, River!Keep
  <2>3. \A i \in RiverPoint : WeekStands(forecast'.points[i])
    BY <2>1, <2>2, DataAssumption, PeakStands DEF DayRow
  <2>4. \A i \in RiverPoint : AiStands(i, forecast'.ai[i], forecast'.rain[i])
    BY <2>2 DEF AiStands, River!Ai
  <2> QED
    BY <2>1, <2>3, <2>4, ReaderLeaves DEF Stands
<1> QED
  BY <1>1, <1>2, <1>3, <1>4, <1>5, <1>6, <1>7, <1>8 DEF River!Next

-----------------------------------------------------------------------------
(***************************************************************************)
(* The weather and the outlook.                                            *)
(***************************************************************************)
\* A forecast says which of its days it knows, and an outlook has its window.
Weatherly(w) ==
    w.status # "unavailable" =>
        LET today == w.retrieved \div FeedDay
            known == {d \in DOMAIN w.forecast : w.forecast[d] # "none"} IN
        /\ known \cup w.missing = today .. today + Week - 1 /\ known \cap w.missing = {}
        /\ w.status = "available" <=> /\ w.now = "all"
                                      /\ {d \in known : w.forecast[d] = "all"} = today .. today + Week - 1
        /\ w.stale <=> w.at < w.retrieved - 1
Outlooked(o) ==
    o.status = "available" =>
        Cardinality(o.rows) = RainWindow /\ \A h \in o.rows : h < o.from /\ h >= o.from - RainWindow

FeedsInv == clock \in Nat /\ Weatherly(weather) /\ Outlooked(outlook)

\* What the invariant says is what is promised.
LEMMA FeedsHold == FeedsInv => Feeds!FeedsCurrent
BY SameCount DEF FeedsInv, Weatherly, Outlooked, Feeds!FeedsCurrent

\* An answer that is read is given for the days from the one it is read on.
LEMMA WeatherRead ==
    ASSUME NEW hour \in Int, NEW payload \in Feeds!Payload(hour), NEW now \in Nat,
           NEW answer, answer = Feeds!parse_weather(payload, now)
    PROVE  Weatherly(answer)
<1>1. PICK days \in {Feeds!Dates(hour), Feeds!Dates(hour) \ {hour \div FeedDay + Week - 1}} :
          payload \in [hour : {hour}, at : {hour - 2, hour}, now : Feeds!Worth, days : [days -> Feeds!Worth],
                       hourly : {"whole", "bad", "absent"}]
  BY DEF Feeds!Payload
<1>2. payload.at \in Int
  BY <1>1
<1> DEFINE known == {d \in DOMAIN payload.days : payload.days[d] # "none"}
           week == Feeds!Dates(now)
<1>3. CASE ~(DOMAIN payload.days \subseteq week) \/ (known = {} /\ payload.now = "none")
  BY <1>3 DEF Feeds!parse_weather, Feeds!Expected, Feeds!Unavailable, Weatherly
<1>4. CASE DOMAIN payload.days \subseteq week /\ ~(known = {} /\ payload.now = "none")
  <2> DEFINE whole == week \subseteq known /\ payload.now = "all" /\ \A d \in DOMAIN payload.days : payload.days[d] = "all"
  <2>1. /\ answer.status = (IF whole THEN "available" ELSE "partial") /\ answer.retrieved = now
        /\ answer.forecast = payload.days /\ answer.missing = week \ known
        /\ answer.now = payload.now /\ (answer.stale <=> now - payload.at > 1) /\ answer.at = payload.at
    BY <1>4 DEF Feeds!parse_weather, Feeds!Expected
  <2>2. week = now \div FeedDay .. now \div FeedDay + Week - 1
    BY DEF Feeds!Dates
  <2>3. {d \in DOMAIN answer.forecast : answer.forecast[d] # "none"} = known
    BY <2>1
  <2>4. known \cup answer.missing = week /\ known \cap answer.missing = {}
    BY <1>4, <2>1
  <2>5. answer.status = "available" <=> answer.now = "all" /\ {d \in known : answer.forecast[d] = "all"} = week
    <3>1. whole => {d \in known : payload.days[d] = "all"} = week
      BY <1>4
    <3>2. {d \in known : payload.days[d] = "all"} = week /\ payload.now = "all" => whole
      BY <1>4
    <3> QED
      BY <2>1, <3>1, <3>2
  <2>6. answer.stale <=> answer.at < answer.retrieved - 1
    BY <1>2, <2>1
  <2> HIDE DEF known, week
  <2> QED
    BY <2>1, <2>2, <2>3, <2>4, <2>5, <2>6 DEF Weatherly
<1> QED
  BY <1>3, <1>4

\* An outlook has each hour of its window, all before its horizon.
LEMMA OutlookRead ==
    ASSUME NEW rows, NEW now \in Nat, NEW answer, answer = Feeds!predict(rows, now)
    PROVE  Outlooked(answer)
<1> DEFINE from == now + 1
           hours == from - RainWindow .. from - 1
<1>1. CASE ~(hours \subseteq rows)
  BY <1>1 DEF Feeds!predict, Feeds!Complete, Feeds!Unavailable, Outlooked
<1>2. CASE hours \subseteq rows
  <2>1. answer.rows = hours /\ answer.from = from
    BY <1>2 DEF Feeds!predict, Feeds!Complete
  <2>2. Cardinality(hours) = RainWindow
    <3>1. from - RainWindow \in Int /\ from - 1 \in Int
      BY DataAssumption
    <3> HIDE DEF from
    <3>2. Cardinality(hours) = IF from - RainWindow > from - 1 THEN 0 ELSE (from - 1) - (from - RainWindow) + 1
      BY <3>1, FS_Interval
    <3> USE DEF from
    <3> QED
      BY <3>2, DataAssumption
  <2>3. \A h \in hours : h < from /\ h >= from - RainWindow
    BY DataAssumption
  <2>4. \A h \in answer.rows : h < answer.from /\ h >= answer.from - RainWindow
    BY <2>1, <2>3
  <2> HIDE DEF hours, from
  <2> QED
    BY <2>1, <2>2, <2>4 DEF Outlooked
<1> QED
  BY <1>1, <1>2

\* The feeds begin with nothing to tell.
LEMMA FeedsInit == Feeds!Init => FeedsInv
BY DEF Feeds!Init, Feeds!Unavailable, FeedsInv, Weatherly, Outlooked

\* Every step of the feeds preserves what is promised.
LEMMA FeedsStep == FeedsInv /\ [Feeds!Next]_Feeds!feedVars => FeedsInv'
<1> SUFFICES ASSUME FeedsInv, [Feeds!Next]_Feeds!feedVars PROVE FeedsInv'
  OBVIOUS
<1>0. Weatherly(Feeds!Unavailable) /\ Outlooked(Feeds!Unavailable)
  BY DEF Feeds!Unavailable, Weatherly, Outlooked
<1>1. CASE Feeds!Weather
  <2>1. PICK hour \in asking["weather"] .. clock : \E payload \in Feeds!Payload(hour) : weather' = Feeds!parse_weather(payload, clock)
    BY <1>1 DEF Feeds!Weather
  <2>2. Weatherly(weather')
    BY <2>1, WeatherRead DEF FeedsInv
  <2> QED
    BY <1>1, <2>2 DEF Feeds!Weather, FeedsInv, Weatherly
<1>2. CASE Feeds!Rainfall
  <2>1. Outlooked(outlook')
    BY <1>2, OutlookRead DEF Feeds!Rainfall, FeedsInv
  <2> QED
    BY <1>2, <2>1 DEF Feeds!Rainfall, FeedsInv, Outlooked
<1>3. CASE Feeds!WeatherFails \/ Feeds!OutlookFails \/ \E e \in DOMAIN asking : Feeds!Ask(e)
  BY <1>0, <1>3 DEF Feeds!WeatherFails, Feeds!OutlookFails, Feeds!Ask, FeedsInv, Weatherly, Outlooked
<1>4. CASE Feeds!Tick \/ UNCHANGED Feeds!feedVars
  BY <1>4 DEF Feeds!Tick, Feeds!feedVars, FeedsInv, Weatherly, Outlooked
<1> QED
  BY <1>1, <1>2, <1>3, <1>4 DEF Feeds!Next

-----------------------------------------------------------------------------
(***************************************************************************)
(* The warnings by day.                                                    *)
(***************************************************************************)
\* A bulletin that has been issued, for the days from then on.
Issued(read, now) ==
    /\ read.issued \in Nat /\ read.issued <= now \div WarningDay
    /\ Len(read.days) \in Nat /\ DOMAIN read.days = 1 .. Len(read.days)

\* A day is worth telling: as it is decoded, and as the bulletin says.
Tellable(d) == d.level \in {"orange", "red"} /\ d.warnings # {}
Tellworthy(x) ==
    /\ x.colour \in {c \in DOMAIN DAY_COLOURS : DAY_COLOURS[c] \in {"orange", "red"}}
    /\ x.codes \cap (WARNING_CODES \ {"none"}) # {}

\* A bulletin says of a date that there is something to relay.
SaysOf(read, date) == read.days[date - read.issued + 1]
WorthTelling(read, date) ==
    /\ date - read.issued + 1 \in DOMAIN read.days
    /\ Tellworthy(SaysOf(read, date))

\* An answer that tells of today and tomorrow.
Tells(answer) ==
    IF answer.read = None \/ answer.today - answer.read.issued >= STALE_DAYS THEN answer.days = {} /\ answer.suggestions = {}
    ELSE /\ {d.date : d \in answer.days} \subseteq {answer.today, answer.today + 1}
         /\ {<<s.when, s.date, s.level>> : s \in answer.suggestions} =
               {<<w[1], w[2], DAY_COLOURS[SaysOf(answer.read, w[2]).colour]>> :
                w \in {v \in {<<"today", answer.today>>, <<"tomorrow", answer.today + 1>>} : WorthTelling(answer.read, v[2])}}

WarningsInv ==
    /\ clock \in Nat /\ Issued(bulletin, clock)
    /\ imd.read # None => Issued(imd.read, clock)
    /\ notice # None => Tells(notice)

\* What the invariant says is what is promised.
LEMMA WarningsHold == WarningsInv => Warnings!WarningsDated
BY DEF WarningsInv, Tells, WorthTelling, Tellworthy, SaysOf, Warnings!WarningsDated

\* Of days that follow one another from today, the first two are today and tomorrow.
LEMMA Firsts ==
    ASSUME NEW D, NEW today \in Int, IsFiniteSet(D),
           \A d \in D : d.date \in Int /\ d.date >= today,
           \A d, e \in D : d.date = e.date => d = e,
           \A d \in D : \A n \in Int : today <= n /\ n <= d.date => \E e \in D : e.date = n
    PROVE  /\ Warnings!First(D, 2) = {d \in D : d.date <= today + 1}
           /\ Warnings!First(Warnings!First(D, 2), 1) = {d \in D : d.date = today}
<1> DEFINE Earlier(S, d) == {e \in S : e.date < d.date}
<1>1. \A d \in D : d.date = today => Earlier(D, d) = {} /\ Cardinality(Earlier(D, d)) = 0
  BY FS_EmptySet
<1>2. ASSUME NEW d \in D, d.date = today + 1
      PROVE  Cardinality(Earlier(D, d)) = 1
  <2>1. PICK e \in D : e.date = today
    BY <1>2
  <2>2. Earlier(D, d) = {e}
    BY <1>2, <2>1
  <2> QED
    BY <2>2, FS_Singleton
<1>3. ASSUME NEW d \in D, d.date > today + 1
      PROVE  Cardinality(Earlier(D, d)) \in Nat /\ Cardinality(Earlier(D, d)) >= 2
  <2>1. today + 1 \in Int /\ today <= today + 1 /\ today + 1 <= d.date /\ today <= d.date
    BY <1>3
  <2>2. PICK e \in D : e.date = today
    BY <2>1
  <2>3. PICK f \in D : f.date = today + 1
    BY <2>1
  <2>4. PICK S : S = {e}
    OBVIOUS
  <2>5. S \cup {f} \subseteq Earlier(D, d) /\ f \notin S /\ Earlier(D, d) \subseteq D
    BY <1>3, <2>2, <2>3, <2>4
  <2>6. IsFiniteSet(S) /\ Cardinality(S) = 1
    BY <2>4, FS_Singleton
  <2> HIDE DEF Earlier
  <2>7. Cardinality(S \cup {f}) = 2
    <3>1. f \notin S
      BY <2>5
    <3>2. Cardinality(S \cup {f}) = IF f \in S THEN Cardinality(S) ELSE Cardinality(S) + 1
      BY <2>6, FS_AddElement
    <3> QED
      BY <2>6, <3>1, <3>2
  <2>8. IsFiniteSet(Earlier(D, d))
    BY <2>5, FS_Subset
  <2>9. Cardinality(S \cup {f}) <= Cardinality(Earlier(D, d)) /\ Cardinality(Earlier(D, d)) \in Nat
    BY <2>5, <2>8, FS_Subset, FS_CardinalityType
  <2> QED
    BY <2>7, <2>9
<1>4. \A d \in D : Cardinality(Earlier(D, d)) < 2 <=> d.date <= today + 1
  <2> HIDE DEF Earlier
  <2> QED
    BY <1>1, <1>2, <1>3
<1>5. Warnings!First(D, 2) = {d \in D : d.date <= today + 1}
  BY <1>4, SameCount DEF Warnings!First
<1> DEFINE F == {d \in D : d.date <= today + 1}
<1>6. \A d \in F : Earlier(F, d) = Earlier(D, d) /\ (d.date = today \/ d.date = today + 1)
  OBVIOUS
<1>7. \A d \in F : Cardinality(Earlier(F, d)) < 1 <=> d.date = today
  <2>1. \A d \in F : d \in D
    OBVIOUS
  <2> HIDE DEF Earlier, F
  <2> QED
    BY <1>1, <1>2, <1>6, <2>1
<1>8. Warnings!First(F, 1) = {d \in F : d.date = today}
  BY <1>7, SameCount DEF Warnings!First
<1> QED
  BY <1>5, <1>8

\* What a day is decoded to is worth telling where what the bulletin says is.
LEMMA Decodes ==
    ASSUME NEW x, NEW date
    PROVE  LET d == Warnings!decode_day(x, date) IN
           /\ Tellable(d) <=> Tellworthy(x)
           /\ Tellable(d) => d.level = DAY_COLOURS[x.colour]
<1> DEFINE numbers == x.codes \cap WARNING_CODES
<1>1. PICK d : d = Warnings!decode_day(x, date)
  OBVIOUS
<1>2. CASE x.colour \in DOMAIN DAY_COLOURS /\ numbers # {}
  <2>1. d.level = DAY_COLOURS[x.colour] /\ d.warnings = numbers \ {"none"}
    BY <1>1, <1>2 DEF Warnings!decode_day
  <2>2. numbers \ {"none"} = x.codes \cap (WARNING_CODES \ {"none"})
    OBVIOUS
  <2> HIDE DEF numbers
  <2> QED
    BY <1>1, <1>2, <2>1, <2>2 DEF Tellable, Tellworthy
<1>3. CASE ~(x.colour \in DOMAIN DAY_COLOURS /\ numbers # {})
  <2>1. d.warnings = {}
    BY <1>1, <1>3 DEF Warnings!decode_day
  <2>2. x.colour \notin DOMAIN DAY_COLOURS \/ x.codes \cap (WARNING_CODES \ {"none"}) = {}
    BY <1>3
  <2> HIDE DEF numbers
  <2> QED
    BY <1>1, <2>1, <2>2 DEF Tellable, Tellworthy
<1> QED
  BY <1>2, <1>3

\* What is told is what the bulletin says of today and of tomorrow.
LEMMA AnswerTells ==
    ASSUME NEW read, NEW now \in Nat, NEW today, today = now \div WarningDay, read # None => Issued(read, now),
           NEW days, days = (IF read = None THEN {} ELSE Warnings!karnataka_districts(read, today)),
           NEW answer, answer = [today |-> today, read |-> read, days |-> days,
                                 suggestions |-> Warnings!official_suggestions(days)]
    PROVE  Tells(answer)
<1> DEFINE Decoded(i) == Warnings!decode_day(read.days[i], read.issued + i - 1)
           all == {Decoded(i) : i \in DOMAIN read.days}
           left == Warnings!Remaining(all, today)
<1>0. /\ answer.today = today /\ answer.read = read /\ answer.days = days
      /\ answer.suggestions = Warnings!official_suggestions(days)
  OBVIOUS
<1>1. today \in Nat
  BY DataAssumption
<1>2. Warnings!official_suggestions({}) = {}
  BY DEF Warnings!official_suggestions
<1>3. CASE read = None \/ (today - read.issued >= STALE_DAYS)
  <2>1. days = {}
    BY <1>3 DEF Warnings!karnataka_districts, Warnings!Stale
  <2> QED
    BY <1>0, <1>2, <1>3, <2>1 DEF Tells
<1>4. CASE ~(read = None \/ (today - read.issued >= STALE_DAYS))
  <2>1. /\ read.issued \in Nat /\ read.issued <= today /\ Len(read.days) \in Nat
        /\ DOMAIN read.days = 1 .. Len(read.days)
    BY <1>4 DEF Issued
  <2>2. \A i \in DOMAIN read.days : Decoded(i).date = read.issued + i - 1
    BY DEF Warnings!decode_day
  <2>3. days = IF left = {} THEN {} ELSE Warnings!First(left, 2)
    BY <1>4 DEF Warnings!karnataka_districts, Warnings!Stale
  <2>4. IsFiniteSet(left)
    <3> DEFINE f == [i \in 1 .. Len(read.days) |-> Decoded(i)]
    <3>1. f \in Surjection(1 .. Len(read.days), all)
      BY <2>1 DEF Surjection
    <3>2. IsFiniteSet(1 .. Len(read.days))
      BY <2>1, FS_Interval
    <3>3. IsFiniteSet(all)
      BY <3>1, <3>2, FS_Surjection
    <3>4. left \subseteq all
      BY DEF Warnings!Remaining
    <3> HIDE DEF all, left
    <3> QED
      BY <3>3, <3>4, FS_Subset
  <2>5. \A d \in left : \E i \in 1 .. Len(read.days) : d = Decoded(i) /\ d.date = read.issued + i - 1 /\ d.date >= today
    BY <2>1, <2>2 DEF Warnings!Remaining
  <2>6. \A i \in 1 .. Len(read.days) : read.issued + i - 1 >= today => Decoded(i) \in left
    BY <2>1, <2>2 DEF Warnings!Remaining
  <2>7. \A i \in 1 .. Len(read.days) : Decoded(i).date = read.issued + i - 1
    BY <2>1, <2>2
  <2> HIDE DEF left, all, Decoded
  <2>8. \A d \in left : d.date \in Int /\ d.date >= today
    BY <2>1, <2>5
  <2>9. \A d, e \in left : d.date = e.date => d = e
    BY <2>1, <2>5
  <2>10. ASSUME NEW d \in left, NEW n \in Int, today <= n, n <= d.date
         PROVE  n - read.issued + 1 \in 1 .. Len(read.days) /\ Decoded(n - read.issued + 1) \in left
                /\ Decoded(n - read.issued + 1).date = n
    <3>1. PICK i \in 1 .. Len(read.days) : d.date = read.issued + i - 1
      BY <2>5
    <3>2. n - read.issued + 1 \in 1 .. Len(read.days)
      BY <1>1, <2>1, <2>10, <3>1
    <3>3. read.issued + (n - read.issued + 1) - 1 = n
      BY <2>1, <2>10
    <3> QED
      BY <2>6, <2>7, <2>10, <3>2, <3>3
  <2>11. /\ left # {} => days = {d \in left : d.date <= today + 1} /\ Warnings!First(days, 1) = {d \in left : d.date = today}
         /\ left = {} => days = {}
    <3>1. \A d \in left : \A n \in Int : today <= n /\ n <= d.date => \E e \in left : e.date = n
      BY <2>10
    <3>2. /\ Warnings!First(left, 2) = {d \in left : d.date <= today + 1}
          /\ Warnings!First(Warnings!First(left, 2), 1) = {d \in left : d.date = today}
      BY <1>1, <2>4, <2>8, <2>9, <3>1, Firsts
    <3> QED
      BY <2>3, <3>2
  \* Each day told of is one of the two, and decoded.
  <2>12. \A d \in days : d \in left /\ (d.date = today \/ d.date = today + 1) /\ (d \in Warnings!First(days, 1) <=> d.date = today)
    BY <1>1, <2>8, <2>11
  <2>13. \A date \in {today, today + 1} :
            date - read.issued + 1 \in DOMAIN read.days => \E d \in days : d.date = date /\ d = Decoded(date - read.issued + 1)
    <3> SUFFICES ASSUME NEW date \in {today, today + 1}, date - read.issued + 1 \in DOMAIN read.days
                 PROVE  \E d \in days : d.date = date /\ d = Decoded(date - read.issued + 1)
      OBVIOUS
    <3> DEFINE i == date - read.issued + 1
    <3>1. i \in 1 .. Len(read.days) /\ read.issued + i - 1 = date /\ date >= today /\ date <= today + 1
      BY <1>1, <2>1
    <3>2. Decoded(i) \in left /\ Decoded(i).date = date
      BY <2>6, <2>7, <3>1
    <3> HIDE DEF i
    <3>3. Decoded(i) \in days
      BY <2>11, <3>1, <3>2
    <3> QED
      BY <3>2, <3>3 DEF i
  <2>14. \A d \in days : d.date - read.issued + 1 \in DOMAIN read.days /\ d = Decoded(d.date - read.issued + 1)
    <3> SUFFICES ASSUME NEW d \in days
                 PROVE  d.date - read.issued + 1 \in DOMAIN read.days /\ d = Decoded(d.date - read.issued + 1)
      OBVIOUS
    <3>1. PICK i \in 1 .. Len(read.days) : d = Decoded(i) /\ d.date = read.issued + i - 1
      BY <2>5, <2>12
    <3>2. d.date - read.issued + 1 = i
      BY <2>1, <3>1
    <3> QED
      BY <2>1, <3>1, <3>2
  <2>15. \A date : LET d == Decoded(date - read.issued + 1) IN
            /\ Tellable(d) <=> Tellworthy(SaysOf(read, date))
            /\ Tellable(d) => d.level = DAY_COLOURS[SaysOf(read, date).colour]
    BY Decodes DEF Decoded, SaysOf
  <2> DEFINE told == {e \in days : Tellable(e)}
             suggestion(d) == [date |-> d.date, level |-> d.level, warnings |-> d.warnings,
                               when |-> IF d \in Warnings!First(days, 1) THEN "today" ELSE "tomorrow"]
             entry(date) == <<IF date = today THEN "today" ELSE "tomorrow", date, DAY_COLOURS[SaysOf(read, date).colour]>>
             dates == {date \in {today, today + 1} : WorthTelling(read, date)}
  <2>16. {d.date : d \in told} = dates
    <3>1. \A d \in told : d.date \in {today, today + 1} /\ d.date \in Int /\ WorthTelling(read, d.date)
      <4> SUFFICES ASSUME NEW d \in told PROVE d.date \in {today, today + 1} /\ d.date \in Int /\ WorthTelling(read, d.date)
        OBVIOUS
      <4>1. d.date \in {today, today + 1} /\ d.date \in Int /\ d.date - read.issued + 1 \in DOMAIN read.days
            /\ d = Decoded(d.date - read.issued + 1)
        BY <1>1, <2>12, <2>14
      <4> QED
        BY <2>15, <4>1 DEF WorthTelling
    <3>2. ASSUME NEW date \in dates PROVE \E d \in told : d.date = date
      <4>1. date \in {today, today + 1} /\ date \in Int /\ WorthTelling(read, date)
        BY <1>1, <3>2
      <4>2. PICK d \in days : d.date = date /\ d = Decoded(date - read.issued + 1)
        BY <2>13, <4>1 DEF WorthTelling
      <4> QED
        BY <2>15, <4>1, <4>2 DEF WorthTelling
    <3>3. ASSUME NEW d \in told PROVE d.date \in dates
      BY <3>1
    <3> HIDE DEF told, dates
    <3>4. {d.date : d \in told} \subseteq dates
      BY <3>3
    <3>5. dates \subseteq {d.date : d \in told}
      BY <3>2
    <3> QED
      BY <3>4, <3>5
  <2>17. \A d \in told : <<suggestion(d).when, suggestion(d).date, suggestion(d).level>> = entry(d.date)
    <3> SUFFICES ASSUME NEW d \in told PROVE <<suggestion(d).when, suggestion(d).date, suggestion(d).level>> = entry(d.date)
      OBVIOUS
    <3>1. d.date \in Int /\ d = Decoded(d.date - read.issued + 1) /\ (d \in Warnings!First(days, 1) <=> d.date = today)
      BY <1>1, <2>12, <2>14
    <3>2. d.level = DAY_COLOURS[SaysOf(read, d.date).colour]
      BY <2>15, <3>1
    <3> QED
      BY <3>1, <3>2
  <2>18. {<<s.when, s.date, s.level>> : s \in {suggestion(d) : d \in told}} = {entry(date) : date \in dates}
    <3>1. {<<s.when, s.date, s.level>> : s \in {suggestion(d) : d \in told}} = {entry(d.date) : d \in told}
      <4>1. {<<s.when, s.date, s.level>> : s \in {suggestion(d) : d \in told}}
            = {<<suggestion(d).when, suggestion(d).date, suggestion(d).level>> : d \in told}
        <5> HIDE DEF told, suggestion
        <5> QED
          OBVIOUS
      <4> HIDE DEF told, entry, suggestion
      <4> QED
        BY <2>17, <4>1
    <3>2. {entry(d.date) : d \in told} = {entry(date) : date \in {d.date : d \in told}}
      <4> HIDE DEF told, entry
      <4> QED
        OBVIOUS
    <3> QED
      BY <2>16, <3>1, <3>2
  <2> DEFINE two == {v \in {<<"today", today>>, <<"tomorrow", today + 1>>} : WorthTelling(read, v[2])}
             shown(w) == <<w[1], w[2], DAY_COLOURS[SaysOf(read, w[2]).colour]>>
  <2>19. {entry(date) : date \in dates} = {shown(w) : w \in two}
    <3>1. \A date \in dates : \E w \in two : entry(date) = shown(w)
      <4>1. today # today + 1
        BY <1>1
      <4>2. today \in dates => <<"today", today>> \in two /\ entry(today) = shown(<<"today", today>>)
        OBVIOUS
      <4>3. today + 1 \in dates => <<"tomorrow", today + 1>> \in two /\ entry(today + 1) = shown(<<"tomorrow", today + 1>>)
        BY <4>1
      <4>4. \A date \in dates : date = today \/ date = today + 1
        OBVIOUS
      <4> HIDE DEF dates, two, entry, shown
      <4> QED
        BY <4>2, <4>3, <4>4
    <3>2. \A w \in two : w[2] \in dates /\ entry(w[2]) = shown(w)
      BY <1>1
    <3> HIDE DEF dates, two, entry, shown
    <3> QED
      BY <3>1, <3>2
  <2>20. Warnings!official_suggestions(days) = {suggestion(d) : d \in told}
    BY DEF Warnings!official_suggestions, Tellable
  <2>21. {d.date : d \in days} \subseteq {today, today + 1}
    BY <2>12
  <2> HIDE DEF told, suggestion, entry, dates
  <2> QED
    BY <1>0, <1>4, <2>18, <2>19, <2>20, <2>21 DEF Tells
<1> QED
  BY <1>3, <1>4

\* No bulletin has been read at first.
LEMMA WarningsInit == Warnings!Init => WarningsInv
<1> SUFFICES ASSUME Warnings!Init PROVE WarningsInv
  OBVIOUS
<1>1. bulletin.issued = 0 /\ bulletin.days \in Forecast /\ clock = 0 /\ imd.read = None /\ notice = None
  BY DEF Warnings!Init
<1>2. 0 <= 0 \div WarningDay
  BY DataAssumption
<1> QED
  BY <1>1, <1>2, DataAssumption DEF WarningsInv, Issued

\* Every step of the warnings by day preserves what is promised.
LEMMA WarningsStep == WarningsInv /\ [Warnings!Next]_Warnings!bulletinVars => WarningsInv'
<1> SUFFICES ASSUME WarningsInv, [Warnings!Next]_Warnings!bulletinVars PROVE WarningsInv'
  OBVIOUS
<1>1. CASE UNCHANGED Warnings!bulletinVars
  BY <1>1 DEF WarningsInv, Warnings!bulletinVars
<1>2. CASE Warnings!Tick
  <2>1. clock' = clock + 1 /\ UNCHANGED <<bulletin, imd, notice>> /\ clock \in Nat
    BY <1>2 DEF Warnings!Tick, WarningsInv
  <2>2. clock \div WarningDay \in Nat /\ (clock + 1) \div WarningDay \in Nat /\ clock \div WarningDay <= (clock + 1) \div WarningDay
    BY <2>1, DataAssumption
  <2>3. \A read : Issued(read, clock) => Issued(read, clock + 1)
    BY <2>2 DEF Issued
  <2> QED
    BY <2>1, <2>3 DEF WarningsInv
<1>3. CASE Warnings!Issue
  <2>1. bulletin'.issued = clock \div WarningDay /\ bulletin'.days \in Forecast /\ UNCHANGED <<clock, imd, notice>> /\ clock \in Nat
    BY <1>3 DEF Warnings!Issue, WarningsInv
  <2>2. clock \div WarningDay \in Nat
    BY <2>1, DataAssumption
  <2> QED
    BY <2>1, <2>2, DataAssumption DEF WarningsInv, Issued
<1>4. CASE Warnings!statewide
  <2>1. PICK features \in Warnings!Features :
            LET read == features.read
                today == clock \div WarningDay
                days == IF read = None THEN {} ELSE Warnings!karnataka_districts(read, today) IN
            /\ imd' = features
            /\ notice' = [today |-> today, read |-> read, days |-> days, suggestions |-> Warnings!official_suggestions(days)]
    BY <1>4 DEF Warnings!statewide
  <2>2. features.read # None => Issued(features.read, clock)
    BY DEF WarningsInv, Warnings!Features
  <2>3. Tells(notice')
    BY <2>1, <2>2, AnswerTells DEF WarningsInv
  <2>4. UNCHANGED <<clock, bulletin>> /\ imd' = features
    BY <1>4, <2>1 DEF Warnings!statewide
  <2> QED
    BY <2>2, <2>3, <2>4 DEF WarningsInv
<1> QED
  BY <1>1, <1>2, <1>3, <1>4 DEF Warnings!Next

-----------------------------------------------------------------------------
(***************************************************************************)
(* Place names.                                                            *)
(***************************************************************************)
LookKey == {<<"poi", 18>>, <<"address", 14>>, <<"address", 17>>, <<"address", 18>>}
Entry == [key : LookKey, at : Nat, body : Bodies]

\* What a request is doing, and that it shows no more than its location allows.
IsLook(x) == x = [pc |-> x.pc, who |-> x.who, accuracy |-> x.accuracy, key |-> x.key, came |-> x.came,
                  body |-> x.body, first |-> x.first, result |-> x.result]
Precise(x) ==
    x.result # None =>
        /\ "house_number" \in x.result.parts => x.accuracy = None \/ x.accuracy <= 20
        /\ "road" \in x.result.parts => x.accuracy = None \/ x.accuracy <= 250
        /\ x.result.precision = "street" <=> "road" \in x.result.parts
Looks(x) == IsLook(x) /\ x.accuracy \in Nat \cup {None} /\ x.key \in LookKey \cup {<<>>} /\ Precise(x)

IsIn(x) == x.pc \in {"waiting", "asking"}
Lookers == {r \in Request : IsIn(look[r])}

\* Who is in the line, in the order in which they came, and once each.
LineInv ==
    /\ lookers \in Seq(Request)
    /\ \A i, j \in DOMAIN lookers : lookers[i] = lookers[j] => i = j
    /\ \A r \in Request : IsIn(look[r]) <=> \E i \in DOMAIN lookers : lookers[i] = r
    /\ \A r \in Request : look[r].pc = "asking" => Head(lookers) = r
    /\ \A i \in DOMAIN lookers : look[lookers[i]].who = "citizen" => i <= MaxWaiting
    /\ waiting = Len(lookers) /\ waiting = Cardinality(Lookers)

\* Requests start apart, and the last of them is the latest.
StartsInv ==
    /\ last # None => last \in Nat /\ last <= clock
    /\ \A s \in starts : last # None /\ s[1] \in Nat /\ s[1] <= last
    /\ \A s, t \in starts : s # t => s[1] - t[1] >= MinInterval \/ t[1] - s[1] >= MinInterval

\* Who waits came, and what was answered since may serve.
Asked(x, e) == IsIn(x) /\ e.key = x.key /\ clock - e.at < PlaceSeconds => x.came <= e.at
CacheInv ==
    /\ \A r \in Request : IsIn(look[r]) => look[r].came \in Nat /\ look[r].came <= clock /\ look[r].key \in LookKey
    /\ \A r \in Request, i \in DOMAIN places : Asked(look[r], places[i])

LookInv ==
    /\ clock \in Nat /\ places \in Seq(Entry)
    /\ look = [r \in Request |-> look[r]] /\ \A r \in Request : Looks(look[r])
    /\ LineInv /\ StartsInv /\ CacheInv

\* No entry of a cache is new.
OfCache(old, new) == new \in Seq(Entry) /\ \A i \in DOMAIN new : \E j \in DOMAIN old : new[i] = old[j]

-----------------------------------------------------------------------------
\* What the invariant says is what is promised.
LEMMA PlacesHold == LookInv => Places!NominatimSpared /\ Places!AddressAsPrecise
<1> SUFFICES ASSUME LookInv PROVE Places!NominatimSpared /\ Places!AddressAsPrecise
  OBVIOUS
<1>1. Cardinality({r \in Request : look[r].pc = "asking"}) <= 1
  <2> DEFINE S == {r \in Request : look[r].pc = "asking"}
  <2>1. S \subseteq {Head(lookers)}
    BY DEF LookInv, LineInv
  <2> HIDE DEF S
  <2>2. PICK one : one = {Head(lookers)}
    OBVIOUS
  <2>3. IsFiniteSet(one) /\ Cardinality(one) = 1
    BY <2>2, FS_Singleton
  <2>4. Cardinality(S) <= Cardinality(one)
    BY <2>1, <2>2, <2>3, FS_Subset
  <2> QED
    BY <2>3, <2>4 DEF S
<1>2. Lookers = {r \in Request : look[r].pc \in {"waiting", "asking"}}
  BY DEF Lookers, IsIn
<1>3. Places!NominatimSpared
  BY <1>1, <1>2, SameCount DEF LookInv, LineInv, StartsInv, CacheInv, Asked, IsIn, Places!NominatimSpared, Places!Current
<1>4. Places!AddressAsPrecise
  BY DEF LookInv, Looks, Precise, Places!AddressAsPrecise
<1> QED
  BY <1>3, <1>4

\* Nobody is in the line at first.
LEMMA PlacesInit == Places!Init => LookInv
<1> SUFFICES ASSUME Places!Init PROVE LookInv
  OBVIOUS
<1>1. /\ clock = 0 /\ places = <<>> /\ lookers = <<>> /\ waiting = 0 /\ last = None
      /\ look = [r \in Request |-> Places!Idle] /\ starts = {}
  BY DEF Places!Init
<1>2. Looks(Places!Idle) /\ Places!Idle.pc = "idle"
  BY DEF Places!Idle, Looks, IsLook, Precise
<1>3. Lookers = {}
  BY <1>1, <1>2 DEF Lookers, IsIn
<1>4. Cardinality({}) = 0
  BY FS_EmptySet
<1> QED
  BY <1>1, <1>2, <1>3, <1>4 DEF LookInv, LineInv, StartsInv, CacheInv, IsIn

\* The line is counted.
LEMMA LineFacts == LookInv => lookers \in Seq(Request) /\ waiting = Len(lookers) /\ Len(lookers) \in Nat /\ clock \in Nat
<1>1. LookInv => clock \in Nat /\ LineInv
  BY DEF LookInv
<1>2. LineInv => lookers \in Seq(Request) /\ waiting = Len(lookers)
  BY DEF LineInv
<1>3. lookers \in Seq(Request) => Len(lookers) \in Nat
  OBVIOUS
<1> QED
  BY <1>1, <1>2, <1>3

\* A step beside the line.
LEMMA Aside ==
    ASSUME LookInv, NEW r \in Request, NEW y, look' = [look EXCEPT ![r] = y], ~IsIn(look[r]), ~IsIn(y), Looks(y),
           OfCache(places, places'), UNCHANGED <<clock, lookers, waiting, last, starts>>
    PROVE  LookInv'
<1>1. look'[r] = y /\ (\A q \in Request \ {r} : look'[q] = look[q]) /\ look' = [q \in Request |-> look'[q]]
  BY DEF LookInv
<1>2. \A q \in Request : IsIn(look'[q]) => q # r /\ look'[q] = look[q]
  BY <1>1
<1>3. \A q \in Request : IsIn(look[q]) <=> IsIn(look'[q])
  BY <1>1
<1>4. Lookers' = Lookers
  BY <1>3 DEF Lookers
<1>5. LineInv'
  <2>1. \A i \in DOMAIN lookers : lookers[i] \in Request /\ IsIn(look[lookers[i]])
    BY DEF LookInv, LineInv
  <2>2. \A i \in DOMAIN lookers : look'[lookers[i]] = look[lookers[i]]
    BY <1>1, <2>1
  <2>3. \A q \in Request : look'[q].pc = "asking" => look[q].pc = "asking"
    BY <1>2 DEF IsIn
  <2>4. LineInv
    BY DEF LookInv
  <2> HIDE DEF LookInv
  <2> QED
    BY <1>3, <1>4, <2>2, <2>3, <2>4 DEF LineInv
<1>6. CacheInv'
  BY <1>2 DEF LookInv, CacheInv, Asked, OfCache
<1>7. \A q \in Request : Looks(look'[q])
  BY <1>1 DEF LookInv
<1> QED
  BY <1>1, <1>5, <1>6, <1>7 DEF LookInv, StartsInv, OfCache

\* A request joins the line, a citizen's only if there is room.
LEMMA Joins ==
    ASSUME LookInv, NEW r \in Request, NEW y, look' = [look EXCEPT ![r] = y], ~IsIn(look[r]), y.pc = "waiting", Looks(y),
           y.key \in LookKey, y.came = clock, y.who = "citizen" => ~(waiting >= MaxWaiting),
           \A i \in DOMAIN places : places[i].key = y.key => ~(clock - places[i].at < PlaceSeconds),
           lookers' = Append(lookers, r), waiting' = waiting + 1,
           UNCHANGED <<clock, places, last, starts>>
    PROVE  LookInv'
<1>0. lookers \in Seq(Request) /\ waiting = Len(lookers) /\ Len(lookers) \in Nat /\ clock \in Nat
  BY LineFacts
<1>1. look'[r] = y /\ (\A q \in Request \ {r} : look'[q] = look[q]) /\ look' = [q \in Request |-> look'[q]] /\ IsIn(y)
  BY DEF LookInv, IsIn
<1>2. /\ lookers' \in Seq(Request) /\ Len(lookers') = Len(lookers) + 1 /\ lookers'[Len(lookers) + 1] = r
      /\ \A i \in 1 .. Len(lookers) : lookers'[i] = lookers[i]
      /\ DOMAIN lookers = 1 .. Len(lookers) /\ DOMAIN lookers' = 1 .. Len(lookers) + 1
  BY <1>0
<1>3. \A i \in 1 .. Len(lookers) : lookers[i] \in Request /\ lookers[i] # r /\ look'[lookers[i]] = look[lookers[i]]
  <2>1. \A i \in 1 .. Len(lookers) : lookers[i] \in Request /\ IsIn(look[lookers[i]])
    BY <1>0, <1>2 DEF LookInv, LineInv
  <2> QED
    BY <1>1, <2>1
<1>4. Lookers' = Lookers \cup {r} /\ r \notin Lookers /\ Lookers \subseteq Request
  BY <1>1 DEF Lookers
<1>5. Cardinality(Lookers') = Cardinality(Lookers) + 1
  <2>1. IsFiniteSet(Lookers)
    BY <1>4, DataAssumption, FS_Subset
  <2> QED
    BY <1>4, <2>1, FS_AddElement
<1>6. LineInv'
  <2>1. \A i \in DOMAIN lookers' : i \in 1 .. Len(lookers) \/ i = Len(lookers) + 1
    BY <1>0, <1>2
  <2>2. \A i, j \in DOMAIN lookers' : lookers'[i] = lookers'[j] => i = j
    BY <1>2, <1>3, <2>1 DEF LookInv, LineInv
  <2>3. ASSUME NEW q \in Request PROVE IsIn(look'[q]) <=> \E i \in DOMAIN lookers' : lookers'[i] = q
    <3>1. CASE q = r
      <4>1. Len(lookers) + 1 \in DOMAIN lookers'
        BY <1>0, <1>2
      <4> QED
        BY <1>1, <1>2, <3>1, <4>1
    <3>2. CASE q # r
      <4>1. IsIn(look[q]) <=> \E i \in DOMAIN lookers : lookers[i] = q
        BY DEF LookInv, LineInv
      <4>2. (\E i \in DOMAIN lookers' : lookers'[i] = q) <=> \E i \in DOMAIN lookers : lookers[i] = q
        BY <1>2, <2>1, <3>2
      <4> QED
        BY <1>1, <3>2, <4>1, <4>2
    <3> QED
      BY <3>1, <3>2
  <2>4. ASSUME NEW q \in Request, look'[q].pc = "asking" PROVE Head(lookers') = q
    <3>1. q # r /\ look[q].pc = "asking" /\ Head(lookers) = q
      BY <1>1, <2>4 DEF LookInv, LineInv
    <3>2. PICK i \in DOMAIN lookers : lookers[i] = q
      BY <3>1 DEF LookInv, LineInv, IsIn
    <3>3. Head(lookers') = Head(lookers)
      BY <1>0, <1>2, <3>2
    <3> QED
      BY <3>1, <3>3
  <2>5. ASSUME NEW i \in DOMAIN lookers', look'[lookers'[i]].who = "citizen" PROVE i <= MaxWaiting
    <3>1. CASE i \in 1 .. Len(lookers)
      BY <1>2, <1>3, <2>5, <3>1 DEF LookInv, LineInv
    <3>2. CASE i = Len(lookers) + 1
      BY <1>0, <1>1, <1>2, <2>5, <3>2, DataAssumption
    <3> QED
      BY <2>1, <3>1, <3>2
  <2> QED
    BY <1>0, <1>2, <1>5, <2>2, <2>3, <2>4, <2>5 DEF LookInv, LineInv
<1>7. CacheInv'
  <2>1. \A i \in DOMAIN places : ~(IsIn(y) /\ places[i].key = y.key /\ clock - places[i].at < PlaceSeconds)
    OBVIOUS
  <2>2. ASSUME NEW q \in Request
        PROVE /\ IsIn(look'[q]) => look'[q].came \in Nat /\ look'[q].came <= clock' /\ look'[q].key \in LookKey
              /\ \A i \in DOMAIN places' : Asked(look[q], places[i])'
    <3>1. CASE q = r
      BY <1>0, <1>1, <2>1, <3>1 DEF Asked
    <3>2. CASE q # r
      <4>1. CacheInv /\ look'[q] = look[q]
        BY <1>1, <3>2 DEF LookInv
      <4> HIDE DEF LookInv
      <4> QED
        BY <4>1 DEF CacheInv, Asked
    <3> QED
      BY <3>1, <3>2
  <2> QED
    BY <2>2 DEF CacheInv
<1>8. \A q \in Request : Looks(look'[q])
  BY <1>1 DEF LookInv
<1> QED
  BY <1>1, <1>6, <1>7, <1>8 DEF LookInv, StartsInv

\* The one that asks leaves the line, whatever came of it.
LEMMA Released ==
    ASSUME LookInv, NEW r \in Request, NEW y, look' = [look EXCEPT ![r] = y], look[r].pc = "asking", ~IsIn(y), Looks(y),
           Places!Release, UNCHANGED <<clock, last, starts>>,
           places' \in Seq(Entry), \A i \in DOMAIN places' : places'[i].at = clock \/ \E j \in DOMAIN places : places'[i] = places[j]
    PROVE  LookInv'
<1>0. lookers \in Seq(Request) /\ waiting = Len(lookers) /\ Len(lookers) \in Nat /\ clock \in Nat /\ Head(lookers) = r
      /\ lookers' = Tail(lookers) /\ waiting' = waiting - 1
  <2>1. Head(lookers) = r
    BY DEF LookInv, LineInv
  <2> QED
    BY <2>1, LineFacts DEF Places!Release
<1>1. look'[r] = y /\ (\A q \in Request \ {r} : look'[q] = look[q]) /\ look' = [q \in Request |-> look'[q]] /\ IsIn(look[r])
  BY DEF LookInv, IsIn
<1>2. PICK k \in DOMAIN lookers : lookers[k] = r
  BY <1>1 DEF LookInv, LineInv
<1>3. /\ lookers' \in Seq(Request) /\ Len(lookers') = Len(lookers) - 1 /\ lookers[1] = r
      /\ \A i \in 1 .. Len(lookers) - 1 : lookers'[i] = lookers[i + 1] /\ i + 1 \in DOMAIN lookers
      /\ DOMAIN lookers = 1 .. Len(lookers) /\ DOMAIN lookers' = 1 .. Len(lookers) - 1 /\ 1 \in DOMAIN lookers
  BY <1>0, <1>2
<1>4. \A i, j \in DOMAIN lookers : lookers[i] = lookers[j] => i = j
  BY DEF LookInv, LineInv
<1>5. \A i \in DOMAIN lookers' : lookers'[i] \in Request /\ lookers'[i] # r /\ look'[lookers'[i]] = look[lookers'[i]]
  <2>1. \A i \in DOMAIN lookers' : lookers'[i] # r
    BY <1>0, <1>3, <1>4
  <2>2. \A i \in DOMAIN lookers' : lookers'[i] \in Request
    BY <1>3
  <2> QED
    BY <1>1, <2>1, <2>2
<1>6. Lookers' = Lookers \ {r} /\ r \in Lookers /\ Lookers \subseteq Request
  BY <1>1 DEF Lookers
<1>7. Cardinality(Lookers') = Cardinality(Lookers) - 1
  <2>1. IsFiniteSet(Lookers)
    BY <1>6, DataAssumption, FS_Subset
  <2> QED
    BY <1>6, <2>1, FS_RemoveElement
<1>8. LineInv'
  <2>1. ASSUME NEW i \in DOMAIN lookers', NEW j \in DOMAIN lookers', lookers'[i] = lookers'[j] PROVE i = j
    <3>1. i + 1 \in DOMAIN lookers /\ j + 1 \in DOMAIN lookers /\ lookers[i + 1] = lookers[j + 1]
      BY <1>3, <2>1
    <3>2. i + 1 = j + 1
      BY <1>4, <3>1
    <3> QED
      BY <1>3, <3>2
  <2>2. ASSUME NEW q \in Request PROVE IsIn(look'[q]) <=> \E i \in DOMAIN lookers' : lookers'[i] = q
    <3>1. IsIn(look[q]) <=> \E i \in DOMAIN lookers : lookers[i] = q
      BY DEF LookInv, LineInv
    <3>2. CASE q = r
      BY <1>1, <1>5, <3>2
    <3>3. CASE q # r
      <4>1. ASSUME NEW i \in DOMAIN lookers, lookers[i] = q PROVE i - 1 \in DOMAIN lookers' /\ lookers'[i - 1] = q
        <5>1. i \in 1 .. Len(lookers) /\ i # 1
          BY <1>3, <3>3, <4>1
        <5>2. i - 1 \in 1 .. Len(lookers) - 1 /\ (i - 1) + 1 = i
          BY <1>0, <5>1
        <5> QED
          BY <1>3, <4>1, <5>2
      <4>2. ASSUME NEW i \in DOMAIN lookers', lookers'[i] = q PROVE i + 1 \in DOMAIN lookers /\ lookers[i + 1] = q
        BY <1>3, <4>2
      <4> QED
        BY <1>1, <3>1, <3>3, <4>1, <4>2
    <3> QED
      BY <3>2, <3>3
  <2>3. \A q \in Request : look'[q].pc # "asking"
    <3>1. \A q \in Request : look[q].pc = "asking" => q = r
      BY <1>0 DEF LookInv, LineInv
    <3> QED
      BY <1>1, <3>1 DEF IsIn
  <2>4. ASSUME NEW i \in DOMAIN lookers', look'[lookers'[i]].who = "citizen" PROVE i <= MaxWaiting
    <3>1. i + 1 \in DOMAIN lookers /\ look[lookers[i + 1]].who = "citizen" /\ i \in Nat
      BY <1>3, <1>5, <2>4
    <3>2. i + 1 <= MaxWaiting
      BY <3>1 DEF LookInv, LineInv
    <3> QED
      BY <3>1, <3>2, DataAssumption
  <2>5. Cardinality(Lookers) = waiting
    BY DEF LookInv, LineInv
  <2> QED
    BY <1>0, <1>3, <1>7, <2>1, <2>2, <2>3, <2>4, <2>5 DEF LineInv
<1>9. CacheInv'
  <2>1. \A q \in Request : IsIn(look'[q]) => q # r /\ look'[q] = look[q]
    BY <1>1
  <2> QED
    BY <1>0, <2>1 DEF LookInv, CacheInv, Asked
<1>10. \A q \in Request : Looks(look'[q])
  BY <1>1 DEF LookInv
<1> QED
  BY <1>1, <1>8, <1>9, <1>10 DEF LookInv, StartsInv

\* The first of the line starts, a while after the last start.
LEMMA Starting == ASSUME LookInv, NEW r \in Request, Places!Start(r) PROVE LookInv'
<1> DEFINE y == [look[r] EXCEPT !.pc = "asking"]
<1>0. /\ clock \in Nat /\ Looks(look[r]) /\ look[r].pc = "waiting" /\ Head(lookers) = r
      /\ (last # None => clock - last >= MinInterval) /\ last' = clock /\ starts' = starts \cup {<<clock, r, look[r].key>>}
      /\ look' = [look EXCEPT ![r] = y] /\ UNCHANGED <<clock, places, lookers, waiting>>
  BY DEF LookInv, Places!Start, Places!MayStart
<1>1. y.pc = "asking" /\ y.who = look[r].who /\ y.came = look[r].came /\ y.key = look[r].key /\ y.accuracy = look[r].accuracy
      /\ y.result = look[r].result /\ IsLook(y)
  BY <1>0 DEF Looks, IsLook
<1>2. Looks(y)
  <2> HIDE DEF y
  <2> QED
    BY <1>0, <1>1 DEF Looks, Precise
<1> HIDE DEF y
<1>3. look'[r] = y /\ (\A q \in Request \ {r} : look'[q] = look[q]) /\ look' = [q \in Request |-> look'[q]] /\ IsIn(y) /\ IsIn(look[r])
  BY <1>0, <1>1 DEF LookInv, IsIn
<1>4. \A q \in Request : IsIn(look'[q]) <=> IsIn(look[q])
  BY <1>3
<1>5. Lookers' = Lookers
  BY <1>4 DEF Lookers
<1>6. \A q \in Request : look'[q].who = look[q].who /\ look'[q].key = look[q].key /\ look'[q].came = look[q].came
  BY <1>1, <1>3
<1>7. LineInv'
  <2>1. \A q \in Request : look'[q].pc = "asking" => Head(lookers) = q
    BY <1>0, <1>3 DEF LookInv, LineInv
  <2>2. \A i \in DOMAIN lookers : lookers[i] \in Request
    BY DEF LookInv, LineInv
  <2>3. \A q \in Request : IsIn(look'[q]) <=> \E i \in DOMAIN lookers' : lookers'[i] = q
    BY <1>0, <1>4 DEF LookInv, LineInv
  <2>4. \A i \in DOMAIN lookers' : look'[lookers'[i]].who = "citizen" => i <= MaxWaiting
    BY <1>0, <1>6, <2>2 DEF LookInv, LineInv
  <2> QED
    BY <1>0, <1>5, <2>1, <2>3, <2>4 DEF LookInv, LineInv
<1>8. CacheInv'
  BY <1>0, <1>4, <1>6 DEF LookInv, CacheInv, Asked
<1>9. StartsInv'
  <2> DEFINE s == <<clock, r, look[r].key>>
  <2>1. s[1] = clock
    OBVIOUS
  <2> HIDE DEF s
  <2>2. last' \in Nat /\ last' # None /\ last' <= clock'
    BY <1>0, DataAssumption
  <2>3. \A t \in starts : t[1] \in Nat /\ t[1] <= clock /\ clock - t[1] >= MinInterval
    BY <1>0, DataAssumption DEF LookInv, StartsInv
  <2>4. starts' = starts \cup {s}
    BY <1>0 DEF s
  <2>5. \A t \in starts' : t[1] \in Nat /\ t[1] <= last'
    BY <1>0, <2>1, <2>3, <2>4
  <2>6. \A t, u \in starts' : t # u => t[1] - u[1] >= MinInterval \/ u[1] - t[1] >= MinInterval
    BY <2>1, <2>3, <2>4 DEF LookInv, StartsInv
  <2> QED
    BY <2>2, <2>5, <2>6 DEF StartsInv
<1>10. \A q \in Request : Looks(look'[q])
  BY <1>2, <1>3 DEF LookInv
<1> QED
  BY <1>0, <1>3, <1>7, <1>8, <1>9, <1>10 DEF LookInv

-----------------------------------------------------------------------------
\* An answer that is used goes to the end of the cache.
LEMMA MovedToEnd ==
    ASSUME places \in Seq(Entry), NEW i \in DOMAIN places
    PROVE  OfCache(places, Append(SubSeq(places, 1, i - 1) \o SubSeq(places, i + 1, Len(places)), places[i]))
<1>1. Len(places) \in Nat /\ DOMAIN places = 1 .. Len(places) /\ i \in 1 .. Len(places) /\ places[i] \in Entry
  OBVIOUS
<1>2. PICK before : before = SubSeq(places, 1, i - 1)
  OBVIOUS
<1>3. PICK after : after = SubSeq(places, i + 1, Len(places))
  OBVIOUS
<1>4. before \in Seq(Entry) /\ \A j \in DOMAIN before : \E k \in DOMAIN places : before[j] = places[k]
  <2>1. before \in Seq(Entry) /\ Len(before) = i - 1 /\ \A j \in 1 .. i - 1 : before[j] = places[j]
    BY <1>1, <1>2
  <2>2. DOMAIN before = 1 .. i - 1
    BY <2>1
  <2> QED
    BY <1>1, <2>1, <2>2
<1>5. after \in Seq(Entry) /\ \A j \in DOMAIN after : \E k \in DOMAIN places : after[j] = places[k]
  <2>1. after \in Seq(Entry) /\ Len(after) = Len(places) - i /\ \A j \in 1 .. Len(places) - i : after[j] = places[j + i]
    BY <1>1, <1>3
  <2>2. DOMAIN after = 1 .. Len(places) - i
    BY <2>1
  <2>3. \A j \in 1 .. Len(places) - i : j + i \in DOMAIN places
    BY <1>1
  <2> QED
    BY <2>1, <2>2, <2>3
<1>6. PICK rest : rest = before \o after
  OBVIOUS
<1>7. rest \in Seq(Entry) /\ \A j \in DOMAIN rest : \E k \in DOMAIN places : rest[j] = places[k]
  <2>1. /\ rest \in Seq(Entry) /\ DOMAIN rest = 1 .. Len(before) + Len(after) /\ Len(before) \in Nat /\ Len(after) \in Nat
        /\ \A j \in 1 .. Len(before) + Len(after) : rest[j] = IF j <= Len(before) THEN before[j] ELSE after[j - Len(before)]
    BY <1>4, <1>5, <1>6
  <2>2. ASSUME NEW j \in DOMAIN rest PROVE \E k \in DOMAIN places : rest[j] = places[k]
    <3>1. CASE j <= Len(before)
      <4>1. j \in DOMAIN before
        BY <1>4, <2>1, <3>1
      <4> QED
        BY <1>4, <2>1, <3>1, <4>1
    <3>2. CASE ~(j <= Len(before))
      <4>1. j - Len(before) \in DOMAIN after
        BY <1>5, <2>1, <3>2
      <4> QED
        BY <1>5, <2>1, <3>2, <4>1
    <3> QED
      BY <3>1, <3>2
  <2> QED
    BY <2>1, <2>2
<1>8. PICK moved : moved = Append(rest, places[i])
  OBVIOUS
<1>9. /\ moved \in Seq(Entry) /\ DOMAIN moved = 1 .. Len(rest) + 1 /\ moved[Len(rest) + 1] = places[i]
      /\ Len(rest) \in Nat /\ DOMAIN rest = 1 .. Len(rest) /\ \A j \in 1 .. Len(rest) : moved[j] = rest[j]
  BY <1>1, <1>7, <1>8
<1>10. \A j \in DOMAIN moved : j \in 1 .. Len(rest) \/ j = Len(rest) + 1
  BY <1>9
<1>11. OfCache(places, moved)
  BY <1>7, <1>9, <1>10 DEF OfCache
<1> QED
  BY <1>2, <1>3, <1>6, <1>8, <1>11

\* A new answer is put into the cache beside old ones.
LEMMA PutOne ==
    ASSUME places \in Seq(Entry), NEW e \in Entry
    PROVE  /\ Places!Put(e) \in Seq(Entry)
           /\ \A i \in DOMAIN Places!Put(e) : Places!Put(e)[i] = e \/ \E j \in DOMAIN places : Places!Put(e)[i] = places[j]
<1>1. Len(places) \in Nat /\ DOMAIN places = 1 .. Len(places) /\ \A i \in 1 .. Len(places) : places[i] \in Entry
  OBVIOUS
<1>2. PICK all : all = IF Places!Kept(e.key) # {} THEN [i \in DOMAIN places |-> IF places[i].key = e.key THEN e ELSE places[i]]
                       ELSE Append(places, e)
  OBVIOUS
<1>3. /\ all \in Seq(Entry) /\ all # <<>>
      /\ \A i \in DOMAIN all : all[i] = e \/ \E j \in DOMAIN places : all[i] = places[j]
  <2>1. CASE Places!Kept(e.key) # {}
    <3>1. all = [i \in 1 .. Len(places) |-> IF places[i].key = e.key THEN e ELSE places[i]]
      BY <1>1, <1>2, <2>1
    <3>2. /\ \A i \in 1 .. Len(places) : all[i] \in Entry /\ (all[i] = e \/ all[i] = places[i])
          /\ DOMAIN all = 1 .. Len(places)
      BY <1>1, <3>1
    <3>3. all \in Seq(Entry)
      BY <1>1, <3>1, <3>2
    <3>4. DOMAIN places # {}
      BY <2>1 DEF Places!Kept
    <3> QED
      BY <1>1, <3>2, <3>3, <3>4
  <2>2. CASE ~(Places!Kept(e.key) # {})
    <3>1. all = Append(places, e)
      BY <1>2, <2>2
    <3>2. /\ all \in Seq(Entry) /\ DOMAIN all = 1 .. Len(places) + 1 /\ all[Len(places) + 1] = e
          /\ \A i \in 1 .. Len(places) : all[i] = places[i]
      BY <1>1, <3>1
    <3>3. \A i \in DOMAIN all : i \in 1 .. Len(places) \/ i = Len(places) + 1
      BY <1>1, <3>2
    <3>4. Len(places) + 1 \in DOMAIN all
      BY <1>1, <3>2
    <3> QED
      BY <1>1, <3>2, <3>3, <3>4
  <2> QED
    BY <2>1, <2>2
<1>4. Len(all) \in Nat \ {0} /\ DOMAIN all = 1 .. Len(all)
  BY <1>3
<1>5. Tail(all) \in Seq(Entry) /\ \A i \in DOMAIN Tail(all) : i + 1 \in DOMAIN all /\ Tail(all)[i] = all[i + 1]
  <2>1. Tail(all) \in Seq(Entry) /\ Len(Tail(all)) = Len(all) - 1 /\ \A i \in 1 .. Len(all) - 1 : Tail(all)[i] = all[i + 1]
    BY <1>3, <1>4
  <2>2. DOMAIN Tail(all) = 1 .. Len(all) - 1
    BY <2>1
  <2> QED
    BY <1>4, <2>1, <2>2
<1>6. Places!Put(e) = all \/ Places!Put(e) = Tail(all)
  BY <1>2 DEF Places!Put
<1> QED
  BY <1>3, <1>5, <1>6

\* A request is answered from the cache, turned away, or made to wait.
LEMMA Enters ==
    ASSUME LookInv, NEW r \in Request, NEW request, Places!Enter(r, request), UNCHANGED <<clock, last, starts>>,
           ~IsIn(look[r]), IsLook(request), ~IsIn(request), Precise(request), request.key \in LookKey,
           request.accuracy \in Nat \cup {None}
    PROVE  LookInv'
<1> DEFINE hit == {i \in Places!Kept(request.key) : Places!Current(i)}
<1>1. CASE hit # {}
  <2>1. PICK i : i = CHOOSE any \in hit : TRUE
    OBVIOUS
  <2>2. /\ i \in DOMAIN places
        /\ places' = Append(SubSeq(places, 1, i - 1) \o SubSeq(places, i + 1, Len(places)), places[i])
        /\ look' = [look EXCEPT ![r] = [request EXCEPT !.pc = "answered", !.body = places[i].body]]
        /\ UNCHANGED <<lookers, waiting>>
    <3>1. i \in hit
      BY <1>1, <2>1
    <3>2. i \in DOMAIN places
      BY <3>1 DEF Places!Kept
    <3> QED
      BY <1>1, <2>1, <3>2 DEF Places!Enter
  <2> HIDE DEF hit
  <2>3. PICK one : one = [request EXCEPT !.pc = "answered"]
    OBVIOUS
  <2>4. PICK y : y = [one EXCEPT !.body = places[i].body]
    OBVIOUS
  <2>5. /\ one.pc = "answered" /\ one.accuracy = request.accuracy /\ one.key = request.key /\ one.result = request.result
        /\ IsLook(one)
    BY <2>3 DEF IsLook
  <2>6. y.pc = "answered" /\ y.accuracy = request.accuracy /\ y.key = request.key /\ y.result = request.result /\ IsLook(y)
    BY <2>4, <2>5 DEF IsLook
  <2>7. Looks(y) /\ ~IsIn(y)
    BY <2>6 DEF Looks, Precise, IsIn
  <2>8. look' = [look EXCEPT ![r] = y]
    BY <2>2, <2>3, <2>4
  <2>9. OfCache(places, places')
    BY <2>2, MovedToEnd DEF LookInv
  <2> QED
    BY <2>2, <2>7, <2>8, <2>9, Aside
<1>2. CASE hit = {} /\ request.who = "citizen" /\ waiting >= MaxWaiting
  <2>1. look' = [look EXCEPT ![r] = [request EXCEPT !.pc = "failed"]] /\ UNCHANGED <<places, lookers, waiting>>
    BY <1>2 DEF Places!Enter
  <2> HIDE DEF hit
  <2>2. PICK y : y = [request EXCEPT !.pc = "failed"]
    OBVIOUS
  <2>3. y.pc = "failed" /\ y.accuracy = request.accuracy /\ y.key = request.key /\ y.result = request.result /\ IsLook(y)
    BY <2>2 DEF IsLook
  <2>4. Looks(y) /\ ~IsIn(y)
    BY <2>3 DEF Looks, Precise, IsIn
  <2>5. OfCache(places, places')
    BY <2>1 DEF OfCache, LookInv
  <2> QED
    BY <2>1, <2>2, <2>4, <2>5, Aside
<1>3. CASE hit = {} /\ ~(request.who = "citizen" /\ waiting >= MaxWaiting)
  <2>1. /\ look' = [look EXCEPT ![r] = [request EXCEPT !.pc = "waiting", !.came = clock]]
        /\ lookers' = Append(lookers, r) /\ waiting' = waiting + 1 /\ UNCHANGED places
    BY <1>3 DEF Places!Enter
  <2>2. \A i \in DOMAIN places : places[i].key = request.key => ~(clock - places[i].at < PlaceSeconds)
    BY <1>3 DEF Places!Kept, Places!Current
  <2> HIDE DEF hit
  <2>3. PICK one : one = [request EXCEPT !.pc = "waiting"]
    OBVIOUS
  <2>4. PICK y : y = [one EXCEPT !.came = clock]
    OBVIOUS
  <2>5. /\ one.pc = "waiting" /\ one.who = request.who /\ one.accuracy = request.accuracy /\ one.key = request.key
        /\ one.result = request.result /\ IsLook(one)
    BY <2>3 DEF IsLook
  <2>6. /\ y.pc = "waiting" /\ y.who = request.who /\ y.accuracy = request.accuracy /\ y.key = request.key
        /\ y.result = request.result /\ y.came = clock /\ IsLook(y)
    BY <2>4, <2>5 DEF IsLook
  <2>7. Looks(y)
    BY <2>6 DEF Looks, Precise
  <2>8. look' = [look EXCEPT ![r] = y]
    BY <2>1, <2>3, <2>4
  <2>9. y.who = "citizen" => ~(waiting >= MaxWaiting)
    BY <1>3, <2>6
  <2>10. \A i \in DOMAIN places : places[i].key = y.key => ~(clock - places[i].at < PlaceSeconds)
    BY <2>2, <2>6
  <2>11. y.key \in LookKey /\ UNCHANGED <<clock, places, last, starts>>
    BY <2>1, <2>6
  <2> QED
    BY <2>1, <2>6, <2>7, <2>8, <2>9, <2>10, <2>11, Joins
<1> QED
  BY <1>1, <1>2, <1>3

\* What a citizen is shown is as precise as the location.
LEMMA ShowsNoMore ==
    ASSUME NEW accuracy \in Nat \cup {None}, NEW first, NEW parts, parts \ first.parts \subseteq {"village", "town", "pin"},
           first.parts \subseteq parts, NEW y, y.accuracy = accuracy, y.result = Places!Shown(accuracy, first, parts)
    PROVE  Precise(y)
<1>1. PICK drop : drop = IF first.near THEN Places!precision(accuracy).drop ELSE {"house_number", "road"}
  OBVIOUS
<1>2. y.result = [parts |-> parts \ drop, precision |-> IF "road" \in first.parts \ drop THEN "street" ELSE "area"]
  BY <1>1 DEF Places!Shown
<1>3. "house_number" \notin drop => accuracy = None \/ accuracy <= 20
  BY <1>1 DEF Places!precision
<1>4. "road" \notin drop => accuracy = None \/ accuracy <= 250
  BY <1>1, DataAssumption DEF Places!precision
<1>5. y.result.parts = parts \ drop /\ y.result.precision = IF "road" \in first.parts \ drop THEN "street" ELSE "area"
  BY <1>2
<1>6. "road" \in parts <=> "road" \in first.parts
  OBVIOUS
<1> QED
  BY <1>3, <1>4, <1>5, <1>6 DEF Precise

\* A request ends with what it shows.
LEMMA LookEnds ==
    ASSUME LookInv, NEW r \in Request, NEW result, Places!End(r, result), UNCHANGED <<clock, last, starts>>, ~IsIn(look[r]),
           Precise([accuracy |-> look[r].accuracy, result |-> result])
    PROVE  LookInv'
<1>1. PICK one : one = [Places!Idle EXCEPT !.pc = "done"]
  OBVIOUS
<1>2. PICK two : two = [one EXCEPT !.who = look[r].who]
  OBVIOUS
<1>3. PICK three : three = [two EXCEPT !.accuracy = look[r].accuracy]
  OBVIOUS
<1>4. PICK y : y = [three EXCEPT !.result = result]
  OBVIOUS
<1>5. one.pc = "done" /\ IsLook(one) /\ one.key = <<>>
  BY <1>1 DEF IsLook, Places!Idle
<1>6. two.pc = "done" /\ IsLook(two) /\ two.key = <<>>
  BY <1>2, <1>5 DEF IsLook
<1>7. three.pc = "done" /\ IsLook(three) /\ three.key = <<>> /\ three.accuracy = look[r].accuracy
  BY <1>3, <1>6 DEF IsLook
<1>8. y.pc = "done" /\ y.accuracy = look[r].accuracy /\ y.key = <<>> /\ y.result = result /\ IsLook(y)
  BY <1>4, <1>7 DEF IsLook
<1>9. look' = [look EXCEPT ![r] = y] /\ UNCHANGED <<places, lookers, waiting>>
  BY <1>1, <1>2, <1>3, <1>4 DEF Places!End
<1>10. look[r].accuracy \in Nat \cup {None}
  BY DEF LookInv, Looks
<1>11. Precise(y)
  BY <1>8 DEF Precise
<1>12. Looks(y) /\ ~IsIn(y)
  BY <1>8, <1>10, <1>11 DEF Looks, IsIn
<1>13. OfCache(places, places')
  BY <1>9 DEF OfCache, LookInv
<1> QED
  BY <1>9, <1>12, <1>13, Aside

\* A request comes, of the administrator or of a citizen.
LEMMA Comes ==
    ASSUME LookInv, NEW r \in Request,
           Places!Admin(r) \/ \E accuracy \in Accuracy : Places!Citizen(r, accuracy)
    PROVE  LookInv'
<1>1. ~IsIn(look[r])
  BY DEF Places!Admin, Places!Citizen, IsIn
<1>2. ASSUME Places!Admin(r) PROVE LookInv'
  <2>1. PICK one : one = [Places!Idle EXCEPT !.who = "administrator"]
    OBVIOUS
  <2>2. PICK request : request = [one EXCEPT !.key = <<"poi", 18>>]
    OBVIOUS
  <2>3. IsLook(one) /\ one.pc = "idle" /\ one.accuracy = None /\ one.result = None
    BY <2>1 DEF IsLook, Places!Idle
  <2>4. IsLook(request) /\ request.pc = "idle" /\ request.accuracy = None /\ request.result = None /\ request.key = <<"poi", 18>>
    BY <2>2, <2>3 DEF IsLook
  <2>5. Places!Enter(r, request) /\ UNCHANGED <<clock, last, starts>>
    BY <1>2, <2>1, <2>2 DEF Places!Admin
  <2>6. ~IsIn(request) /\ Precise(request) /\ request.key \in LookKey /\ request.accuracy \in Nat \cup {None}
    BY <2>4 DEF IsIn, Precise, LookKey
  <2> QED
    BY <1>1, <2>4, <2>5, <2>6, Enters
<1>3. ASSUME NEW accuracy \in Accuracy, Places!Citizen(r, accuracy) PROVE LookInv'
  <2>1. PICK one : one = [Places!Idle EXCEPT !.who = "citizen"]
    OBVIOUS
  <2>2. PICK two : two = [one EXCEPT !.accuracy = accuracy]
    OBVIOUS
  <2>3. PICK key : key = <<"address", Places!precision(accuracy).zoom>>
    OBVIOUS
  <2>4. PICK request : request = [two EXCEPT !.key = key]
    OBVIOUS
  <2>5. IsLook(one) /\ one.pc = "idle" /\ one.result = None
    BY <2>1 DEF IsLook, Places!Idle
  <2>6. IsLook(two) /\ two.pc = "idle" /\ two.accuracy = accuracy /\ two.result = None
    BY <2>2, <2>5 DEF IsLook
  <2>7. IsLook(request) /\ request.pc = "idle" /\ request.accuracy = accuracy /\ request.result = None /\ request.key = key
    BY <2>4, <2>6 DEF IsLook
  <2>8. request = [[[Places!Idle EXCEPT !.who = "citizen"] EXCEPT !.accuracy = accuracy] EXCEPT !.key = key]
    BY <2>1, <2>2, <2>4
  <2>9. Places!Enter(r, request) /\ UNCHANGED <<clock, last, starts>>
    BY <1>3, <2>3, <2>8, ZenonT(30) DEF Places!Citizen
  <2>10. Places!precision(accuracy).zoom \in {14, 17, 18}
    BY DEF Places!precision
  <2>11. key \in LookKey
    BY <2>3, <2>10 DEF LookKey
  <2>12. ~IsIn(request) /\ Precise(request) /\ request.key \in LookKey /\ request.accuracy \in Nat \cup {None}
    BY <2>7, <2>11, DataAssumption DEF IsIn, Precise
  <2> QED
    BY <1>1, <2>7, <2>9, <2>12, Enters
<1> QED
  BY <1>2, <1>3

\* The request that asked has an answer, or none.
LEMMA Leaves ==
    ASSUME LookInv, NEW r \in Request, Places!Fail(r) \/ \E answer \in Bodies : Places!Answer(r, answer)
    PROVE  LookInv'
<1>0. look[r].pc = "asking" /\ Looks(look[r]) /\ places \in Seq(Entry) /\ clock \in Nat
  BY DEF LookInv, Places!Fail, Places!Answer
<1>1. IsLook(look[r]) /\ look[r].accuracy \in Nat \cup {None} /\ look[r].key \in LookKey \cup {<<>>}
  BY <1>0 DEF Looks
<1>2. ASSUME Places!Fail(r) PROVE LookInv'
  <2>1. PICK y : y = [look[r] EXCEPT !.pc = "failed"]
    OBVIOUS
  <2>2. /\ IsLook(y) /\ y.pc = "failed" /\ y.accuracy = look[r].accuracy /\ y.key = look[r].key /\ y.result = look[r].result
    BY <1>1, <2>1 DEF IsLook
  <2>3. Looks(y) /\ ~IsIn(y)
    BY <1>0, <2>2 DEF Looks, Precise, IsIn
  <2>4. look' = [look EXCEPT ![r] = y] /\ Places!Release /\ UNCHANGED <<clock, last, starts>> /\ places' = places
    BY <1>2, <2>1 DEF Places!Fail
  <2>5. places' \in Seq(Entry) /\ \A i \in DOMAIN places' : places'[i].at = clock \/ \E j \in DOMAIN places : places'[i] = places[j]
    BY <1>0, <2>4
  <2> QED
    BY <1>0, <2>3, <2>4, <2>5, Released
<1>3. ASSUME NEW answer \in Bodies, Places!Answer(r, answer) PROVE LookInv'
  <2>1. PICK one : one = [look[r] EXCEPT !.pc = "answered"]
    OBVIOUS
  <2>2. PICK y : y = [one EXCEPT !.body = answer]
    OBVIOUS
  <2>3. /\ IsLook(one) /\ one.pc = "answered" /\ one.accuracy = look[r].accuracy /\ one.key = look[r].key
        /\ one.result = look[r].result
    BY <1>1, <2>1 DEF IsLook
  <2>4. IsLook(y) /\ y.pc = "answered" /\ y.accuracy = look[r].accuracy /\ y.key = look[r].key /\ y.result = look[r].result
    BY <2>2, <2>3 DEF IsLook
  <2>5. Looks(y) /\ ~IsIn(y)
    BY <1>0, <2>4 DEF Looks, Precise, IsIn
  <2>6. PICK e : e = [key |-> look[r].key, at |-> clock, body |-> answer]
    OBVIOUS
  <2>7. Places!Release /\ UNCHANGED <<clock, last, starts>> /\ places' = Places!Put(e)
    BY <1>3, <2>6 DEF Places!Answer
  <2>8. look' = [look EXCEPT ![r] = y]
    <3>1. PICK middle : middle = [look EXCEPT ![r].pc = "answered"]
      OBVIOUS
    <3>2. look' = [middle EXCEPT ![r].body = answer]
      BY <1>3, <3>1 DEF Places!Answer
    <3>3. look = [q \in Request |-> look[q]]
      BY DEF LookInv
    <3>4. middle = [look EXCEPT ![r] = one] /\ middle[r] = one
      BY <2>1, <3>1, <3>3
    <3>5. look' = [middle EXCEPT ![r] = y]
      BY <2>2, <3>2, <3>4
    <3> QED
      BY <3>3, <3>4, <3>5
  <2>9. look[r].key \in LookKey
    BY <1>0 DEF LookInv, CacheInv, IsIn
  <2>10. e \in Entry /\ e.at = clock
    BY <1>0, <2>6, <2>9 DEF Entry
  <2>11. places' \in Seq(Entry) /\ \A i \in DOMAIN places' : places'[i] = e \/ \E j \in DOMAIN places : places'[i] = places[j]
    BY <1>0, <2>7, <2>10, PutOne
  <2>12. \A i \in DOMAIN places' : places'[i].at = clock \/ \E j \in DOMAIN places : places'[i] = places[j]
    BY <2>10, <2>11
  <2> QED
    BY <1>0, <2>5, <2>7, <2>8, <2>11, <2>12, Released
<1> QED
  BY <1>2, <1>3

\* The handler goes on with an answer, or without one.
LEMMA LookGoesOn == ASSUME LookInv, NEW r \in Request, Places!Continue(r) \/ Places!GiveUp(r) PROVE LookInv'
<1>0. ~IsIn(look[r]) /\ Looks(look[r]) /\ UNCHANGED <<clock, last, starts>>
  BY DEF LookInv, Places!Continue, Places!GiveUp, IsIn
<1>1. PICK accuracy : accuracy = look[r].accuracy
  OBVIOUS
<1>2. PICK first : first = look[r].first
  OBVIOUS
<1>3. PICK known : known = look[r].body
  OBVIOUS
<1>4. accuracy \in Nat \cup {None} /\ IsLook(look[r]) /\ look[r].key \in LookKey \cup {<<>>}
  BY <1>0, <1>1 DEF Looks
<1>5. ASSUME NEW place, NEW parts, NEW result, Places!End(r, result), result = None \/ result = Places!Shown(accuracy, place, parts),
             place.parts \subseteq parts, parts \ place.parts \subseteq {"village", "town", "pin"}
      PROVE  LookInv'
  <2>1. PICK y : y = [accuracy |-> look[r].accuracy, result |-> result]
    OBVIOUS
  <2>2. y.accuracy = accuracy /\ y.result = result
    BY <1>1, <2>1
  <2>3. CASE result = None
    <3>1. Precise(y)
      BY <2>2, <2>3 DEF Precise
    <3> QED
      BY <1>0, <1>5, <2>1, <3>1, LookEnds
  <2>4. CASE result = Places!Shown(accuracy, place, parts)
    <3>1. Precise(y)
      BY <1>4, <1>5, <2>2, <2>4, ShowsNoMore
    <3> QED
      BY <1>0, <1>5, <2>1, <3>1, LookEnds
  <2> QED
    BY <1>5, <2>3, <2>4
<1>6. ASSUME NEW key \in LookKey, Places!Second(r, key), look[r].pc = "answered" PROVE LookInv'
  <2>1. PICK one : one = [look[r] EXCEPT !.key = key]
    OBVIOUS
  <2>2. PICK request : request = [one EXCEPT !.first = look[r].body]
    OBVIOUS
  <2>3. IsLook(one) /\ one.pc = "answered" /\ one.accuracy = look[r].accuracy /\ one.key = key /\ one.result = look[r].result
    BY <1>4, <1>6, <2>1 DEF IsLook
  <2>4. /\ IsLook(request) /\ request.pc = "answered" /\ request.accuracy = look[r].accuracy /\ request.key = key
        /\ request.result = look[r].result
    BY <2>2, <2>3 DEF IsLook
  <2>5. Places!Enter(r, request)
    BY <1>6, <2>1, <2>2 DEF Places!Second
  <2>6. ~IsIn(request) /\ Precise(request) /\ request.key \in LookKey /\ request.accuracy \in Nat \cup {None}
    BY <1>0, <1>1, <1>4, <2>4 DEF IsIn, Precise, Looks
  <2> QED
    BY <1>0, <2>4, <2>5, <2>6, Enters
<1>7. PICK joined : joined = Places!fill_place(first.parts, known)
  OBVIOUS
<1>8. first.parts \subseteq joined /\ joined \ first.parts \subseteq {"village", "town", "pin"}
  BY <1>7 DEF Places!fill_place, Places!Locality
<1>9. ASSUME Places!Continue(r) PROVE LookInv'
  <2>0. look[r].pc = "answered"
    BY <1>9 DEF Places!Continue
  <2>1. CASE \E key \in LookKey : Places!Second(r, key)
    BY <1>6, <2>0, <2>1
  <2>2. CASE Places!End(r, None)
    <3>1. known.parts \subseteq known.parts /\ known.parts \ known.parts \subseteq {"village", "town", "pin"}
      OBVIOUS
    <3> QED
      BY <1>5, <2>2, <3>1
  <2>3. CASE Places!End(r, IF known.india THEN Places!Shown(accuracy, known, known.parts) ELSE None)
    <3>1. PICK result : result = IF known.india THEN Places!Shown(accuracy, known, known.parts) ELSE None
      OBVIOUS
    <3>2. known.parts \subseteq known.parts /\ known.parts \ known.parts \subseteq {"village", "town", "pin"}
      OBVIOUS
    <3>3. result = None \/ result = Places!Shown(accuracy, known, known.parts)
      BY <3>1
    <3>4. Places!End(r, result)
      BY <2>3, <3>1
    <3> QED
      BY <1>5, <3>2, <3>3, <3>4
  <2>4. CASE Places!End(r, IF first.india THEN Places!Shown(accuracy, first, joined) ELSE None)
    <3>1. PICK result : result = IF first.india THEN Places!Shown(accuracy, first, joined) ELSE None
      OBVIOUS
    <3>2. result = None \/ result = Places!Shown(accuracy, first, joined)
      BY <3>1
    <3>3. Places!End(r, result)
      BY <2>4, <3>1
    <3> QED
      BY <1>5, <1>8, <3>2, <3>3
  <2>5. <<"address", 18>> \in LookKey /\ <<"address", 14>> \in LookKey
    BY DEF LookKey
  <2> QED
    BY <1>1, <1>2, <1>3, <1>7, <1>9, <2>1, <2>2, <2>3, <2>4, <2>5 DEF Places!Continue
<1>10. ASSUME Places!GiveUp(r) PROVE LookInv'
  <2>1. PICK result : result = IF look[r].who = "citizen" /\ first # None /\ first.india
                               THEN Places!Shown(accuracy, first, first.parts) ELSE None
    OBVIOUS
  <2>2. first.parts \subseteq first.parts /\ first.parts \ first.parts \subseteq {"village", "town", "pin"}
    OBVIOUS
  <2>3. result = None \/ result = Places!Shown(accuracy, first, first.parts)
    BY <2>1
  <2>4. Places!End(r, result)
    BY <1>1, <1>2, <1>10, <2>1 DEF Places!GiveUp
  <2> QED
    BY <1>5, <2>2, <2>3, <2>4
<1> QED
  BY <1>9, <1>10

\* Time passes.
LEMMA PlacesTick == LookInv /\ Places!Tick => LookInv'
<1> SUFFICES ASSUME LookInv, Places!Tick PROVE LookInv'
  OBVIOUS
<1>1. clock \in Nat /\ clock' = clock + 1 /\ UNCHANGED <<places, lookers, waiting, last, look, starts>>
  BY DEF LookInv, Places!Tick
<1>2. LineInv'
  BY <1>1 DEF LookInv, LineInv, Lookers
<1>3. StartsInv'
  BY <1>1 DEF LookInv, StartsInv
<1>4. CacheInv'
  <2>1. CacheInv /\ places \in Seq(Entry)
    BY DEF LookInv
  <2>2. \A i \in DOMAIN places : places[i].at \in Nat
    <3>1. \A e \in Entry : e.at \in Nat
      BY DEF Entry
    <3>2. \A i \in DOMAIN places : places[i] \in Entry
      BY <2>1
    <3> QED
      BY <3>1, <3>2
  <2>3. \A x, e : e.at \in Nat /\ Asked(x, e) => Asked(x, e)'
    BY <1>1, DataAssumption DEF Asked
  <2> QED
    BY <1>1, <2>1, <2>2, <2>3 DEF CacheInv
<1> QED
  BY <1>1, <1>2, <1>3, <1>4 DEF LookInv

\* Every step of the place names preserves what is promised.
LEMMA PlacesStep == LookInv /\ [Places!Next]_Places!placeVars => LookInv'
<1> SUFFICES ASSUME LookInv, [Places!Next]_Places!placeVars PROVE LookInv'
  OBVIOUS
<1>1. CASE UNCHANGED Places!placeVars
  <2>1. UNCHANGED <<clock, places, lookers, waiting, last, look, starts>>
    BY <1>1 DEF Places!placeVars
  <2> QED
    BY <2>1 DEF LookInv, LineInv, StartsInv, CacheInv, Asked, Lookers
<1>2. CASE Places!Next
  <2>1. ASSUME NEW r \in Request, Places!Start(r) PROVE LookInv'
    BY <2>1, Starting
  <2> QED
    BY <1>2, <2>1, Comes, Leaves, LookGoesOn, PlacesTick DEF Places!Next
<1> QED
  BY <1>1, <1>2

-----------------------------------------------------------------------------
(***************************************************************************)
(* Lines for a lock.                                                       *)
(***************************************************************************)
\* Requests in a line, each once.
IsLine(q) == q \in Seq(Request) /\ \A i, j \in DOMAIN q : q[i] = q[j] => i = j
Among(q, x) == \E i \in DOMAIN q : q[i] = x

\* Who joins a line is its last.
LEMMA JoinsLine ==
    ASSUME NEW q, IsLine(q), NEW r \in Request, ~Among(q, r), NEW p, p = Append(q, r)
    PROVE  /\ IsLine(p) /\ \A x : Among(p, x) <=> x = r \/ Among(q, x)
           /\ \A x : Among(q, x) => Head(p) = Head(q)
<1>1. q \in Seq(Request) /\ Len(q) \in Nat /\ DOMAIN q = 1 .. Len(q)
  BY DEF IsLine
<1>2. /\ p \in Seq(Request) /\ DOMAIN p = 1 .. Len(q) + 1 /\ p[Len(q) + 1] = r
      /\ \A i \in 1 .. Len(q) : p[i] = q[i]
  BY <1>1
<1>3. \A i \in DOMAIN p : i \in 1 .. Len(q) \/ i = Len(q) + 1
  BY <1>1, <1>2
<1>4. Len(q) + 1 \in DOMAIN p /\ \A i \in 1 .. Len(q) : i \in DOMAIN p
  BY <1>1, <1>2
<1>5. \A i \in 1 .. Len(q) : q[i] # r
  BY <1>1 DEF Among
<1>6. IsLine(p)
  BY <1>1, <1>2, <1>3, <1>5 DEF IsLine
<1>7. \A x : Among(p, x) <=> x = r \/ Among(q, x)
  BY <1>1, <1>2, <1>3, <1>4 DEF Among
<1>8. ASSUME NEW x, Among(q, x) PROVE Head(p) = Head(q)
  <2>1. 1 \in 1 .. Len(q)
    BY <1>1, <1>8 DEF Among
  <2> QED
    BY <1>1, <1>2, <2>1
<1> QED
  BY <1>6, <1>7, <1>8

\* The first leaves the line to the others.
LEMMA LeavesLine ==
    ASSUME NEW q, IsLine(q), NEW r, Among(q, r), Head(q) = r, NEW p, p = Tail(q)
    PROVE  IsLine(p) /\ \A x : Among(p, x) <=> x # r /\ Among(q, x)
<1>1. q \in Seq(Request) /\ Len(q) \in Nat /\ DOMAIN q = 1 .. Len(q) /\ \A i, j \in DOMAIN q : q[i] = q[j] => i = j
  BY DEF IsLine
<1>2. 1 \in DOMAIN q
  BY <1>1 DEF Among
<1>3. q[1] = r /\ q # <<>>
  BY <1>1, <1>2
<1>4. p \in Seq(Request) /\ DOMAIN p = 1 .. Len(q) - 1 /\ \A i \in 1 .. Len(q) - 1 : p[i] = q[i + 1]
  BY <1>1, <1>2, <1>3
<1>5. \A i \in DOMAIN p : i + 1 \in DOMAIN q /\ i + 1 # 1 /\ i \in Int /\ p[i] = q[i + 1]
  BY <1>1, <1>4
<1>6. \A i \in DOMAIN q : i # 1 => i - 1 \in DOMAIN p /\ (i - 1) + 1 = i
  BY <1>1, <1>4
<1>7. IsLine(p)
  <2> SUFFICES ASSUME NEW i \in DOMAIN p, NEW j \in DOMAIN p, p[i] = p[j] PROVE i = j
    BY <1>4 DEF IsLine
  <2>1. i + 1 = j + 1
    BY <1>1, <1>5
  <2> QED
    BY <1>5, <2>1
<1>8. ASSUME NEW x, Among(p, x) PROVE x # r /\ Among(q, x)
  <2>1. PICK i \in DOMAIN p : p[i] = x
    BY <1>8 DEF Among
  <2> QED
    BY <1>1, <1>2, <1>3, <1>5, <2>1 DEF Among
<1>9. ASSUME NEW x, x # r, Among(q, x) PROVE Among(p, x)
  <2>1. PICK i \in DOMAIN q : q[i] = x
    BY <1>9 DEF Among
  <2>2. i # 1
    BY <1>3, <1>9, <2>1
  <2> QED
    BY <1>5, <1>6, <2>1, <2>2 DEF Among
<1> QED
  BY <1>7, <1>8, <1>9

-----------------------------------------------------------------------------
(***************************************************************************)
(* Reverse geocoding.                                                      *)
(***************************************************************************)
Jobs == DOMAIN made.jobs
Placed == {t \in Jobs : t > clock - BudgetHour}
Outlined == {t \in Jobs : made.jobs[t] # None /\ made.jobs[t] > clock - BudgetHour}
InJob(r) == naming[r].pc \in {"place", "outline"}

\* Who is in the line, and once each; only the first has a job.
NamersInv ==
    /\ IsLine(namers)
    /\ naming = [r \in Request |-> [pc |-> naming[r].pc, point |-> naming[r].point, began |-> naming[r].began]]
    /\ \A r \in Request : naming[r].pc \in {"idle", "waiting", "place", "outline"}
    /\ \A r \in Request : naming[r].pc # "idle" <=> Among(namers, r)
    /\ \A r \in Request : InJob(r) => Head(namers) = r

\* Jobs begin apart, and one asks for its outline before the next begins; what is counted
\* are the jobs of the hour.
JobsInv ==
    /\ clock \in Nat /\ made = [jobs |-> made.jobs, failures |-> made.failures] /\ IsFiniteSet(Jobs)
    /\ made.jobs = [t \in Jobs |-> made.jobs[t]]
    /\ \A t \in Jobs : t \in Nat /\ t <= clock
    /\ \A t \in Jobs : made.jobs[t] = None \/ (made.jobs[t] \in Nat /\ t <= made.jobs[t] /\ made.jobs[t] <= clock)
    /\ \A t, u \in Jobs : t < u => u - t >= Gap /\ (made.jobs[t] # None => made.jobs[t] <= u)
    /\ calls \subseteq Nat /\ {t \in calls : t > clock - BudgetHour} = Placed
    /\ 2 * Cardinality(Placed) <= Quota

\* The job that is under way is the last, and has not asked twice.
LatestInv ==
    \A r \in Request : InJob(r) =>
        /\ naming[r].began \in Jobs /\ \A t \in Jobs : t <= naming[r].began
        /\ naming[r].pc = "place" => made.jobs[naming[r].began] = None
        /\ cooldown_until <= naming[r].began

\* No job began while the provider was to be left alone, and none will.
PauseInv ==
    /\ cooldown_until \in Nat
    /\ \A f \in made.failures : f.at \in Nat /\ f.pause \in Nat /\ f.at + f.pause <= cooldown_until
    /\ \A f \in made.failures, t \in Jobs : ~(f.at < t /\ t < f.at + f.pause)

NamingInv == NamersInv /\ JobsInv /\ LatestInv /\ PauseInv

-----------------------------------------------------------------------------
\* Of the jobs that began before the last hour, one at most asked for its outline in it.
LEMMA NamingHolds == NamingInv => Geocoding!MapTilerSpared
<1> SUFFICES ASSUME NamingInv PROVE Geocoding!MapTilerSpared
  OBVIOUS
<1>1. \A t, u \in Outlined \ Placed : t = u
  <2> SUFFICES ASSUME NEW t \in Outlined \ Placed, NEW u \in Outlined \ Placed, t < u PROVE FALSE
    BY DEF NamingInv, JobsInv, Outlined, Placed
  <2>1. made.jobs[t] <= u
    BY DEF NamingInv, JobsInv, Outlined
  <2>2. /\ t \in Nat /\ u \in Nat /\ made.jobs[t] \in Nat /\ clock \in Nat
        /\ ~(u > clock - BudgetHour) /\ made.jobs[t] > clock - BudgetHour
    BY DEF NamingInv, JobsInv, Outlined, Placed
  <2> QED
    BY <2>1, <2>2, DataAssumption
<1>2. IsFiniteSet(Placed) /\ IsFiniteSet(Outlined)
  BY FS_Subset DEF NamingInv, JobsInv, Placed, Outlined
<1>3. Cardinality(Outlined) <= Cardinality(Placed) + 1
  <2>1. CASE Outlined \subseteq Placed
    <3>1. Cardinality(Outlined) <= Cardinality(Placed)
      BY <1>2, <2>1, FS_Subset
    <3>2. Cardinality(Outlined) \in Nat /\ Cardinality(Placed) \in Nat
      BY <1>2, FS_CardinalityType
    <3> QED
      BY <3>1, <3>2
  <2>2. ASSUME NEW t \in Outlined \ Placed PROVE Cardinality(Outlined) <= Cardinality(Placed) + 1
    <3>1. Outlined \subseteq Placed \cup {t} /\ t \notin Placed
      BY <1>1
    <3>2. PICK more : more = Placed \cup {t}
      OBVIOUS
    <3>3. IsFiniteSet(more) /\ Cardinality(more) = Cardinality(Placed) + 1
      BY <1>2, <3>1, <3>2, FS_AddElement
    <3>4. Cardinality(Outlined) <= Cardinality(more)
      BY <3>1, <3>2, <3>3, FS_Subset
    <3> QED
      BY <3>3, <3>4
  <2> QED
    BY <2>1, <2>2
<1>4. Cardinality(Placed) \in Nat /\ Cardinality(Outlined) \in Nat /\ 2 * Cardinality(Placed) <= Quota
  BY <1>2, FS_CardinalityType DEF NamingInv, JobsInv
<1>5. Cardinality(Placed) + Cardinality(Outlined) <= Quota + 1
  <2>1. Quota \in Nat
    BY DataAssumption
  <2> QED
    BY <1>3, <1>4, <2>1
<1>6. \A t, u \in Jobs : t < u => u - t >= Gap
  BY DEF NamingInv, JobsInv
<1>7. \A f \in made.failures, t \in Jobs : ~(f.at < t /\ t < f.at + f.pause)
  BY DEF NamingInv, PauseInv
<1> QED
  BY <1>5, <1>6, <1>7, SameCount DEF Geocoding!MapTilerSpared, Jobs, Placed, Outlined

\* Nothing has been asked at first.
LEMMA NamingInit == Geocoding!Init => NamingInv
<1> SUFFICES ASSUME Geocoding!Init PROVE NamingInv
  OBVIOUS
<1>1. /\ clock = 0 /\ calls = {} /\ cooldown_until = 0 /\ namers = <<>> /\ naming = [r \in Request |-> Geocoding!Idle]
      /\ made = [jobs |-> <<>>, failures |-> {}]
  BY DEF Geocoding!Init
<1>2. Jobs = {} /\ Placed = {}
  BY <1>1 DEF Jobs, Placed
<1>3. IsFiniteSet({}) /\ Cardinality({}) = 0
  BY FS_EmptySet
<1>4. NamersInv
  BY <1>1 DEF NamersInv, Geocoding!Idle, InJob, IsLine, Among
<1>5. JobsInv
  BY <1>1, <1>2, <1>3, DataAssumption DEF JobsInv
<1>6. LatestInv /\ PauseInv
  BY <1>1, <1>2 DEF LatestInv, PauseInv, InJob, Geocoding!Idle
<1> QED
  BY <1>4, <1>5, <1>6 DEF NamingInv

-----------------------------------------------------------------------------
\* A request joins the line.
LEMMA NamerJoins == ASSUME NamingInv, NEW r \in Request, NEW p \in Point, Geocoding!Ask(r, p) PROVE NamingInv'
<1>1. /\ naming[r].pc = "idle" /\ naming' = [naming EXCEPT ![r] = [pc |-> "waiting", point |-> p, began |-> 0]]
      /\ namers' = Append(namers, r) /\ UNCHANGED <<clock, calls, cooldown_until, made>>
  BY DEF Geocoding!Ask
<1>2. NamersInv
  BY DEF NamingInv
<1>3. /\ naming'[r] = [pc |-> "waiting", point |-> p, began |-> 0] /\ \A q \in Request \ {r} : naming'[q] = naming[q]
      /\ naming' = [q \in Request |-> naming'[q]]
  BY <1>1, <1>2 DEF NamersInv
<1>4. IsLine(namers') /\ (\A x : Among(namers', x) <=> x = r \/ Among(namers, x))
      /\ \A x : Among(namers, x) => Head(namers') = Head(namers)
  BY <1>1, <1>2, JoinsLine DEF NamersInv
<1>5. \A q \in Request : naming'[q].pc # "idle" <=> Among(namers', q)
  BY <1>2, <1>3, <1>4 DEF NamersInv
<1>6. \A q \in Request : InJob(q)' => q # r /\ InJob(q) /\ naming'[q] = naming[q]
  BY <1>3 DEF InJob
<1>7. \A q \in Request : InJob(q)' => Head(namers') = q
  BY <1>2, <1>4, <1>6 DEF NamersInv, InJob
<1>8. NamersInv'
  <2>1. \A q \in Request : naming'[q].pc \in {"idle", "waiting", "place", "outline"}
    BY <1>2, <1>3 DEF NamersInv
  <2>2. naming' = [q \in Request |-> [pc |-> naming'[q].pc, point |-> naming'[q].point, began |-> naming'[q].began]]
    BY <1>2, <1>3 DEF NamersInv
  <2> QED
    BY <1>4, <1>5, <1>7, <2>1, <2>2 DEF NamersInv
<1>9. LatestInv'
  BY <1>1, <1>6 DEF NamingInv, LatestInv, Jobs
<1>10. JobsInv' /\ PauseInv'
  BY <1>1 DEF NamingInv, JobsInv, PauseInv, Jobs, Placed
<1> QED
  BY <1>8, <1>9, <1>10 DEF NamingInv

\* The first in the line leaves it: what is reserved, and when the next may come, is
\* as before or of a failure now.
LEMMA NamerLeaves ==
    ASSUME NamingInv, NEW r \in Request, naming[r].pc # "idle", Head(namers) = r, Geocoding!Leave(r),
           JobsInv', PauseInv'
    PROVE  NamingInv'
<1>1. naming' = [naming EXCEPT ![r] = Geocoding!Idle] /\ namers' = Tail(namers)
  BY DEF Geocoding!Leave
<1>2. NamersInv
  BY DEF NamingInv
<1>3. /\ naming'[r] = Geocoding!Idle /\ \A q \in Request \ {r} : naming'[q] = naming[q]
      /\ naming' = [q \in Request |-> naming'[q]]
  BY <1>1, <1>2 DEF NamersInv
<1>4. IsLine(namers') /\ \A x : Among(namers', x) <=> x # r /\ Among(namers, x)
  BY <1>1, <1>2, LeavesLine DEF NamersInv
<1>5. \A q \in Request : naming'[q].pc # "idle" <=> Among(namers', q)
  BY <1>2, <1>3, <1>4 DEF NamersInv, Geocoding!Idle
<1>6. \A q \in Request : ~InJob(q)'
  BY <1>2, <1>3 DEF NamersInv, InJob, Geocoding!Idle
<1>7. NamersInv'
  <2>1. \A q \in Request : naming'[q].pc \in {"idle", "waiting", "place", "outline"}
    BY <1>2, <1>3 DEF NamersInv, Geocoding!Idle
  <2>2. naming' = [q \in Request |-> [pc |-> naming'[q].pc, point |-> naming'[q].point, began |-> naming'[q].began]]
    BY <1>2, <1>3 DEF NamersInv, Geocoding!Idle
  <2> QED
    BY <1>4, <1>5, <1>6, <2>1, <2>2 DEF NamersInv
<1>8. LatestInv'
  BY <1>6 DEF LatestInv
<1> QED
  BY <1>7, <1>8 DEF NamingInv

\* What is forgotten of the last hour is not of it.
LEMMA HourForgotten == ASSUME JobsInv, calls' \in {calls, Geocoding!ThisHour}, UNCHANGED <<clock, made>> PROVE JobsInv'
<1>1. {t \in calls' : t > clock - BudgetHour} = {t \in calls : t > clock - BudgetHour} /\ calls' \subseteq calls
  BY DEF Geocoding!ThisHour
<1> QED
  BY <1>1 DEF JobsInv, Jobs, Placed

\* Two calls are reserved, and a job begins.
LEMMA JobBegins == ASSUME NamingInv, NEW r \in Request, Geocoding!Begin(r) PROVE NamingInv'
<1>1. /\ naming[r].pc = "waiting" /\ Head(namers) = r /\ calls' = Geocoding!ThisHour \cup {clock}
      /\ clock >= cooldown_until /\ 2 * Cardinality(Geocoding!ThisHour) + 2 <= Quota
      /\ \A t \in Geocoding!ThisHour : clock - t >= Gap
      /\ made' = [made EXCEPT !.jobs = [t \in Jobs \cup {clock} |-> IF t = clock THEN None ELSE made.jobs[t]]]
      /\ UNCHANGED <<clock, cooldown_until, namers>>
  BY SameCount DEF Geocoding!Begin, Geocoding!Turn, Geocoding!Budget, Jobs
<1>2. NamersInv /\ JobsInv /\ LatestInv /\ PauseInv
  BY DEF NamingInv
<1>3. PICK one : one = [naming EXCEPT ![r].pc = "place"]
  OBVIOUS
<1>4. naming' = [one EXCEPT ![r].began = clock]
  BY <1>3 DEF Geocoding!Begin
<1>5. /\ naming'[r] = [pc |-> "place", point |-> naming[r].point, began |-> clock]
      /\ \A q \in Request \ {r} : naming'[q] = naming[q]
      /\ naming' = [q \in Request |-> naming'[q]]
  <2>1. naming = [q \in Request |-> naming[q]] /\ naming[r] = [pc |-> naming[r].pc, point |-> naming[r].point, began |-> naming[r].began]
    BY <1>2 DEF NamersInv
  <2>2. PICK x : x = naming[r]
    OBVIOUS
  <2>3. PICK y : y = [x EXCEPT !.pc = "place"]
    OBVIOUS
  <2>4. PICK z : z = [y EXCEPT !.began = clock]
    OBVIOUS
  <2>5. y = [pc |-> "place", point |-> x.point, began |-> x.began]
    BY <2>1, <2>2, <2>3
  <2>6. z = [pc |-> "place", point |-> x.point, began |-> clock]
    BY <2>4, <2>5
  <2>7. one = [naming EXCEPT ![r] = y] /\ one[r] = y /\ (\A q \in Request \ {r} : one[q] = naming[q]) /\ one = [q \in Request |-> one[q]]
    BY <1>3, <2>1, <2>2, <2>3
  <2>8. naming' = [one EXCEPT ![r] = z]
    BY <1>4, <2>4, <2>7
  <2> QED
    BY <2>2, <2>6, <2>7, <2>8
<1>6. clock \in Nat /\ Geocoding!ThisHour = Placed /\ IsFiniteSet(Jobs) /\ \A t \in Jobs : t \in Nat /\ t <= clock
  BY <1>2 DEF JobsInv, Geocoding!ThisHour
<1>7. \A t \in Jobs : clock - t >= Gap
  <2>1. ASSUME NEW t \in Jobs PROVE clock - t >= Gap
    <3>1. CASE t \in Placed
      BY <1>1, <1>6, <3>1
    <3>2. CASE t \notin Placed
      <4>1. ~(t > clock - BudgetHour) /\ t \in Nat /\ clock \in Nat
        BY <1>6, <3>2 DEF Placed
      <4>2. BudgetHour \in Nat /\ Gap \in Nat /\ Gap <= BudgetHour
        BY DataAssumption
      <4> QED
        BY <4>1, <4>2
    <3> QED
      BY <3>1, <3>2
  <2> QED
    BY <2>1
<1>8. clock \notin Jobs /\ \A t \in Jobs : t < clock
  BY <1>6, <1>7, DataAssumption
<1>9. PICK jobs : jobs = [t \in Jobs \cup {clock} |-> IF t = clock THEN None ELSE made.jobs[t]]
  OBVIOUS
<1>10. made' = [jobs |-> jobs, failures |-> made.failures] /\ made'.jobs = jobs /\ made'.failures = made.failures
  BY <1>1, <1>2, <1>9 DEF JobsInv
<1>11. /\ Jobs' = Jobs \cup {clock} /\ made'.jobs = [t \in Jobs' |-> made'.jobs[t]]
       /\ made'.jobs[clock] = None /\ \A t \in Jobs : made'.jobs[t] = made.jobs[t]
  BY <1>8, <1>9, <1>10 DEF Jobs
<1>12. Placed' = Placed \cup {clock} /\ clock \notin Placed /\ IsFiniteSet(Placed) /\ IsFiniteSet(Jobs')
  <2>1. clock > clock - BudgetHour
    BY <1>6, DataAssumption
  <2>2. Placed' = Placed \cup {clock} /\ clock \notin Placed /\ Placed \subseteq Jobs
    BY <1>1, <1>8, <1>11, <2>1 DEF Placed
  <2>3. IsFiniteSet(Placed) /\ IsFiniteSet(Jobs')
    BY <1>6, <1>8, <1>11, <2>2, FS_Subset, FS_AddElement
  <2> QED
    BY <2>2, <2>3
<1>13. 2 * Cardinality(Placed') <= Quota
  <2>1. Cardinality(Placed') = Cardinality(Placed) + 1 /\ Cardinality(Placed) \in Nat
    BY <1>12, FS_AddElement, FS_CardinalityType
  <2> QED
    BY <1>1, <1>6, <2>1, DataAssumption
<1>14. calls' \subseteq Nat /\ {t \in calls' : t > clock' - BudgetHour} = Placed'
  <2>0. calls' \subseteq Nat
    BY <1>1, <1>2, <1>6 DEF JobsInv, Geocoding!ThisHour
  <2>1. \A t \in calls' : t > clock - BudgetHour
    BY <1>1, <1>6, <1>12, DataAssumption DEF Placed
  <2> QED
    BY <1>1, <1>6, <1>12, <2>0, <2>1
<1>15. JobsInv'
  <2>1. \A t \in Jobs' : t \in Nat /\ t <= clock /\ (t \in Jobs \/ t = clock)
    BY <1>6, <1>11
  <2>2. \A t \in Jobs' : made'.jobs[t] = None \/ (made'.jobs[t] \in Nat /\ t <= made'.jobs[t] /\ made'.jobs[t] <= clock)
    BY <1>2, <1>11 DEF JobsInv
  <2>3. ASSUME NEW t \in Jobs', NEW u \in Jobs', t < u PROVE u - t >= Gap /\ (made'.jobs[t] # None => made'.jobs[t] <= u)
    <3>1. t \in Jobs
      BY <1>6, <2>1, <2>3
    <3>2. CASE u \in Jobs
      BY <1>2, <1>11, <2>3, <3>1, <3>2 DEF JobsInv
    <3>3. CASE u = clock
      <4>1. made.jobs[t] # None => made.jobs[t] <= clock
        BY <1>2, <3>1 DEF JobsInv
      <4> QED
        BY <1>7, <1>11, <3>1, <3>3, <4>1
    <3> QED
      BY <2>1, <3>2, <3>3
  <2> QED
    BY <1>1, <1>6, <1>10, <1>11, <1>12, <1>13, <1>14, <2>1, <2>2, <2>3 DEF JobsInv
<1>16. \A q \in Request : InJob(q)' => q = r
  BY <1>1, <1>2, <1>5 DEF NamersInv, InJob
<1>17. NamersInv'
  <2>1. \A q \in Request : naming'[q].pc # "idle" <=> naming[q].pc # "idle"
    BY <1>1, <1>5
  <2>2. \A q \in Request : naming'[q].pc \in {"idle", "waiting", "place", "outline"}
    BY <1>2, <1>5 DEF NamersInv
  <2>3. naming' = [q \in Request |-> [pc |-> naming'[q].pc, point |-> naming'[q].point, began |-> naming'[q].began]]
    BY <1>2, <1>5 DEF NamersInv
  <2> QED
    BY <1>1, <1>2, <1>16, <2>1, <2>2, <2>3 DEF NamersInv
<1>18. LatestInv'
  <2>1. naming'[r].began = clock /\ clock \in Jobs' /\ \A t \in Jobs' : t <= clock
    BY <1>5, <1>6, <1>11
  <2>2. cooldown_until' <= clock
    BY <1>1, <1>2, <1>6 DEF PauseInv
  <2> QED
    BY <1>11, <1>16, <2>1, <2>2 DEF LatestInv
<1>19. PauseInv'
  <2>1. \A f \in made.failures : ~(clock < f.at + f.pause)
    BY <1>1, <1>2, <1>6 DEF PauseInv
  <2> QED
    BY <1>1, <1>2, <1>10, <1>11, <2>1 DEF PauseInv
<1> QED
  BY <1>15, <1>17, <1>18, <1>19 DEF NamingInv

\* The job asks for the outline of its place.
LEMMA JobGoesOn == ASSUME NamingInv, NEW r \in Request, Geocoding!Locality(r) PROVE NamingInv'
<1>1. /\ naming[r].pc = "place" /\ naming' = [naming EXCEPT ![r].pc = "outline"]
      /\ made' = [made EXCEPT !.jobs = [made.jobs EXCEPT ![naming[r].began] = clock]]
      /\ UNCHANGED <<clock, calls, cooldown_until, namers>>
  BY DEF Geocoding!Locality
<1>2. NamersInv /\ JobsInv /\ LatestInv /\ PauseInv
  BY DEF NamingInv
<1>3. /\ naming'[r] = [pc |-> "outline", point |-> naming[r].point, began |-> naming[r].began]
      /\ \A q \in Request \ {r} : naming'[q] = naming[q]
      /\ naming' = [q \in Request |-> naming'[q]]
  <2>1. naming = [q \in Request |-> naming[q]] /\ naming[r] = [pc |-> naming[r].pc, point |-> naming[r].point, began |-> naming[r].began]
    BY <1>2 DEF NamersInv
  <2>2. PICK x : x = naming[r]
    OBVIOUS
  <2>3. PICK y : y = [x EXCEPT !.pc = "outline"]
    OBVIOUS
  <2>4. y = [pc |-> "outline", point |-> x.point, began |-> x.began]
    BY <2>1, <2>2, <2>3
  <2>5. naming' = [naming EXCEPT ![r] = y]
    BY <1>1, <2>1, <2>2, <2>3
  <2> QED
    BY <2>1, <2>2, <2>4, <2>5
<1>4. PICK b : b = naming[r].began
  OBVIOUS
<1>5. InJob(r) /\ b \in Jobs /\ made.jobs[b] = None /\ (\A t \in Jobs : t <= b) /\ cooldown_until <= b
  BY <1>1, <1>2, <1>4 DEF LatestInv, InJob
<1>6. PICK jobs : jobs = [made.jobs EXCEPT ![b] = clock]
  OBVIOUS
<1>7. made' = [jobs |-> jobs, failures |-> made.failures] /\ made'.jobs = jobs /\ made'.failures = made.failures
  BY <1>1, <1>2, <1>4, <1>6 DEF JobsInv
<1>8. /\ Jobs' = Jobs /\ made'.jobs = [t \in Jobs |-> made'.jobs[t]]
      /\ made'.jobs[b] = clock /\ \A t \in Jobs \ {b} : made'.jobs[t] = made.jobs[t]
  BY <1>2, <1>5, <1>6, <1>7 DEF Jobs, JobsInv
<1>9. Placed' = Placed
  BY <1>1, <1>8 DEF Placed
<1>10. clock \in Nat /\ \A t \in Jobs : t \in Nat /\ t <= clock
  BY <1>2 DEF JobsInv
<1>11. JobsInv'
  <2>1. \A t \in Jobs : made'.jobs[t] = None \/ (made'.jobs[t] \in Nat /\ t <= made'.jobs[t] /\ made'.jobs[t] <= clock)
    BY <1>2, <1>8, <1>10 DEF JobsInv
  <2>2. \A t \in Jobs, u \in Jobs : t < u => t # b
    BY <1>5, <1>10
  <2>3. \A t, u \in Jobs : t < u => u - t >= Gap /\ (made'.jobs[t] # None => made'.jobs[t] <= u)
    BY <1>2, <1>8, <2>2 DEF JobsInv
  <2> QED
    BY <1>1, <1>2, <1>7, <1>8, <1>9, <2>1, <2>3 DEF JobsInv
<1>12. \A q \in Request : InJob(q)' => q = r
  BY <1>2, <1>3, <1>5 DEF NamersInv, InJob
<1>13. NamersInv'
  <2>1. \A q \in Request : naming'[q].pc # "idle" <=> naming[q].pc # "idle"
    BY <1>1, <1>3
  <2>2. \A q \in Request : naming'[q].pc \in {"idle", "waiting", "place", "outline"}
    BY <1>2, <1>3 DEF NamersInv
  <2>3. naming' = [q \in Request |-> [pc |-> naming'[q].pc, point |-> naming'[q].point, began |-> naming'[q].began]]
    BY <1>2, <1>3 DEF NamersInv
  <2>4. Head(namers) = r
    BY <1>2, <1>5 DEF NamersInv
  <2> QED
    BY <1>1, <1>2, <1>12, <2>1, <2>2, <2>3, <2>4 DEF NamersInv
<1>14. LatestInv'
  <2>1. naming'[r].began = b /\ naming'[r].pc = "outline"
    BY <1>3, <1>4
  <2> QED
    BY <1>1, <1>5, <1>8, <1>12, <2>1 DEF LatestInv
<1>15. PauseInv'
  BY <1>1, <1>2, <1>7, <1>8 DEF PauseInv
<1> QED
  BY <1>11, <1>13, <1>14, <1>15 DEF NamingInv

\* A request that has its answer, or may not ask for one, leaves the line.
LEMMA Unasked ==
    ASSUME NamingInv, NEW r \in Request,
           Geocoding!Known(r) \/ Geocoding!OverBudget(r) \/ Geocoding!Named(r) \/ Geocoding!Unverified(r)
    PROVE  NamingInv'
<1>1. NamersInv /\ JobsInv /\ PauseInv
  BY DEF NamingInv
<1>2. /\ Geocoding!Leave(r) /\ calls' \in {calls, Geocoding!ThisHour} /\ UNCHANGED <<clock, made, cooldown_until>>
      /\ naming[r].pc # "idle" /\ Head(namers) = r
  BY <1>1 DEF Geocoding!Known, Geocoding!OverBudget, Geocoding!Named, Geocoding!Unverified, Geocoding!Turn, Geocoding!Keep,
     NamersInv, InJob
<1>3. JobsInv'
  BY <1>1, <1>2, HourForgotten
<1>4. PauseInv'
  BY <1>1, <1>2 DEF PauseInv, Jobs
<1> QED
  BY <1>2, <1>3, <1>4, NamerLeaves

\* The provider fails, and asks to be left alone.
LEMMA ProviderFails ==
    ASSUME NamingInv, NEW r \in Request, NEW pause \in Pauses, Geocoding!SourceFailure(r, pause)
    PROVE  NamingInv'
<1>1. NamersInv /\ JobsInv /\ LatestInv /\ PauseInv /\ clock \in Nat
  BY DEF NamingInv, JobsInv
<1>2. /\ Geocoding!Leave(r) /\ UNCHANGED <<clock, calls>> /\ cooldown_until' = clock + pause
      /\ made' = [made EXCEPT !.failures = made.failures \cup {[at |-> clock, pause |-> pause]}] /\ InJob(r)
  BY DEF Geocoding!SourceFailure, Geocoding!Keep, InJob
<1>3. naming[r].pc # "idle" /\ Head(namers) = r
  BY <1>1, <1>2 DEF NamersInv, InJob
<1>4. PICK failure : failure = [at |-> clock, pause |-> pause]
  OBVIOUS
<1>5. failure.at = clock /\ failure.pause = pause /\ pause \in Nat
  BY <1>4, DataAssumption
<1>6. /\ made' = [jobs |-> made.jobs, failures |-> made'.failures] /\ made'.jobs = made.jobs
      /\ made'.failures = made.failures \cup {failure}
  BY <1>1, <1>2, <1>4 DEF JobsInv
<1>7. JobsInv'
  BY <1>1, <1>2, <1>6 DEF JobsInv, Jobs, Placed
<1>8. \A t \in Jobs : t \in Nat /\ t <= clock
  BY <1>1 DEF JobsInv
<1>9. cooldown_until <= clock
  <2>1. naming[r].began \in Jobs /\ cooldown_until <= naming[r].began
    BY <1>1, <1>2 DEF LatestInv
  <2> QED
    BY <1>1, <1>8, <2>1 DEF PauseInv
<1>10. PauseInv'
  <2>1. \A f \in made.failures : f.at \in Nat /\ f.pause \in Nat /\ f.at + f.pause <= cooldown_until'
    BY <1>1, <1>2, <1>5, <1>9 DEF PauseInv
  <2>2. \A t \in Jobs : ~(failure.at < t)
    BY <1>1, <1>5, <1>8
  <2>3. cooldown_until' \in Nat /\ failure.at + failure.pause <= cooldown_until'
    BY <1>1, <1>2, <1>5
  <2> QED
    BY <1>1, <1>5, <1>6, <2>1, <2>2, <2>3 DEF PauseInv, Jobs
<1> QED
  BY <1>2, <1>3, <1>7, <1>10, NamerLeaves

\* As time passes, no more jobs are of the last hour.
LEMMA NamingTick == ASSUME NamingInv, Geocoding!Tick PROVE NamingInv'
<1>1. clock \in Nat /\ clock' = clock + 1 /\ UNCHANGED <<calls, cooldown_until, namers, naming, made>>
  BY DEF NamingInv, JobsInv, Geocoding!Tick
<1>2. NamersInv /\ JobsInv /\ LatestInv /\ PauseInv
  BY DEF NamingInv
<1>3. Jobs' = Jobs /\ IsFiniteSet(Jobs) /\ \A t \in Jobs : t \in Nat /\ t <= clock
  BY <1>1, <1>2 DEF Jobs, JobsInv
<1>4. \A t \in Nat : t > clock' - BudgetHour => t > clock - BudgetHour
  <2>1. BudgetHour \in Nat
    BY DataAssumption
  <2> QED
    BY <1>1, <2>1
<1>5. Placed' \subseteq Placed /\ IsFiniteSet(Placed)
  BY <1>3, <1>4, FS_Subset DEF Placed
<1>6. 2 * Cardinality(Placed') <= Quota
  <2>1. Cardinality(Placed') <= Cardinality(Placed) /\ Cardinality(Placed') \in Nat /\ Cardinality(Placed) \in Nat
    BY <1>5, FS_Subset, FS_CardinalityType
  <2>2. 2 * Cardinality(Placed) <= Quota /\ Quota \in Nat
    BY <1>2, DataAssumption DEF JobsInv
  <2> QED
    BY <2>1, <2>2
<1>7. {t \in calls' : t > clock' - BudgetHour} = Placed' /\ calls' \subseteq Nat
  <2>1. calls \subseteq Nat /\ {t \in calls : t > clock - BudgetHour} = Placed
    BY <1>2 DEF JobsInv
  <2>2. {t \in calls : t > clock' - BudgetHour} = {t \in Placed : t > clock' - BudgetHour}
    <3> SUFFICES ASSUME NEW t \in calls PROVE t > clock' - BudgetHour => t > clock - BudgetHour
      BY <2>1
    <3> QED
      BY <1>4, <2>1
  <2>3. Placed' = {t \in Placed : t > clock' - BudgetHour}
    BY <1>3, <1>4 DEF Placed
  <2> QED
    BY <1>1, <2>1, <2>2, <2>3
<1>8. JobsInv'
  <2>1. \A t \in Jobs : t \in Nat /\ t <= clock'
    BY <1>1, <1>3
  <2>2. \A t \in Jobs : made.jobs[t] = None \/ (made.jobs[t] \in Nat /\ t <= made.jobs[t] /\ made.jobs[t] <= clock')
    BY <1>1, <1>2 DEF JobsInv
  <2> QED
    BY <1>1, <1>2, <1>3, <1>6, <1>7, <2>1, <2>2 DEF JobsInv
<1>9. NamersInv' /\ LatestInv' /\ PauseInv'
  BY <1>1, <1>2, <1>3 DEF NamersInv, LatestInv, PauseInv, InJob
<1> QED
  BY <1>8, <1>9 DEF NamingInv

\* Every step of the reverse geocoding preserves what is promised.
LEMMA NamingStep == NamingInv /\ [Geocoding!Next]_Geocoding!nameVars => NamingInv'
<1> SUFFICES ASSUME NamingInv, [Geocoding!Next]_Geocoding!nameVars PROVE NamingInv'
  OBVIOUS
<1>1. CASE UNCHANGED Geocoding!nameVars
  <2>1. UNCHANGED <<clock, calls, cooldown_until, namers, naming, made>>
    BY <1>1 DEF Geocoding!nameVars
  <2> QED
    BY <2>1 DEF NamingInv, NamersInv, JobsInv, LatestInv, PauseInv, InJob, Jobs, Placed
<1>2. CASE Geocoding!Next
  BY <1>2, NamerJoins, JobBegins, JobGoesOn, Unasked, ProviderFails, NamingTick DEF Geocoding!Next
<1> QED
  BY <1>1, <1>2

-----------------------------------------------------------------------------
(***************************************************************************)
(* The services together.                                                  *)
(***************************************************************************)
\* The steps of a scene are those of its service.
LEMMA SceneSteps ==
    ASSUME [ServicesNext]_servicesVars
    PROVE  /\ scene' = scene
           /\ scene \in Key => [Next]_screenVars
           /\ scene \notin Key => UNCHANGED body
           /\ scene = "river" => [River!Next]_River!riverVars
           /\ scene = "feeds" => [Feeds!Next]_Feeds!feedVars
           /\ scene = "bulletin" => [Warnings!Next]_Warnings!bulletinVars
           /\ scene = "places" => [Places!Next]_Places!placeVars
           /\ scene = "geocoding" => [Geocoding!Next]_Geocoding!nameVars
           /\ scene = "public" => [Public!Next]_Public!limitVars
           /\ scene = "accounts" => [Admin!Next]_Admin!accountVars
           /\ scene = "proxy" => [Proxy!Next]_Proxy!proxyVars
           /\ scene = "pool" => [Pool!Next]_Pool!poolVars
           /\ scene = "directory" => [Directory!Next]_Directory!directoryVars
           /\ scene = "database" => [DB!Next]_DB!maintenanceVars
<1>1. Others \cap Key = {}
  BY ServicesAssumption
<1>2. CASE UNCHANGED servicesVars
  BY <1>2 DEF servicesVars, screenVars, Admin!accountVars, Proxy!proxyVars, Pool!poolVars, Directory!directoryVars,
     DB!maintenanceVars, River!riverVars, Feeds!feedVars, Warnings!bulletinVars, Places!placeVars,
     Geocoding!nameVars, Public!limitVars
<1>3. CASE ServicesNext
  BY <1>1, <1>3 DEF ServicesNext, Others
<1> QED
  BY <1>2, <1>3

\* Only the service the scene is about moves, so its invariant holds in its scene.
ScenesInv ==
    /\ scene \in Key => IInv
    /\ scene \notin Key => \A k \in Key : body[k] = None
    /\ scene = "river" => RiverInv
    /\ scene = "feeds" => FeedsInv
    /\ scene = "bulletin" => WarningsInv
    /\ scene = "places" => LookInv
    /\ scene = "geocoding" => NamingInv
    /\ scene = "public" => PublicInv
    /\ scene = "accounts" => AdminInv /\ CountInv /\ ReserveInv
    /\ scene = "proxy" => ProxyInv
    /\ scene = "pool" => PoolInv
    /\ scene = "directory" => DirectoryInv
    /\ scene = "database" => MaintenanceInv

\* Each scene begins with its invariant and keeps it.
LEMMA ServicesInvariant == Services => []ScenesInv
<1>1. ServicesInit => ScenesInv
  <2>1. Init => \A k \in Key : body[k] = None
    BY DEF Init
  <2> QED
    BY <2>1, InitInv, RiverInit, FeedsInit, WarningsInit, PlacesInit, NamingInit, PublicInit, AdminInit, CountInit, ReserveInit,
       ProxyInit, PoolInit, DirectoryInit, MaintenanceInit DEF ServicesInit, ScenesInv
<1>2. ScenesInv /\ [ServicesNext]_servicesVars => ScenesInv'
  BY SceneSteps, InvStep, RiverStep, FeedsStep, WarningsStep, PlacesStep, NamingStep, PublicStep, AdminStep, CountStep, ReserveStep,
     ProxyStep, PoolStep, DirectoryStep, MaintenanceStep DEF ScenesInv
<1> QED
  BY <1>1, <1>2, PTL DEF Services

\* Bodies of the risk screen are served in time: for no longer than the time their reading
\* may take and the time to live that their rain deserves.
THEOREM BodiesAreServedInTime == Services => []ServedInTime
<1>1. ScenesInv => ServedInTime
  BY InTime DEF ScenesInv, ServedInTime
<1> QED
  BY <1>1, ServicesInvariant, PTL

\* No provider is asked more than it bears: Open-Meteo by the risk screen, Nominatim by
\* citizens and administrators, MapTiler by the home page.
THEOREM ProvidersAreSpared == Services => []ProvidersSpared
<1>1. ScenesInv => ProvidersSpared
  BY Spares, PlacesHold, NamingHolds DEF ScenesInv, ProvidersSpared
<1> QED
  BY <1>1, ServicesInvariant, PTL

\* Nothing is made up: by the risk screen, the river forecast, the weather and the outlook,
\* the warnings by day, and the address that is shown for a position.
THEOREM NothingIsMadeUp == Services => []NothingMadeUp
<1>1. ScenesInv => NothingMadeUp
  BY Missing, RiverHolds, FeedsHold, WarningsHold, PlacesHold DEF ScenesInv, NothingMadeUp
<1> QED
  BY <1>1, ServicesInvariant, PTL

\* Sessions are earned: each is of a login that gave the account's password, or that a
\* reset has overtaken.
THEOREM SessionsAreEarned == Services => []SessionsEarned
<1>1. ScenesInv => SessionsEarned
  BY AdminHolds DEF ScenesInv, SessionsEarned
<1> QED
  BY <1>1, ServicesInvariant, PTL

\* Limits are kept: those of administrators' attempts, and those of public requests and of
\* the routes a day.
THEOREM LimitsAreKept == Services => []LimitsKept
<1>1. ScenesInv => LimitsKept
  BY CountHolds, PublicHolds DEF ScenesInv, LimitsKept
<1> QED
  BY <1>1, ServicesInvariant, PTL

\* Places are kept: those of the proxy are taken and given back one for one, and those of
\* the pool are waited for no longer than the claim's own time-outs.
THEOREM SlotsAreKept == Services => []SlotsKept
<1>1. ScenesInv => SlotsKept
  BY ProxyHolds, PoolHolds DEF ScenesInv, SlotsKept
<1> QED
  BY <1>1, ServicesInvariant, PTL

\* Directories are whole: of one valid version, whenever files are replaced and imports
\* and readers meet.
THEOREM DirectoriesAreWhole == Services => []DirectoryWhole
<1>1. ScenesInv => DirectoryWhole
  BY DirectoryHolds DEF ScenesInv, DirectoryWhole
<1> QED
  BY <1>1, ServicesInvariant, PTL

\* Set-up and upgrade are honest, wherever each run of them breaks off.
THEOREM MaintenanceIsHonest == Services => []MaintenanceHonest
<1>1. ScenesInv => MaintenanceHonest
  BY MaintenanceHolds DEF ScenesInv, MaintenanceHonest
<1> QED
  BY <1>1, ServicesInvariant, PTL
===============================================================================
