--------------------------- MODULE RiskScreen_proofs ---------------------------
(***************************************************************************)
(* Proofs about RiskScreen, for any requests, keys, cells, readings, times *)
(* to live, attempts, pauses and time-outs.                                *)
(***************************************************************************)
EXTENDS RiskScreen, FiniteSetTheorems, TLAPS

\* The longest pause; how much longer a call may take for the attempts it has left;
\* and the time of some rounds of calls.
Longest == CHOOSE w \in Waits : \A v \in Waits : v <= w
Spare(n) == (Attempts - n) * (Timeout + Longest)
Time(rounds) == rounds * CallTime

CallState == [pc : {"off", "queued", "asking", "sleeping", "done", "failed"}, n : 0 .. Attempts, due : Nat]
InFlightNow == {"asking", "sleeping"}

\* A call under way is not late, and sleeps only if it has an attempt left.
InSpan(a, now) ==
    a.pc \in InFlightNow => now <= a.due /\ a.n >= 1 /\ (a.pc = "sleeping" => a.n < Attempts)

\* When a call is over at the latest, whatever fails.
LatestEnd(a) == a.due + (IF a.pc = "asking" THEN Spare(a.n) ELSE Timeout + Spare(a.n + 1))

Moving(call) == {c \in CallId : call[c].pc \in InFlightNow}

\* With m calls started, w at a time: the rounds begun, and those surely over when
\* there is room for another call.
Begun(m, w) == IF w = 1 THEN m ELSE (m + 1) \div 2
Gone(m, w) == IF w = 1 THEN m ELSE m \div 2

\* The calls for rain keep pace: m of N have been started, w at a time, since R.
RainTimes(call, R, now, m, w, N) ==
    /\ now <= R + Time(Begun(m, w))
    /\ Cardinality(Moving(call)) <= w
    /\ \A c \in Moving(call) : LatestEnd(call[c]) <= R + Time(Begun(m, w))
    /\ Cardinality(Moving(call)) = w /\ Begun(m, w) # Gone(m, w) =>
          \E c \in Moving(call) : LatestEnd(call[c]) <= R + Time(Gone(m, w))
    /\ Cardinality(Moving(call)) < w /\ m < N => now <= R + Time(Gone(m, w))

-----------------------------------------------------------------------------
(* The arithmetic of attempts and rounds.                                  *)

\* A product of natural numbers is one, and grows with its factors.
LEMMA Products ==
    \A a, b \in Nat : a * b \in Nat /\ (a + 1) * b = a * b + b /\ \A c \in Nat : a <= c => a * b <= c * b
<1>1. \A a, b \in Nat : a * b \in Nat /\ (a + 1) * b = a * b + b
  OBVIOUS
<1>2. ASSUME NEW a \in Nat, NEW b \in Nat, NEW c \in Nat, a <= c PROVE a * b <= c * b
  <2>1. c - a \in Nat /\ (c - a) * b = c * b - a * b /\ a * b \in Nat /\ c * b \in Nat
    BY <1>1, <1>2
  <2>2. (c - a) * b \in Nat
    BY <1>1, <2>1
  <2> QED
    BY <2>1, <2>2
<1> QED
  BY <1>1, <1>2

\* Each attempt takes a time-out, and each but the last a pause.
LEMMA AttemptTimes ==
    /\ Timeout \in Nat /\ Attempts \in Nat \ {0} /\ Longest \in Nat /\ \A w \in Waits : w \in Nat /\ w <= Longest
    /\ CallTime \in Nat /\ CallTime = Timeout + Spare(1)
    /\ \A n \in 1 .. Attempts : Spare(n) \in Nat
    /\ \A n \in 1 .. Attempts : n < Attempts => Spare(n) = Spare(n + 1) + Timeout + Longest
<1>1. Timeout \in Nat /\ Attempts \in Nat \ {0} /\ Waits \subseteq Nat \ {0}
  BY ScreenAssumption
<1>2. Longest \in Waits /\ \A w \in Waits : w <= Longest
  BY ScreenAssumption DEF Longest
<1>3. ASSUME NEW n \in 1 .. Attempts PROVE Spare(n) \in Nat
  <2>1. Attempts - n \in Nat /\ Timeout + Longest \in Nat
    BY <1>1, <1>2
  <2> QED
    BY <2>1, Products DEF Spare
<1>4. ASSUME NEW n \in 1 .. Attempts, n < Attempts PROVE Spare(n) = Spare(n + 1) + Timeout + Longest
  <2>1. Attempts - (n + 1) \in Nat /\ Timeout + Longest \in Nat /\ Attempts - n = (Attempts - (n + 1)) + 1
    BY <1>1, <1>2, <1>4
  <2>2. ((Attempts - (n + 1)) + 1) * (Timeout + Longest) = (Attempts - (n + 1)) * (Timeout + Longest) + (Timeout + Longest)
    BY <2>1, Products
  <2> QED
    BY <1>1, <1>2, <1>3, <2>1, <2>2 DEF Spare
<1>5. CallTime = Timeout + Spare(1)
  <2>1. CallTime = Attempts * Timeout + (Attempts - 1) * Longest
    BY DEF CallTime, Longest
  <2>2. (Attempts - 1) * (Timeout + Longest) = (Attempts - 1) * Timeout + (Attempts - 1) * Longest
    BY <1>1, <1>2
  <2>3. ((Attempts - 1) + 1) * Timeout = (Attempts - 1) * Timeout + Timeout /\ (Attempts - 1) + 1 = Attempts
    BY <1>1, Products
  <2>4. (Attempts - 1) * Timeout \in Nat /\ (Attempts - 1) * Longest \in Nat
    BY <1>1, <1>2, Products
  <2> QED
    BY <1>1, <2>1, <2>2, <2>3, <2>4 DEF Spare
<1>6. CallTime \in Nat
  BY <1>1, <1>3, <1>5
<1> QED
  BY <1>1, <1>2, <1>3, <1>4, <1>5, <1>6

\* Rounds take their time one after the other.
LEMMA RoundTimes ==
    \A a \in Nat : Time(a) \in Nat /\ Time(a + 1) = Time(a) + CallTime /\ \A b \in Nat : a <= b => Time(a) <= Time(b)
BY AttemptTimes, Products DEF Time

\* Rounds begun and past, as calls are started.
LEMMA RoundsGo ==
    \A m \in Nat, w \in {1, 2} :
        /\ Begun(m, w) \in Nat /\ Gone(m, w) \in Nat /\ Gone(m, w) <= Begun(m, w)
        /\ Begun(m + 1, w) = Gone(m, w) + 1 /\ Begun(m, w) <= Begun(m + 1, w) /\ Gone(m, w) <= Gone(m + 1, w)
        /\ Begun(m, w) <= Gone(m + 1, w) /\ (w = 1 => Begun(m, w) = Gone(m, w))
BY DEF Begun, Gone

\* A call is over no sooner than it is due.
LEMMA EndType ==
    ASSUME NEW a \in CallState, NEW now \in Nat, InSpan(a, now), a.pc \in InFlightNow
    PROVE  LatestEnd(a) \in Nat /\ a.due <= LatestEnd(a) /\ now <= LatestEnd(a)
<1>1. a.n \in 1 .. Attempts /\ a.due \in Nat /\ now <= a.due /\ (a.pc # "asking" => a.n + 1 \in 1 .. Attempts)
  BY AttemptTimes DEF CallState, InSpan, InFlightNow
<1>2. Spare(a.n) \in Nat /\ (a.pc # "asking" => Spare(a.n + 1) \in Nat) /\ Timeout \in Nat
  BY <1>1, AttemptTimes
<1> QED
  BY <1>1, <1>2 DEF LatestEnd

-----------------------------------------------------------------------------
(* The calls for rain.                                                     *)

\* Calls that keep pace, and end at some time that is not past.
Pace(f, R, now, m, w, N) ==
    /\ R \in Nat /\ now \in Nat /\ m \in Nat /\ w \in {1, 2} /\ N \in Nat /\ RainTimes(f, R, now, m, w, N)
    /\ IsFiniteSet(Moving(f)) /\ \A d \in Moving(f) : LatestEnd(f[d]) \in Nat /\ now <= LatestEnd(f[d])

\* One call more, the same calls with none of them later, and one call less.
Starts(f, g, c, now, m, n, w, N) ==
    /\ n = m + 1 /\ m < N /\ Cardinality(Moving(f)) < w
    /\ c \notin Moving(f) /\ Moving(g) = Moving(f) \cup {c} /\ \A d \in Moving(f) : g[d] = f[d]
    /\ LatestEnd(g[c]) = now + CallTime
GoesOn(f, g) ==
    /\ Moving(g) = Moving(f)
    /\ \A d \in Moving(f) : LatestEnd(g[d]) \in Nat /\ LatestEnd(g[d]) <= LatestEnd(f[d])
Ends(f, g, c) == c \in Moving(f) /\ Moving(g) = Moving(f) \ {c} /\ \A d \in Moving(g) : g[d] = f[d]

\* Another call starts while there is room.
LEMMA RainStarts ==
    ASSUME NEW f, NEW g, NEW c, NEW R, NEW now, NEW m, NEW n, NEW w, NEW N,
           Pace(f, R, now, m, w, N), Starts(f, g, c, now, m, n, w, N)
    PROVE  RainTimes(g, R, now, n, w, N)
<1>0. /\ c \notin Moving(f) /\ Moving(g) = Moving(f) \cup {c} /\ \A d \in Moving(f) : g[d] = f[d]
      /\ LatestEnd(g[c]) = now + CallTime /\ IsFiniteSet(Moving(f)) /\ \A d \in Moving(f) : LatestEnd(f[d]) \in Nat
      /\ n = m + 1 /\ m < N /\ Cardinality(Moving(f)) < w
      /\ R \in Nat /\ now \in Nat /\ m \in Nat /\ w \in {1, 2} /\ N \in Nat /\ RainTimes(f, R, now, m, w, N)
  BY DEF Pace, Starts
<1>1. Cardinality(Moving(f)) \in Nat /\ Cardinality(Moving(g)) = Cardinality(Moving(f)) + 1
  BY <1>0, FS_CardinalityType, FS_AddElement
<1>2. CallTime \in Nat /\ now <= R + Time(Gone(m, w))
  BY <1>0, AttemptTimes DEF RainTimes
<1>3. /\ Begun(m, w) \in Nat /\ Gone(m, w) \in Nat /\ Gone(m + 1, w) \in Nat /\ Begun(m + 1, w) = Gone(m, w) + 1
      /\ Begun(m, w) <= Gone(m + 1, w) /\ Gone(m, w) <= Gone(m + 1, w) /\ Begun(m, w) <= Begun(m + 1, w)
      /\ (w = 1 => Begun(m + 1, w) = Gone(m + 1, w))
  <2>1. /\ Begun(m, w) \in Nat /\ Gone(m, w) \in Nat /\ Begun(m + 1, w) = Gone(m, w) + 1
        /\ Begun(m, w) <= Gone(m + 1, w) /\ Gone(m, w) <= Gone(m + 1, w) /\ Begun(m, w) <= Begun(m + 1, w)
    BY <1>0, RoundsGo
  <2>2. m + 1 \in Nat
    BY <1>0
  <2>3. Gone(m + 1, w) \in Nat /\ (w = 1 => Begun(m + 1, w) = Gone(m + 1, w))
    BY <1>0, <2>2, RoundsGo
  <2> QED
    BY <2>1, <2>3
<1>4. /\ Time(Begun(m, w)) \in Nat /\ Time(Gone(m, w)) \in Nat /\ Time(Gone(m + 1, w)) \in Nat
      /\ Time(Begun(m + 1, w)) = Time(Gone(m, w)) + CallTime
      /\ Time(Begun(m, w)) <= Time(Gone(m + 1, w)) /\ Time(Gone(m, w)) <= Time(Gone(m + 1, w))
      /\ Time(Begun(m, w)) <= Time(Begun(m + 1, w))
  BY <1>3, RoundTimes
<1>5. now <= R + Time(Begun(m + 1, w)) /\ Cardinality(Moving(g)) <= w
  BY <1>0, <1>1, <1>2, <1>4
<1>6. \A d \in Moving(g) : LatestEnd(g[d]) <= R + Time(Begun(m + 1, w))
  BY <1>0, <1>2, <1>4 DEF RainTimes
<1>7. ASSUME Cardinality(Moving(g)) = w, Begun(m + 1, w) # Gone(m + 1, w)
      PROVE  \E d \in Moving(g) : LatestEnd(g[d]) <= R + Time(Gone(m + 1, w))
  <2>1. w = 2 /\ Cardinality(Moving(f)) = 1
    BY <1>0, <1>1, <1>3, <1>7
  <2>2. PICK d \in Moving(f) : TRUE
    BY <1>0, <2>1, FS_EmptySet
  <2> QED
    BY <1>0, <1>4, <2>2 DEF RainTimes
<1>8. now <= R + Time(Gone(m + 1, w))
  BY <1>0, <1>2, <1>4
<1> QED
  BY <1>0, <1>5, <1>6, <1>7, <1>8 DEF RainTimes

\* A call goes on, to end no later than it might have.
LEMMA RainGoes ==
    ASSUME NEW f, NEW g, NEW R, NEW now, NEW m, NEW w, NEW N, Pace(f, R, now, m, w, N), GoesOn(f, g)
    PROVE  RainTimes(g, R, now, m, w, N)
<1>1. Time(Begun(m, w)) \in Nat /\ Time(Gone(m, w)) \in Nat
  BY RoundsGo, RoundTimes DEF Pace
<1> QED
  BY <1>1 DEF RainTimes, Pace, GoesOn

\* A call is over: there is room for another in time.
LEMMA RainEnds ==
    ASSUME NEW f, NEW g, NEW c, NEW R, NEW now, NEW m, NEW w, NEW N, Pace(f, R, now, m, w, N), Ends(f, g, c)
    PROVE  RainTimes(g, R, now, m, w, N)
<1>0. /\ IsFiniteSet(Moving(f)) /\ \A d \in Moving(f) : LatestEnd(f[d]) \in Nat /\ now <= LatestEnd(f[d])
      /\ c \in Moving(f) /\ Moving(g) = Moving(f) \ {c} /\ \A d \in Moving(g) : g[d] = f[d]
      /\ R \in Nat /\ now \in Nat /\ m \in Nat /\ w \in {1, 2} /\ N \in Nat /\ RainTimes(f, R, now, m, w, N)
  BY DEF Pace, Ends
<1>1. Cardinality(Moving(f)) \in Nat /\ Cardinality(Moving(g)) = Cardinality(Moving(f)) - 1
  BY <1>0, FS_CardinalityType, FS_RemoveElement
<1>2. Time(Begun(m, w)) \in Nat /\ Time(Gone(m, w)) \in Nat
  BY <1>0, RoundsGo, RoundTimes
<1>3. m < N => now <= R + Time(Gone(m, w))
  <2>1. CASE Cardinality(Moving(f)) < w
    BY <1>0, <2>1 DEF RainTimes
  <2>2. CASE Cardinality(Moving(f)) = w /\ Begun(m, w) # Gone(m, w)
    BY <1>0, <1>2, <2>2 DEF RainTimes
  <2>3. CASE Begun(m, w) = Gone(m, w)
    BY <1>0, <2>3 DEF RainTimes
  <2> QED
    BY <1>0, <1>1, <2>1, <2>2, <2>3 DEF RainTimes
<1> QED
  BY <1>0, <1>1, <1>2, <1>3 DEF RainTimes

\* Time passes only while a call is under way, and with room only if nothing is left.
LEMMA RainWaits ==
    ASSUME NEW f, NEW R, NEW now, NEW m, NEW w, NEW N, Pace(f, R, now, m, w, N), Moving(f) # {},
           \A c \in Moving(f) : LatestEnd(f[c]) \in Nat /\ now + 1 <= LatestEnd(f[c]),
           m < N => ~(Cardinality(Moving(f)) < w)
    PROVE  RainTimes(f, R, now + 1, m, w, N)
<1>1. Time(Begun(m, w)) \in Nat /\ Time(Gone(m, w)) \in Nat
  BY RoundsGo, RoundTimes DEF Pace
<1> QED
  BY <1>1 DEF RainTimes, Pace

-----------------------------------------------------------------------------
(* What a request may be doing.                                            *)
Readings(values) == {Unread} \cup {{v} : v \in values}

TaskState == [pc : {"idle", "waiting", "rain", "ground"}, key : Key \cup {None}, retrieved : Nat,
              call : [CallId -> CallState], rain : [Cell -> Readings(Rains)], river : Readings(Rivers),
              step : {"levels", "forecast"}]

\* The cells are asked for in the order of the list, and those asked for keep pace.
InRain(x, now) ==
    /\ \A c \in CallId : x.call[c].pc = "off" <=> c \notin CellsOf(x.key)
    /\ \E m \in 0 .. Len(Cells[x.key]) :
          /\ \A i \in DOMAIN Cells[x.key] : x.call[Cells[x.key][i]].pc = "queued" <=> i > m
          /\ RainTimes(x.call, x.retrieved, now, m, Width(Kind[x.key]), Len(Cells[x.key]))

\* When all rain is read at the latest.
Base(x) == x.retrieved + Time(Rounds(x.key))

\* After the rain: the heights of an area with pauses; of a point the river's two
\* calls and the height, at once and once each.
InGround(x, now) ==
    /\ Kind[x.key] \in {"area", "point"}
    /\ \A c \in Cell : x.call[c].pc \in {"off", "done", "failed"}
    /\ \A c \in {"river", "elevation"} : x.call[c].pc # "queued"
    /\ Kind[x.key] = "area" =>
          /\ x.call["river"].pc = "off" /\ now <= Base(x) + CallTime
          /\ x.call["elevation"].pc \in InFlightNow => LatestEnd(x.call["elevation"]) <= Base(x) + CallTime
    /\ Kind[x.key] = "point" =>
          /\ now <= Base(x) + 2 * Timeout
          /\ \A c \in {"river", "elevation"} : x.call[c].pc # "sleeping"
          /\ x.call["elevation"].pc = "asking" => x.call["elevation"].due <= Base(x) + Timeout
          /\ x.call["river"].pc = "asking" =>
                x.call["river"].due <= Base(x) + (IF x.step = "levels" THEN Timeout ELSE 2 * Timeout)

Reader(x, now) ==
    /\ x \in TaskState /\ (x.pc = "idle" <=> x.key = None)
    /\ \A c \in CallId : InSpan(x.call[c], now)
    /\ x.pc \notin {"rain", "ground"} => Moving(x.call) = {}
    /\ x.pc = "rain" => InRain(x, now)
    /\ x.pc = "ground" => InGround(x, now)

\* No call can be made or repeated now, and none has just been over.
Settled(x, now) ==
    /\ \A c \in Moving(x.call) : x.call[c].due > now
    /\ x.pc \in {"rain", "ground"} => \E c \in CallId : x.call[c].pc \notin {"off", "done", "failed"}
    /\ x.pc = "rain" /\ (\E i \in DOMAIN Cells[x.key] : x.call[Cells[x.key][i]].pc = "queued") =>
          ~(Cardinality(Moving(x.call)) < Width(Kind[x.key]))

AllOver(x) == \A c \in CallId : x.call[c].pc \in {"off", "done", "failed"}

-----------------------------------------------------------------------------
\* Lists are finite, not empty, and name each cell once.
LEMMA Lists ==
    ASSUME NEW k \in Key
    PROVE  /\ Len(Cells[k]) \in Nat \ {0} /\ DOMAIN Cells[k] = 1 .. Len(Cells[k])
           /\ CellsOf(k) \subseteq Cell /\ CellsOf(k) \subseteq CallId
           /\ IsFiniteSet(CellsOf(k)) /\ Cardinality(CellsOf(k)) = Len(Cells[k])
           /\ Width(Kind[k]) \in {1, 2} /\ Kind[k] \in {"grid", "area", "point"}
           /\ Rounds(k) \in Nat /\ Begun(Len(Cells[k]), Width(Kind[k])) = Rounds(k)
           /\ (Kind[k] # "grid" => Width(Kind[k]) = 1)
<1>1. Cells[k] \in Seq(Cell) /\ Cells[k] # <<>> /\ Kind[k] \in {"grid", "area", "point"}
  BY ScreenAssumption
<1>2. Len(Cells[k]) \in Nat \ {0} /\ DOMAIN Cells[k] = 1 .. Len(Cells[k]) /\ Cells[k] \in [1 .. Len(Cells[k]) -> Cell]
  BY <1>1
<1>3. CellsOf(k) \subseteq Cell
  BY <1>2 DEF CellsOf
<1>8. CellsOf(k) = {Cells[k][i] : i \in 1 .. Len(Cells[k])} /\ Cells[k] = [i \in 1 .. Len(Cells[k]) |-> Cells[k][i]]
  BY <1>2 DEF CellsOf
<1>4. /\ Cells[k] \in [1 .. Len(Cells[k]) -> CellsOf(k)]
      /\ \A i, j \in 1 .. Len(Cells[k]) : Cells[k][i] = Cells[k][j] => i = j
      /\ \A c \in CellsOf(k) : \E i \in 1 .. Len(Cells[k]) : Cells[k][i] = c
  <2>1. Cells[k] \in [1 .. Len(Cells[k]) -> CellsOf(k)] /\ \A c \in CellsOf(k) : \E i \in 1 .. Len(Cells[k]) : Cells[k][i] = c
    BY <1>8
  <2>2. \A i, j \in 1 .. Len(Cells[k]) : Cells[k][i] = Cells[k][j] => i = j
    BY <1>2, ScreenAssumption
  <2> QED
    BY <2>1, <2>2
<1>5. IsFiniteSet(CellsOf(k)) /\ Cardinality(CellsOf(k)) = Len(Cells[k])
  <2>1. IsFiniteSet(1 .. Len(Cells[k])) /\ Cardinality(1 .. Len(Cells[k])) = Len(Cells[k])
    BY <1>2, FS_Interval
  <2>2. Cells[k] \in Surjection(1 .. Len(Cells[k]), CellsOf(k))
    BY <1>4 DEF Surjection
  <2>3. IsFiniteSet(CellsOf(k)) /\ Cardinality(CellsOf(k)) <= Len(Cells[k])
    BY <2>1, <2>2, FS_Surjection
  <2>4. ~(Cardinality(CellsOf(k)) < Len(Cells[k]))
    BY <1>4, <2>1, <2>3, FS_PigeonHole
  <2> QED
    BY <1>2, <2>3, <2>4, FS_CardinalityType
<1>6. Width(Kind[k]) \in {1, 2} /\ (Kind[k] # "grid" => Width(Kind[k]) = 1) /\ (Kind[k] = "grid" => Width(Kind[k]) = 2)
  BY <1>1 DEF Width
<1>7. Rounds(k) \in Nat /\ Begun(Len(Cells[k]), Width(Kind[k])) = Rounds(k)
  <2>1. CASE Kind[k] = "grid"
    <3>1. Rounds(k) = (Len(Cells[k]) + 1) \div 2 /\ Width(Kind[k]) = 2
      BY <1>6, <2>1 DEF Rounds
    <3>2. Begun(Len(Cells[k]), 2) = (Len(Cells[k]) + 1) \div 2
      BY DEF Begun
    <3>3. Begun(Len(Cells[k]), 2) \in Nat
      BY <1>2, RoundsGo
    <3> QED
      BY <3>1, <3>2, <3>3
  <2>2. CASE Kind[k] # "grid"
    <3>1. Rounds(k) = Len(Cells[k]) /\ Width(Kind[k]) = 1
      BY <1>6, <2>2 DEF Rounds
    <3> QED
      BY <1>2, <3>1 DEF Begun
  <2> QED
    BY <2>1, <2>2
<1> QED
  BY <1>1, <1>2, <1>3, <1>5, <1>6, <1>7 DEF CallId

\* Calls under way are few, and each ends in time.
LEMMA MovingIsFinite ==
    ASSUME NEW now, NEW x, now \in Nat, Reader(x, now), x.pc = "rain"
    PROVE  /\ x.key \in Key /\ Moving(x.call) \subseteq CellsOf(x.key) /\ IsFiniteSet(Moving(x.call))
           /\ \A c \in Moving(x.call) : LatestEnd(x.call[c]) \in Nat /\ now <= LatestEnd(x.call[c])
                                        /\ x.call[c].due <= LatestEnd(x.call[c])
<1>1. x.key \in Key
  BY DEF Reader, TaskState
<1>2. Moving(x.call) \subseteq CellsOf(x.key)
  BY DEF Moving, InFlightNow, Reader, InRain
<1>3. \A c \in Moving(x.call) : x.call[c] \in CallState /\ InSpan(x.call[c], now) /\ x.call[c].pc \in InFlightNow
  BY DEF Moving, Reader, TaskState
<1> QED
  BY <1>1, <1>2, <1>3, Lists, EndType, FS_Subset

\* One call of a request changes, its attempts and its time within bounds.
CallMoves(x, y, c, a, now) ==
    /\ now \in Nat /\ Reader(x, now) /\ c \in CallId /\ a \in CallState /\ InSpan(a, now)
    /\ y \in TaskState /\ y.pc = x.pc /\ y.key = x.key /\ y.retrieved = x.retrieved /\ y.call = [x.call EXCEPT ![c] = a]

\* The first that is left starts; a call goes on; a call is over.
FirstStarts(x, c, a, now) ==
    /\ \E i \in DOMAIN Cells[x.key] :
          /\ c = Cells[x.key][i] /\ x.call[c].pc = "queued"
          /\ \A j \in DOMAIN Cells[x.key] : x.call[Cells[x.key][j]].pc = "queued" => i <= j
    /\ Cardinality(Moving(x.call)) < Width(Kind[x.key])
    /\ a.pc = "asking" /\ LatestEnd(a) = now + CallTime
CallGoesOn(x, c, a) == c \in Moving(x.call) /\ a.pc \in InFlightNow /\ LatestEnd(a) <= LatestEnd(x.call[c])
CallEnds(x, c, a) == c \in Moving(x.call) /\ a.pc \in {"done", "failed"}

\* A call for rain starts, goes on or ends.
LEMMA RainMoves ==
    ASSUME NEW x, NEW y, NEW c, NEW a, NEW now, CallMoves(x, y, c, a, now), x.pc = "rain",
           FirstStarts(x, c, a, now) \/ CallGoesOn(x, c, a) \/ CallEnds(x, c, a)
    PROVE  Reader(y, now)
<1> DEFINE k == x.key
           cs == Cells[k]
           w == Width(Kind[k])
           R == x.retrieved
<1>14. /\ now \in Nat /\ Reader(x, now) /\ c \in CallId /\ a \in CallState /\ InSpan(a, now)
       /\ y \in TaskState /\ y.pc = "rain" /\ y.key = x.key /\ y.retrieved = x.retrieved
       /\ y.call = [x.call EXCEPT ![c] = a]
  BY DEF CallMoves
<1>1. /\ k \in Key /\ Moving(x.call) \subseteq CellsOf(k) /\ IsFiniteSet(Moving(x.call)) /\ R \in Nat
      /\ \A d \in Moving(x.call) : LatestEnd(x.call[d]) \in Nat /\ now <= LatestEnd(x.call[d])
  BY <1>14, MovingIsFinite DEF Reader, TaskState
<1>2. /\ Len(cs) \in Nat \ {0} /\ DOMAIN cs = 1 .. Len(cs) /\ w \in {1, 2} /\ CellsOf(k) \subseteq CallId
      /\ \A i, j \in DOMAIN cs : cs[i] = cs[j] => i = j
      /\ CellsOf(k) = {cs[i] : i \in DOMAIN cs}
  BY <1>1, Lists, ScreenAssumption DEF CellsOf
<1>3. PICK m \in 0 .. Len(cs) :
          /\ \A i \in DOMAIN cs : x.call[cs[i]].pc = "queued" <=> i > m
          /\ RainTimes(x.call, R, now, m, w, Len(cs))
  BY <1>14 DEF Reader, InRain
<1>0. m \in Nat /\ Len(cs) \in Nat /\ R \in Nat /\ w \in {1, 2}
  BY <1>1, <1>2
<1>4. \A d \in CallId : x.call[d].pc = "off" <=> d \notin CellsOf(k)
  BY <1>14 DEF Reader, InRain
<1>5. /\ x.call \in [CallId -> CallState] /\ y.call \in [CallId -> CallState] /\ y.call[c] = a
      /\ \A d \in CallId \ {c} : y.call[d] = x.call[d]
  BY <1>14 DEF Reader, TaskState
<1>6. \A d \in CallId : InSpan(y.call[d], now)
  BY <1>5, <1>14 DEF Reader
<1>7. y.pc = "idle" <=> y.key = None
  BY <1>1, <1>14, ScreenAssumption
<1> HIDE DEF k, cs, w, R
<1>12. RainTimes(x.call, R, now, m, w, Len(cs))
  BY <1>3
<1>13. Pace(x.call, R, now, m, w, Len(cs))
  BY <1>0, <1>1, <1>12, <1>14 DEF Pace
<1>8. SUFFICES /\ \A d \in CallId : y.call[d].pc = "off" <=> d \notin CellsOf(k)
               /\ \E n \in 0 .. Len(cs) : /\ \A i \in DOMAIN cs : y.call[cs[i]].pc = "queued" <=> i > n
                                          /\ RainTimes(y.call, R, now, n, w, Len(cs))
  BY <1>6, <1>7, <1>14 DEF Reader, InRain, k, cs, w, R
<1>9. CASE /\ \E i \in DOMAIN cs : /\ c = cs[i] /\ x.call[c].pc = "queued"
                                   /\ \A j \in DOMAIN cs : x.call[cs[j]].pc = "queued" => i <= j
           /\ Cardinality(Moving(x.call)) < w /\ a.pc = "asking" /\ LatestEnd(a) = now + CallTime
  <2>1. PICK i \in DOMAIN cs : /\ c = cs[i] /\ x.call[c].pc = "queued"
                               /\ \A j \in DOMAIN cs : x.call[cs[j]].pc = "queued" => i <= j
    BY <1>9
  <2>2. i = m + 1 /\ m + 1 \in 0 .. Len(cs) /\ m < Len(cs)
    <3>1. i > m /\ i \in 1 .. Len(cs)
      BY <1>2, <1>3, <2>1
    <3>2. m + 1 \in DOMAIN cs
      BY <1>2, <3>1
    <3>3. i <= m + 1
      BY <1>3, <2>1, <3>2
    <3> QED
      BY <1>2, <3>1, <3>3
  <2>3. \A j \in DOMAIN cs : y.call[cs[j]].pc = "queued" <=> j > m + 1
    <3> SUFFICES ASSUME NEW j \in DOMAIN cs PROVE y.call[cs[j]].pc = "queued" <=> j > m + 1
      OBVIOUS
    <3>1. CASE j = i
      BY <1>2, <1>5, <1>9, <2>1, <2>2, <3>1
    <3>2. CASE j # i
      <4>1. cs[j] # c /\ cs[j] \in CallId
        BY <1>2, <2>1, <3>2
      <4> QED
        BY <1>2, <1>3, <1>5, <2>2, <3>2, <4>1
    <3> QED
      BY <3>1, <3>2
  <2>4. Moving(y.call) = Moving(x.call) \cup {c} /\ c \notin Moving(x.call)
    BY <1>5, <1>9, <2>1 DEF Moving, InFlightNow
  <2>5. \A d \in Moving(x.call) : y.call[d] = x.call[d]
    BY <1>5, <2>4 DEF Moving
  <2>8. LatestEnd(y.call[c]) = now + CallTime
    BY <1>5, <1>9
  <2>10. Starts(x.call, y.call, c, now, m, m + 1, w, Len(cs))
    BY <1>9, <2>2, <2>4, <2>5, <2>8 DEF Starts
  <2>6. RainTimes(y.call, R, now, m + 1, w, Len(cs))
    BY <1>13, <2>10, RainStarts
  <2>7. \A d \in CallId : y.call[d].pc = "off" <=> d \notin CellsOf(k)
    BY <1>2, <1>4, <1>5, <1>9, <2>1
  <2> QED
    BY <2>2, <2>3, <2>6, <2>7
<1>10. CASE c \in Moving(x.call) /\ a.pc \in InFlightNow \cup {"done", "failed"}
            /\ (a.pc \in InFlightNow => LatestEnd(a) <= LatestEnd(x.call[c]))
  <2>1. x.call[c].pc \in InFlightNow /\ a.pc \notin {"off", "queued"}
    BY <1>10 DEF Moving, InFlightNow
  <2>2. \A d \in CallId : (y.call[d].pc = "off" <=> d \notin CellsOf(k)) /\ (y.call[d].pc = "queued" <=> x.call[d].pc = "queued")
    BY <1>4, <1>5, <2>1 DEF InFlightNow
  <2>3. \A i \in DOMAIN cs : y.call[cs[i]].pc = "queued" <=> i > m
    BY <1>2, <1>3, <2>2
  <2>4. CASE a.pc \in InFlightNow
    <3>1. Moving(y.call) = Moving(x.call)
      BY <1>5, <1>10, <2>4 DEF Moving
    <3>2. LatestEnd(a) \in Nat
      BY <1>14, <2>4, EndType
    <3>3. \A d \in Moving(x.call) : LatestEnd(y.call[d]) \in Nat /\ LatestEnd(y.call[d]) <= LatestEnd(x.call[d])
      <4> SUFFICES ASSUME NEW d \in Moving(x.call)
                   PROVE LatestEnd(y.call[d]) \in Nat /\ LatestEnd(y.call[d]) <= LatestEnd(x.call[d])
        OBVIOUS
      <4>1. CASE d = c
        BY <1>5, <1>10, <2>4, <3>2, <4>1
      <4>2. CASE d # c
        <5>1. y.call[d] = x.call[d] /\ LatestEnd(x.call[d]) \in Nat
          BY <1>1, <1>5, <4>2 DEF Moving
        <5> QED
          BY <5>1
      <4> QED
        BY <4>1, <4>2
    <3>5. GoesOn(x.call, y.call)
      BY <3>1, <3>3 DEF GoesOn
    <3>4. RainTimes(y.call, R, now, m, w, Len(cs))
      BY <1>13, <3>5, RainGoes
    <3> QED
      BY <2>2, <2>3, <3>4
  <2>5. CASE a.pc \in {"done", "failed"}
    <3>0. c \in Moving(x.call)
      BY <1>10
    <3>1. Moving(y.call) = Moving(x.call) \ {c}
      BY <1>5, <2>5 DEF Moving, InFlightNow
    <3>2. \A d \in Moving(y.call) : y.call[d] = x.call[d]
      BY <1>5, <3>1 DEF Moving
    <3>4. Ends(x.call, y.call, c)
      BY <3>0, <3>1, <3>2 DEF Ends
    <3>3. RainTimes(y.call, R, now, m, w, Len(cs))
      BY <1>13, <3>4, RainEnds
    <3> QED
      BY <2>2, <2>3, <3>3
  <2> QED
    BY <1>10, <2>4, <2>5
<1>11. CallGoesOn(x, c, a) \/ CallEnds(x, c, a) =>
          c \in Moving(x.call) /\ a.pc \in InFlightNow \cup {"done", "failed"}
             /\ (a.pc \in InFlightNow => LatestEnd(a) <= LatestEnd(x.call[c]))
  BY DEF InFlightNow, CallGoesOn, CallEnds
<1> QED
  BY <1>9, <1>10, <1>11 DEF FirstStarts, k, cs, w

-----------------------------------------------------------------------------
\* When no call is left or under way, the rain has been read in time.
LEMMA RainIsRead ==
    ASSUME NEW x, NEW now, now \in Nat, Reader(x, now), x.pc = "rain", AllOver(x)
    PROVE  now <= Base(x) /\ Base(x) \in Nat
<1> DEFINE k == x.key
           w == Width(Kind[k])
<1>1. k \in Key /\ x.retrieved \in Nat /\ Moving(x.call) = {}
  BY DEF Reader, TaskState, AllOver, Moving, InFlightNow, InRain
<1>2. /\ Len(Cells[k]) \in Nat \ {0} /\ DOMAIN Cells[k] = 1 .. Len(Cells[k]) /\ w \in {1, 2}
      /\ CellsOf(k) \subseteq CallId /\ CellsOf(k) = {Cells[k][i] : i \in DOMAIN Cells[k]}
      /\ Rounds(k) \in Nat /\ Begun(Len(Cells[k]), w) = Rounds(k)
  BY <1>1, Lists DEF CellsOf
<1>3. PICK m \in 0 .. Len(Cells[k]) :
          /\ \A i \in DOMAIN Cells[k] : x.call[Cells[k][i]].pc = "queued" <=> i > m
          /\ RainTimes(x.call, x.retrieved, now, m, w, Len(Cells[k]))
  BY DEF Reader, InRain
<1>4. m = Len(Cells[k])
  <2>1. Cells[k][Len(Cells[k])] \in CallId /\ Len(Cells[k]) \in DOMAIN Cells[k]
    BY <1>2
  <2> QED
    BY <1>2, <1>3, <2>1 DEF AllOver
<1>5. Time(Rounds(k)) \in Nat
  BY <1>2, RoundTimes
<1>6. now <= x.retrieved + Time(Rounds(k))
  BY <1>2, <1>3, <1>4 DEF RainTimes
<1> QED
  BY <1>1, <1>5, <1>6 DEF Base

\* No pause has an end that is missed, and no reading stands still without a call.
LEMMA TimePasses ==
    ASSUME NEW x, NEW now, now \in Nat, Reader(x, now), Settled(x, now)
    PROVE  Reader(x, now + 1)
<1>1. \A c \in CallId : InSpan(x.call[c], now + 1)
  BY DEF Reader, Settled, InSpan, Moving, TaskState, CallState
<1>2. ASSUME x.pc = "rain" PROVE InRain(x, now + 1)
  <2> DEFINE k == x.key
             w == Width(Kind[k])
  <2>1. /\ k \in Key /\ IsFiniteSet(Moving(x.call)) /\ x.retrieved \in Nat
        /\ \A c \in Moving(x.call) : LatestEnd(x.call[c]) \in Nat /\ x.call[c].due <= LatestEnd(x.call[c])
    BY <1>2, MovingIsFinite DEF Reader, TaskState
  <2>2. /\ Len(Cells[k]) \in Nat \ {0} /\ DOMAIN Cells[k] = 1 .. Len(Cells[k]) /\ w \in {1, 2}
        /\ CellsOf(k) = {Cells[k][i] : i \in DOMAIN Cells[k]}
    BY <2>1, Lists DEF CellsOf
  <2>3. PICK m \in 0 .. Len(Cells[k]) :
            /\ \A i \in DOMAIN Cells[k] : x.call[Cells[k][i]].pc = "queued" <=> i > m
            /\ RainTimes(x.call, x.retrieved, now, m, w, Len(Cells[k]))
    BY <1>2 DEF Reader, InRain
  <2>4. m < Len(Cells[k]) => ~(Cardinality(Moving(x.call)) < w)
    BY <1>2, <2>2, <2>3 DEF Settled
  <2>5. Moving(x.call) # {}
    <3>1. PICK c \in CallId : x.call[c].pc \notin {"off", "done", "failed"}
      BY <1>2 DEF Settled
    <3>2. x.call[c].pc \in {"queued", "asking", "sleeping"}
      BY <3>1 DEF Reader, TaskState, CallState
    <3>3. CASE x.call[c].pc = "queued"
      <4>1. c \in CellsOf(k)
        BY <1>2, <3>1 DEF Reader, InRain
      <4>2. PICK i \in DOMAIN Cells[k] : c = Cells[k][i]
        BY <2>2, <4>1
      <4>3. ~(Cardinality(Moving(x.call)) < w)
        BY <1>2, <3>3, <4>2 DEF Settled
      <4>4. Cardinality({}) = 0 /\ 0 < w
        BY <2>2, FS_EmptySet
      <4> QED
        BY <4>3, <4>4
    <3>4. CASE x.call[c].pc \in InFlightNow
      BY <3>4 DEF Moving
    <3> QED
      BY <3>2, <3>3, <3>4 DEF InFlightNow
  <2>6. \A c \in Moving(x.call) : LatestEnd(x.call[c]) \in Nat /\ now + 1 <= LatestEnd(x.call[c])
    <3> SUFFICES ASSUME NEW c \in Moving(x.call) PROVE now + 1 <= LatestEnd(x.call[c])
      BY <2>1
    <3>1. x.call[c].due > now /\ x.call[c].due \in Nat
      BY DEF Settled, Moving, Reader, TaskState, CallState
    <3> QED
      BY <2>1, <3>1
  <2>7. Pace(x.call, x.retrieved, now, m, w, Len(Cells[k]))
    BY <2>1, <2>2, <2>3, <2>6 DEF Pace
  <2>8. RainTimes(x.call, x.retrieved, now + 1, m, w, Len(Cells[k]))
    BY <2>4, <2>5, <2>6, <2>7, RainWaits
  <2> QED
    BY <1>2, <2>3, <2>8 DEF Reader, InRain
<1>3. ASSUME x.pc = "ground" PROVE InGround(x, now + 1)
  <2>1. PICK c \in {"river", "elevation"} : x.call[c].pc \in InFlightNow
    <3>1. PICK c \in CallId : x.call[c].pc \notin {"off", "done", "failed"}
      BY <1>3 DEF Settled
    <3>2. c \in {"river", "elevation"} /\ x.call[c].pc # "queued" /\ x.call[c] \in CallState
      BY <1>3, <3>1 DEF Reader, InGround, CallId, TaskState
    <3> QED
      BY <3>1, <3>2 DEF InFlightNow, CallState
  <2>2. /\ x.call[c].due \in Nat /\ now + 1 <= x.call[c].due /\ LatestEnd(x.call[c]) \in Nat
        /\ x.call[c].due <= LatestEnd(x.call[c]) /\ Base(x) \in Nat /\ Timeout \in Nat /\ CallTime \in Nat
    <3>1. x.call[c] \in CallState /\ InSpan(x.call[c], now) /\ c \in Moving(x.call)
      BY <2>1 DEF Reader, TaskState, Moving, CallId
    <3>2. x.call[c].due \in Nat /\ x.call[c].due > now
      BY <3>1 DEF Settled, CallState
    <3>3. x.retrieved \in Nat /\ x.key \in Key
      BY <1>3 DEF Reader, TaskState
    <3>6. Rounds(x.key) \in Nat
      BY <3>3, Lists
    <3>7. Time(Rounds(x.key)) \in Nat
      BY <3>6, RoundTimes
    <3>4. Base(x) \in Nat
      BY <3>3, <3>7 DEF Base
    <3>5. LatestEnd(x.call[c]) \in Nat /\ x.call[c].due <= LatestEnd(x.call[c])
      BY <2>1, <3>1, EndType
    <3> QED
      BY <3>2, <3>4, <3>5, AttemptTimes
  <2>3. InGround(x, now)
    BY <1>3 DEF Reader
  <2>4. CASE Kind[x.key] = "area"
    <3>1. c = "elevation" /\ LatestEnd(x.call[c]) <= Base(x) + CallTime
      BY <2>1, <2>3, <2>4 DEF InGround, InFlightNow
    <3> QED
      BY <2>2, <2>3, <2>4, <3>1 DEF InGround
  <2>5. CASE Kind[x.key] = "point"
    <3>1. x.call[c].pc = "asking" /\ x.call[c].due <= Base(x) + 2 * Timeout
      BY <2>1, <2>2, <2>3, <2>5 DEF InGround, InFlightNow
    <3> QED
      BY <2>2, <2>3, <2>5, <3>1 DEF InGround
  <2> QED
    BY <2>3, <2>4, <2>5 DEF InGround
<1> QED
  BY <1>1, <1>2, <1>3 DEF Reader

\* When it has failed in passing, a call is over no later for its pause; nor is it
\* for being repeated then.
LEMMA PauseAndAgain ==
    ASSUME NEW x, NEW c, NEW a, NEW now, now \in Nat, Reader(x, now), c \in CallId, a \in CallState,
           \/ /\ x.call[c].pc = "asking" /\ x.call[c].n < Attempts
              /\ a.pc = "sleeping" /\ a.n = x.call[c].n /\ \E wait \in Waits : a.due = now + wait
           \/ /\ x.call[c].pc = "sleeping" /\ x.call[c].due = now
              /\ a.pc = "asking" /\ a.n = x.call[c].n + 1 /\ a.due = now + Timeout
    PROVE  CallGoesOn(x, c, a) /\ InSpan(a, now)
<1>1. /\ x.call[c] \in CallState /\ InSpan(x.call[c], now) /\ x.call[c].pc \in InFlightNow
      /\ x.call[c].n \in 1 .. Attempts /\ x.call[c].n < Attempts /\ x.call[c].due \in Nat /\ now <= x.call[c].due
  BY DEF Reader, TaskState, InSpan, InFlightNow, CallState
<1>2. /\ Spare(x.call[c].n + 1) \in Nat /\ Spare(x.call[c].n) = Spare(x.call[c].n + 1) + Timeout + Longest
      /\ Timeout \in Nat /\ Longest \in Nat /\ \A wait \in Waits : wait \in Nat /\ wait <= Longest
      /\ Attempts \in Nat
  BY <1>1, AttemptTimes
<1>3. c \in Moving(x.call) /\ a.pc \in InFlightNow
  BY <1>1 DEF Moving, InFlightNow
<1>4. CASE a.pc = "sleeping"
  <2>1. LatestEnd(a) <= LatestEnd(x.call[c]) /\ now <= a.due
    BY <1>1, <1>2, <1>4 DEF LatestEnd
  <2> QED
    BY <1>1, <1>3, <1>4, <2>1 DEF CallGoesOn, InSpan
<1>5. CASE a.pc = "asking"
  <2>1. LatestEnd(a) <= LatestEnd(x.call[c]) /\ now <= a.due
    BY <1>1, <1>2, <1>5 DEF LatestEnd
  <2> QED
    BY <1>1, <1>2, <1>3, <1>5, <2>1 DEF CallGoesOn, InSpan
<1> QED
  BY <1>4, <1>5

\* After the rain a call is over, goes on where calls are repeated, or is the
\* river's second.
LEMMA GroundMoves ==
    ASSUME NEW x, NEW y, NEW c, NEW a, NEW now, CallMoves(x, y, c, a, now), x.pc = "ground",
           \/ CallEnds(x, c, a) /\ y.step = x.step
           \/ CallGoesOn(x, c, a) /\ c = "elevation" /\ Kind[x.key] = "area" /\ y.step = x.step
           \/ /\ c = "river" /\ x.call[c].pc = "asking" /\ x.step = "levels" /\ y.step = "forecast"
              /\ a.pc = "asking" /\ a.due = now + Timeout
    PROVE  Reader(y, now)
<1>1. /\ now \in Nat /\ Reader(x, now) /\ c \in CallId /\ a \in CallState /\ InSpan(a, now)
      /\ y \in TaskState /\ y.pc = "ground" /\ y.key = x.key /\ y.retrieved = x.retrieved
      /\ y.call = [x.call EXCEPT ![c] = a] /\ Base(y) = Base(x)
  BY DEF CallMoves, Base
<1>2. /\ x.call \in [CallId -> CallState] /\ x.key \in Key /\ x.key # None /\ x.retrieved \in Nat /\ InGround(x, now)
      /\ \A d \in CallId : InSpan(x.call[d], now)
  BY <1>1, ScreenAssumption DEF Reader, TaskState
<1>3. y.call[c] = a /\ \A d \in CallId \ {c} : y.call[d] = x.call[d]
  BY <1>1, <1>2
<1>4. \A d \in CallId : InSpan(y.call[d], now)
  BY <1>1, <1>2, <1>3
<1>5. c \in {"river", "elevation"} /\ x.call[c].pc \in InFlightNow
  <2>1. x.call[c].pc \in InFlightNow
    BY DEF CallEnds, CallGoesOn, Moving, InFlightNow
  <2> QED
    BY <1>1, <1>2, <2>1 DEF InGround, InFlightNow, CallId
<1>6. {"river", "elevation"} \cap Cell = {} /\ Cell \subseteq CallId /\ {"river", "elevation"} \subseteq CallId
  BY ScreenAssumption DEF CallId
<1>7. \A d \in Cell : y.call[d].pc \in {"off", "done", "failed"}
  BY <1>2, <1>3, <1>5, <1>6 DEF InGround
<1>8. /\ Base(x) \in Nat /\ Timeout \in Nat /\ CallTime \in Nat
  <2>1. Rounds(x.key) \in Nat
    BY <1>2, Lists
  <2>2. Time(Rounds(x.key)) \in Nat
    BY <2>1, RoundTimes
  <2> QED
    BY <1>2, <2>2, AttemptTimes DEF Base
<1>9. CASE CallEnds(x, c, a) /\ y.step = x.step
  <2>1. a.pc \in {"done", "failed"}
    BY <1>9 DEF CallEnds
  <2>2. InGround(y, now)
    BY <1>1, <1>2, <1>3, <1>5, <1>6, <1>7, <2>1, <1>9 DEF InGround, InFlightNow
  <2> QED
    BY <1>1, <1>2, <1>4, <2>2 DEF Reader
<1>10. CASE CallGoesOn(x, c, a) /\ c = "elevation" /\ Kind[x.key] = "area" /\ y.step = x.step
  <2>1. a.pc \in InFlightNow /\ LatestEnd(a) <= LatestEnd(x.call[c])
    BY <1>10 DEF CallGoesOn
  <2>2. LatestEnd(a) \in Nat /\ LatestEnd(x.call[c]) \in Nat
    BY <1>1, <1>2, <1>5, <2>1, EndType
  <2>3. LatestEnd(x.call[c]) <= Base(x) + CallTime
    BY <1>2, <1>5, <1>10 DEF InGround
  <2>4. LatestEnd(a) <= Base(x) + CallTime
    BY <1>8, <2>1, <2>2, <2>3
  <2>5. y.call["elevation"] = a /\ y.call["river"] = x.call["river"]
    BY <1>3, <1>6, <1>10
  <2>6. InGround(y, now)
    BY <1>1, <1>2, <1>7, <1>10, <2>1, <2>4, <2>5 DEF InGround, InFlightNow
  <2> QED
    BY <1>1, <1>2, <1>4, <2>6 DEF Reader
<1>11. CASE /\ c = "river" /\ x.call[c].pc = "asking" /\ x.step = "levels" /\ y.step = "forecast"
            /\ a.pc = "asking" /\ a.due = now + Timeout
  <2>1. y.call["river"] = a /\ y.call["elevation"] = x.call["elevation"]
    BY <1>3, <1>6, <1>11
  <2>2. Kind[x.key] = "point"
    BY <1>2, <1>11 DEF InGround
  <2>3. now <= Base(x) + Timeout
    BY <1>1, <1>2, <1>6, <1>8, <1>11, <2>2 DEF InGround, InSpan, InFlightNow, CallState
  <2>4. a.due <= Base(x) + 2 * Timeout
    BY <1>1, <1>8, <1>11, <2>3
  <2>5. InGround(y, now)
    BY <1>1, <1>2, <1>7, <1>11, <2>1, <2>2, <2>4 DEF InGround
  <2> QED
    BY <1>1, <1>2, <1>4, <2>5 DEF Reader
<1> QED
  BY <1>9, <1>10, <1>11

\* A reading is over in the time it may take.
LEMMA ReadingIsOver ==
    ASSUME NEW x, NEW now, now \in Nat, Reader(x, now), x.pc \in {"rain", "ground"}, AllOver(x),
           Kind[x.key] = "grid" <=> x.pc = "rain"
    PROVE  now <= x.retrieved + ReadingTime(x.key) /\ ReadingTime(x.key) \in Nat
<1>1. x.key \in Key /\ x.retrieved \in Nat
  BY DEF Reader, TaskState
<1>2. Rounds(x.key) \in Nat /\ Kind[x.key] \in {"grid", "area", "point"}
  BY <1>1, Lists
<1>3. Time(Rounds(x.key)) \in Nat /\ Timeout \in Nat /\ CallTime \in Nat
  BY <1>2, RoundTimes, AttemptTimes
<1>4. CASE x.pc = "rain"
  <2>1. now <= Base(x)
    BY <1>4, RainIsRead
  <2> QED
    BY <1>1, <1>3, <1>4, <2>1 DEF Base, ReadingTime, Time
<1>5. CASE x.pc = "ground"
  <2>1. InGround(x, now)
    BY <1>5 DEF Reader
  <2>2. CASE Kind[x.key] = "area"
    BY <1>1, <1>3, <2>1, <2>2 DEF InGround, Base, ReadingTime, Time
  <2>3. CASE Kind[x.key] = "point"
    BY <1>1, <1>3, <2>1, <2>3 DEF InGround, Base, ReadingTime, Time
  <2> QED
    BY <2>1, <2>2, <2>3 DEF InGround
<1> QED
  BY <1>4, <1>5

-----------------------------------------------------------------------------
(* The invariant.                                                          *)

\* What a reading may find of a cell.
Finding == [rain : Readings(Rains), river : Readings(Rivers), elevation : Readings(Int),
            history : HistoryRead, reports : ReportsRead]

\* How long a body serves after its reading, by the rain that it is without.
Served(b, k) ==
    LET missing == {c \in CellsOf(k) : b.known[c].rain = Unread} IN
    IF missing = {} THEN FullTtl[Kind[k]] ELSE IF missing # CellsOf(k) THEN PartTtl ELSE FailTtl

\* A body that is kept holds a finding of each cell, and serves no longer than it may.
Kept(b, k) ==
    /\ b.retrieved \in Nat /\ b.expires \in Nat
    /\ \A c \in CellsOf(k) : b.known[c] \in Finding
    /\ b.expires <= b.retrieved + ReadingTime(k) + Served(b, k)

ScreenType ==
    /\ clock \in Nat /\ task \in [Request -> TaskState] /\ queue \in [Key -> Seq(Request)]
    /\ DOMAIN body = Key /\ height \subseteq Cell

\* In line for a key are the requests for it, each once; one that reads is first.
InLine ==
    /\ \A k \in Key : \A i, j \in DOMAIN queue[k] : queue[k][i] = queue[k][j] => i = j
    /\ \A k \in Key, r \in Request : task[r].key = k <=> \E i \in DOMAIN queue[k] : queue[k][i] = r
    /\ \A r \in Request : task[r].pc \in {"rain", "ground"} =>
          queue[task[r].key] # <<>> /\ Head(queue[task[r].key]) = r

\* What is cached had expired when a reading began.
Needed == \A r \in Request : task[r].pc \in {"rain", "ground"} /\ body[task[r].key] # None =>
              body[task[r].key].expires <= task[r].retrieved

IInv ==
    /\ ScreenType /\ InLine /\ Needed
    /\ \A r \in Request : Reader(task[r], clock)
    /\ \A k \in Key : body[k] # None => Kept(body[k], k)

\* A request with one of its calls changed, and what was read by it.
Changed(x, c, a, rain, river, step) ==
    [x EXCEPT !.call = [x.call EXCEPT ![c] = a], !.rain = rain, !.river = river, !.step = step]

\* How it may change.
MayChange(x, c, a, step, now) ==
    \/ x.pc = "rain" /\ (FirstStarts(x, c, a, now) \/ CallGoesOn(x, c, a) \/ CallEnds(x, c, a))
    \/ x.pc = "ground" /\ \/ CallEnds(x, c, a) /\ step = x.step
                          \/ CallGoesOn(x, c, a) /\ c = "elevation" /\ Kind[x.key] = "area" /\ step = x.step
                          \/ /\ c = "river" /\ x.call[c].pc = "asking" /\ x.step = "levels" /\ step = "forecast"
                             /\ a.pc = "asking" /\ a.due = now + Timeout

Fits(x, c, a, rain, river, step, now) ==
    /\ c \in CallId /\ a \in CallState /\ rain \in [Cell -> Readings(Rains)] /\ river \in Readings(Rivers)
    /\ step \in {"levels", "forecast"} /\ InSpan(a, now) /\ MayChange(x, c, a, step, now)

\* A call changes: the reading goes on.
LEMMA ReadingGoes ==
    ASSUME IInv, NEW r, NEW c, NEW a, NEW rain, NEW river, NEW step,
           r \in Request, Fits(task[r], c, a, rain, river, step, clock),
           task' = [task EXCEPT ![r] = Changed(task[r], c, a, rain, river, step)],
           UNCHANGED <<clock, body, queue>>, height' \subseteq Cell
    PROVE  IInv'
<1>0. /\ c \in CallId /\ a \in CallState /\ rain \in [Cell -> Readings(Rains)] /\ river \in Readings(Rivers)
      /\ step \in {"levels", "forecast"} /\ InSpan(a, clock) /\ MayChange(task[r], c, a, step, clock)
  BY DEF Fits
<1>1. task[r] \in TaskState /\ task[r].pc \in {"rain", "ground"} /\ task[r].call \in [CallId -> CallState]
      /\ Reader(task[r], clock) /\ clock \in Nat
  BY <1>0 DEF IInv, ScreenType, TaskState, MayChange
<1>2. PICK f \in [CallId -> CallState] : f = [task[r].call EXCEPT ![c] = a]
  BY <1>0, <1>1
<1>3. PICK y : y = Changed(task[r], c, a, rain, river, step)
  OBVIOUS
<1>4. /\ y \in TaskState /\ y.pc = task[r].pc /\ y.key = task[r].key /\ y.retrieved = task[r].retrieved
      /\ y.call = f /\ y.step = step
  <2>1. y = [task[r] EXCEPT !.call = f, !.rain = rain, !.river = river, !.step = step]
    BY <1>2, <1>3 DEF Changed
  <2> QED
    BY <1>0, <1>1, <1>2, <2>1 DEF TaskState
<1>5. CallMoves(task[r], y, c, a, clock)
  BY <1>0, <1>1, <1>2, <1>4 DEF CallMoves
<1>6. Reader(y, clock)
  <2>1. CASE task[r].pc = "rain"
    BY <1>0, <1>5, <2>1, RainMoves DEF MayChange
  <2>2. CASE task[r].pc = "ground"
    BY <1>0, <1>4, <1>5, <2>2, GroundMoves DEF MayChange
  <2> QED
    BY <1>1, <2>1, <2>2
<1>7. task' \in [Request -> TaskState] /\ task'[r] = y /\ \A q \in Request \ {r} : task'[q] = task[q]
  BY <1>3, <1>4 DEF IInv, ScreenType
<1>8. \A q \in Request : task'[q].pc = task[q].pc /\ task'[q].key = task[q].key /\ task'[q].retrieved = task[q].retrieved
  BY <1>4, <1>7
<1>9. \A q \in Request : Reader(task'[q], clock')
  BY <1>6, <1>7 DEF IInv
<1>10. ScreenType' /\ (\A k \in Key : body'[k] # None => Kept(body'[k], k))
  BY <1>7 DEF IInv, ScreenType
<1>11. InLine' /\ Needed'
  <2>1. \A q \in Request : task[q].pc \in {"rain", "ground"} => task[q].key \in Key
    BY DEF IInv, Reader, TaskState
  <2> QED
    BY <1>8, <2>1 DEF IInv, InLine, Needed
<1> QED
  BY <1>9, <1>10, <1>11 DEF IInv

\* A request that does nothing, or only waits, has nothing under way.
LEMMA AtRest ==
    /\ Idle \in TaskState /\ Idle.pc = "idle" /\ Idle.key = None /\ Idle.call = [c \in CallId |-> Off]
    /\ Off \in CallState /\ Off.pc = "off"
    /\ \A now : Reader(Idle, now)
<1>1. Off \in CallState /\ Off.pc = "off" /\ Off.pc \notin InFlightNow
  BY AttemptTimes DEF Off, CallState, InFlightNow
<1>2. PICK f : f = [c \in CallId |-> Off]
  OBVIOUS
<1>3. PICK g : g = [c \in Cell |-> Unread]
  OBVIOUS
<1>4. f \in [CallId -> CallState] /\ g \in [Cell -> Readings(Rains)] /\ Unread \in Readings(Rivers)
  BY <1>1, <1>2, <1>3 DEF Readings
<1>5. Idle = [pc |-> "idle", key |-> None, retrieved |-> 0, call |-> f, rain |-> g, river |-> Unread, step |-> "levels"]
  BY <1>2, <1>3 DEF Idle
<1>6. Idle \in TaskState
  BY <1>4, <1>5 DEF TaskState
<1>7. Idle.pc = "idle" /\ Idle.key = None /\ Idle.call = f
  BY <1>5
<1>8. \A c \in CallId : f[c] = Off
  BY <1>2
<1>9. Moving(f) = {} /\ \A now : \A c \in CallId : InSpan(f[c], now)
  BY <1>1, <1>8 DEF Moving, InSpan
<1> QED
  BY <1>1, <1>2, <1>6, <1>7, <1>9 DEF Reader

\* The first in line goes, with its answer or without one.
LEMMA FirstLeaves ==
    ASSUME IInv, NEW r \in Request, NEW k \in Key, task[r].key = k, queue[k] # <<>>, Head(queue[k]) = r, Leave(r),
           clock' = clock, height' \subseteq Cell, DOMAIN body' = Key,
           \A j \in Key \ {k} : body'[j] = body[j], body'[k] # None => Kept(body'[k], k)
    PROVE  IInv'
<1>1. /\ task' \in [Request -> TaskState] /\ task'[r] = Idle /\ \A q \in Request \ {r} : task'[q] = task[q]
      /\ task'[r].pc = "idle" /\ task'[r].key = None /\ Reader(task'[r], clock')
  BY AtRest DEF IInv, ScreenType, Leave
<1>2. /\ queue[k] \in Seq(Request) /\ queue'[k] = Tail(queue[k]) /\ \A j \in Key \ {k} : queue'[j] = queue[j]
      /\ queue' \in [Key -> Seq(Request)]
  BY DEF IInv, ScreenType, Leave
<1>3. /\ Len(queue[k]) \in Nat \ {0} /\ DOMAIN queue[k] = 1 .. Len(queue[k]) /\ queue[k][1] = r
      /\ DOMAIN queue'[k] = 1 .. Len(queue[k]) - 1
      /\ \A i \in 1 .. Len(queue[k]) - 1 : queue'[k][i] = queue[k][i + 1]
  BY <1>2
<1>4. ScreenType'
  BY <1>1, <1>2 DEF IInv, ScreenType
<1>5. \A q \in Request : Reader(task'[q], clock')
  BY <1>1 DEF IInv
<1>6. \A j \in Key : body'[j] # None => Kept(body'[j], j)
  BY DEF IInv
<1>7. \A q \in Request \ {r} : task[q].pc \in {"rain", "ground"} => task[q].key \in Key \ {k}
  BY DEF IInv, InLine, Reader, TaskState
<1>8. \A q \in Request : task'[q].pc \in {"rain", "ground"} => q # r /\ task'[q] = task[q] /\ task[q].key \in Key \ {k}
  BY <1>1, <1>7
<1>9. Needed'
  BY <1>8 DEF IInv, Needed
<1>10. \A j \in Key : \A i, h \in DOMAIN queue'[j] : queue'[j][i] = queue'[j][h] => i = h
  <2>1. ASSUME NEW i \in 1 .. Len(queue[k]) - 1, NEW h \in 1 .. Len(queue[k]) - 1, queue'[k][i] = queue'[k][h] PROVE i = h
    <3>1. i + 1 \in DOMAIN queue[k] /\ h + 1 \in DOMAIN queue[k] /\ queue[k][i + 1] = queue[k][h + 1]
      <4>1. i + 1 \in 1 .. Len(queue[k]) /\ h + 1 \in 1 .. Len(queue[k])
        BY <1>3
      <4>2. queue'[k][i] = queue[k][i + 1] /\ queue'[k][h] = queue[k][h + 1]
        BY <1>3
      <4> QED
        BY <1>3, <2>1, <4>1, <4>2
    <3>2. \A n, o \in DOMAIN queue[k] : queue[k][n] = queue[k][o] => n = o
      BY DEF IInv, InLine
    <3>3. i + 1 = h + 1
      BY <3>1, <3>2
    <3> QED
      BY <3>3
  <2>2. \A j \in Key \ {k} : \A i, h \in DOMAIN queue'[j] : queue'[j][i] = queue'[j][h] => i = h
    BY <1>2 DEF IInv, InLine
  <2> QED
    BY <1>3, <2>1, <2>2
<1>11. \A j \in Key, q \in Request : task'[q].key = j <=> \E i \in DOMAIN queue'[j] : queue'[j][i] = q
  <2> SUFFICES ASSUME NEW j \in Key, NEW q \in Request
               PROVE  task'[q].key = j <=> \E i \in DOMAIN queue'[j] : queue'[j][i] = q
    OBVIOUS
  <2>0. task[q].key = j <=> \E i \in DOMAIN queue[j] : queue[j][i] = q
    BY DEF IInv, InLine
  <2>1. CASE j # k
    <3>1. queue'[j] = queue[j] /\ None # j
      BY <1>2, <2>1, ScreenAssumption
    <3>2. task'[q].key = j <=> task[q].key = j
      BY <1>1, <2>1, <3>1
    <3> QED
      BY <2>0, <3>1, <3>2
  <2>2. CASE j = k /\ q = r
    <3>1. ASSUME NEW i \in DOMAIN queue'[k], queue'[k][i] = r PROVE FALSE
      <4>1. i + 1 \in DOMAIN queue[k] /\ 1 \in DOMAIN queue[k] /\ queue[k][i + 1] = queue[k][1] /\ i + 1 # 1
        BY <1>3, <3>1
      <4> QED
        BY <4>1 DEF IInv, InLine
    <3> QED
      BY <1>1, <2>2, <3>1, ScreenAssumption
  <2>3. CASE j = k /\ q # r
    <3>1. ASSUME NEW i \in DOMAIN queue[k], queue[k][i] = q PROVE \E h \in DOMAIN queue'[k] : queue'[k][h] = q
      <4>1. i # 1 /\ i \in 1 .. Len(queue[k])
        BY <1>3, <2>3, <3>1
      <4>2. i - 1 \in DOMAIN queue'[k] /\ queue'[k][i - 1] = queue[k][(i - 1) + 1] /\ (i - 1) + 1 = i
        BY <1>3, <4>1
      <4> QED
        BY <3>1, <4>2
    <3>2. ASSUME NEW i \in DOMAIN queue'[k], queue'[k][i] = q PROVE \E h \in DOMAIN queue[k] : queue[k][h] = q
      <4>1. i + 1 \in DOMAIN queue[k] /\ queue[k][i + 1] = q
        BY <1>3, <3>2
      <4> QED
        BY <4>1
    <3> QED
      BY <1>1, <2>0, <2>3, <3>1, <3>2
  <2> QED
    BY <2>1, <2>2, <2>3
<1>12. \A q \in Request : task'[q].pc \in {"rain", "ground"} =>
           queue'[task'[q].key] # <<>> /\ Head(queue'[task'[q].key]) = q
  <2> SUFFICES ASSUME NEW q \in Request, task'[q].pc \in {"rain", "ground"}
               PROVE  queue'[task'[q].key] # <<>> /\ Head(queue'[task'[q].key]) = q
    OBVIOUS
  <2>1. task'[q] = task[q] /\ task[q].key \in Key \ {k}
    BY <1>8
  <2>2. queue'[task[q].key] = queue[task[q].key]
    BY <1>2, <2>1
  <2> QED
    BY <2>1, <2>2 DEF IInv, InLine
<1> QED
  BY <1>4, <1>5, <1>6, <1>9, <1>10, <1>11, <1>12 DEF IInv, InLine

-----------------------------------------------------------------------------
(* The steps.                                                              *)

\* A request joins the line.
LEMMA AskStep ==
    ASSUME IInv, NEW r \in Request, NEW k \in Key, Ask(r, k)
    PROVE  IInv'
<1>1. task[r] \in TaskState /\ task[r].pc = "idle" /\ task[r].key = None /\ Reader(task[r], clock)
  BY DEF IInv, ScreenType, Ask, Reader
<1>2. PICK y : y = [task[r] EXCEPT !.pc = "waiting", !.key = k]
  OBVIOUS
<1>3. y \in TaskState /\ y.pc = "waiting" /\ y.key = k /\ y.call = task[r].call
  BY <1>1, <1>2 DEF TaskState
<1>4. /\ task' \in [Request -> TaskState] /\ task'[r] = y /\ \A q \in Request \ {r} : task'[q] = task[q]
      /\ clock' = clock /\ body' = body /\ height' = height
  <2>1. task' = [task EXCEPT ![r] = y]
    BY <1>1, <1>2 DEF Ask, IInv, ScreenType
  <2> QED
    BY <1>3, <2>1 DEF IInv, ScreenType, Ask
<1>5. Reader(y, clock)
  BY <1>1, <1>3, ScreenAssumption DEF Reader
<1>6. /\ queue[k] \in Seq(Request) /\ queue'[k] = Append(queue[k], r) /\ \A j \in Key \ {k} : queue'[j] = queue[j]
      /\ queue' \in [Key -> Seq(Request)]
  BY DEF IInv, ScreenType, Ask
<1>7. /\ Len(queue[k]) \in Nat /\ DOMAIN queue[k] = 1 .. Len(queue[k]) /\ DOMAIN queue'[k] = 1 .. Len(queue[k]) + 1
      /\ \A i \in 1 .. Len(queue[k]) : queue'[k][i] = queue[k][i]
      /\ queue'[k][Len(queue[k]) + 1] = r /\ Len(queue[k]) + 1 \in DOMAIN queue'[k]
  BY <1>6
<1>8. \A j \in Key : \A i \in DOMAIN queue[j] : queue[j][i] # r
  <2> SUFFICES ASSUME NEW j \in Key PROVE ~\E i \in DOMAIN queue[j] : queue[j][i] = r
    OBVIOUS
  <2>1. task[r].key # j
    BY <1>1, ScreenAssumption
  <2> QED
    BY <2>1 DEF IInv, InLine
<1>9. \A j \in Key : \A i, h \in DOMAIN queue'[j] : queue'[j][i] = queue'[j][h] => i = h
  <2>1. ASSUME NEW i \in 1 .. Len(queue[k]) + 1, NEW h \in 1 .. Len(queue[k]) + 1, queue'[k][i] = queue'[k][h] PROVE i = h
    <3>1. \A n \in 1 .. Len(queue[k]) + 1 : n \in 1 .. Len(queue[k]) \/ n = Len(queue[k]) + 1
      BY <1>7
    <3>2. \A n \in 1 .. Len(queue[k]) : queue'[k][n] # r
      BY <1>7, <1>8
    <3>3. CASE i \in 1 .. Len(queue[k]) /\ h \in 1 .. Len(queue[k])
      BY <1>7, <2>1, <3>3 DEF IInv, InLine
    <3> QED
      BY <1>7, <2>1, <3>1, <3>2, <3>3
  <2>2. \A j \in Key \ {k} : \A i, h \in DOMAIN queue'[j] : queue'[j][i] = queue'[j][h] => i = h
    BY <1>6 DEF IInv, InLine
  <2> QED
    BY <1>7, <2>1, <2>2
<1>10. \A j \in Key, q \in Request : task'[q].key = j <=> \E i \in DOMAIN queue'[j] : queue'[j][i] = q
  <2> SUFFICES ASSUME NEW j \in Key, NEW q \in Request
               PROVE  task'[q].key = j <=> \E i \in DOMAIN queue'[j] : queue'[j][i] = q
    OBVIOUS
  <2>0. task[q].key = j <=> \E i \in DOMAIN queue[j] : queue[j][i] = q
    BY DEF IInv, InLine
  <2>1. CASE j # k
    <3>1. queue'[j] = queue[j] /\ None # j
      BY <1>6, <2>1, ScreenAssumption
    <3>2. task'[q].key = j <=> task[q].key = j
      BY <1>1, <1>3, <1>4, <2>1, <3>1
    <3> QED
      BY <2>0, <3>1, <3>2
  <2>2. CASE j = k /\ q = r
    BY <1>3, <1>4, <1>7, <2>2
  <2>3. CASE j = k /\ q # r
    <3>1. (\E i \in DOMAIN queue'[k] : queue'[k][i] = q) => \E i \in DOMAIN queue[k] : queue[k][i] = q
      <4> SUFFICES ASSUME NEW i \in DOMAIN queue'[k], queue'[k][i] = q PROVE \E h \in DOMAIN queue[k] : queue[k][h] = q
        OBVIOUS
      <4>1. i \in 1 .. Len(queue[k]) \/ i = Len(queue[k]) + 1
        BY <1>7
      <4> QED
        BY <1>7, <2>3, <4>1
    <3>2. (\E i \in DOMAIN queue[k] : queue[k][i] = q) => \E i \in DOMAIN queue'[k] : queue'[k][i] = q
      <4> SUFFICES ASSUME NEW i \in DOMAIN queue[k], queue[k][i] = q PROVE \E h \in DOMAIN queue'[k] : queue'[k][h] = q
        OBVIOUS
      <4>1. i \in DOMAIN queue'[k] /\ queue'[k][i] = q
        BY <1>7
      <4> QED
        BY <4>1
    <3> QED
      BY <1>4, <2>0, <2>3, <3>1, <3>2
  <2> QED
    BY <2>1, <2>2, <2>3
<1>11. \A q \in Request : task'[q].pc \in {"rain", "ground"} => q # r /\ task'[q] = task[q]
  BY <1>3, <1>4
<1>12. \A q \in Request : task'[q].pc \in {"rain", "ground"} =>
           queue'[task'[q].key] # <<>> /\ Head(queue'[task'[q].key]) = q
  <2> SUFFICES ASSUME NEW q \in Request, task'[q].pc \in {"rain", "ground"}
               PROVE  queue'[task'[q].key] # <<>> /\ Head(queue'[task'[q].key]) = q
    OBVIOUS
  <2>1. task'[q] = task[q] /\ queue[task[q].key] # <<>> /\ Head(queue[task[q].key]) = q /\ task[q].key \in Key
    BY <1>11 DEF IInv, InLine, Reader, TaskState
  <2>2. CASE task[q].key # k
    BY <1>6, <2>1, <2>2
  <2>3. CASE task[q].key = k
    BY <1>6, <1>7, <2>1, <2>3
  <2> QED
    BY <2>2, <2>3
<1>13. ScreenType' /\ Needed' /\ (\A q \in Request : Reader(task'[q], clock'))
       /\ \A j \in Key : body'[j] # None => Kept(body'[j], j)
  BY <1>4, <1>5, <1>6, <1>11 DEF IInv, ScreenType, Needed
<1> QED
  BY <1>9, <1>10, <1>12, <1>13 DEF IInv, InLine

\* A request that comes in turn is the first in line.
LEMMA InTurn ==
    ASSUME IInv, NEW r \in Request, Turn(r) \/ task[r].pc \in {"rain", "ground"}
    PROVE  task[r].key \in Key /\ queue[task[r].key] # <<>> /\ Head(queue[task[r].key]) = r
<1>1. task[r] \in TaskState /\ task[r].pc # "idle" /\ Reader(task[r], clock)
  BY DEF IInv, ScreenType, Turn
<1>2. task[r].key \in Key
  BY <1>1 DEF Reader, TaskState
<1>3. queue[task[r].key] # <<>>
  <2>1. queue[task[r].key] \in Seq(Request) /\ \E i \in DOMAIN queue[task[r].key] : queue[task[r].key][i] = r
    BY <1>2 DEF IInv, InLine, ScreenType
  <2> QED
    BY <2>1
<1> QED
  BY <1>2, <1>3 DEF IInv, InLine, Turn

\* The first in line is served what is kept.
LEMMA CachedStep ==
    ASSUME IInv, NEW r \in Request, Cached(r)
    PROVE  IInv'
<1>1. task[r].key \in Key /\ queue[task[r].key] # <<>> /\ Head(queue[task[r].key]) = r /\ Leave(r)
      /\ clock' = clock /\ body' = body /\ height' = height
  BY InTurn DEF Cached
<1>2. height' \subseteq Cell /\ DOMAIN body' = Key /\ \A k \in Key : body'[k] # None => Kept(body'[k], k)
  BY <1>1 DEF IInv, ScreenType
<1> QED
  BY <1>1, <1>2, FirstLeaves

\* Who has a call under way reads; after the rain it is for the ground.
LEMMA OnlyReadersCall ==
    ASSUME IInv, NEW r \in Request, NEW c \in CallId, task[r].call[c].pc \in InFlightNow
    PROVE  /\ task[r].pc \in {"rain", "ground"} /\ c \in Moving(task[r].call) /\ task[r].call[c] \in CallState
           /\ task[r].pc = "rain" => c \in Cell
           /\ task[r].pc = "ground" => c \in {"river", "elevation"} /\ (Kind[task[r].key] = "area" => c = "elevation")
<1>1. task[r] \in TaskState /\ Reader(task[r], clock) /\ c \in Moving(task[r].call)
  BY DEF IInv, ScreenType, Moving
<1>2. task[r].pc \in {"rain", "ground"} /\ task[r].call[c] \in CallState
  BY <1>1 DEF Reader, TaskState
<1>3. CASE task[r].pc = "rain"
  <2>1. c \in CellsOf(task[r].key) /\ task[r].key \in Key
    BY <1>1, <1>3 DEF Reader, InRain, TaskState, InFlightNow
  <2> QED
    BY <1>1, <1>2, <1>3, <2>1, Lists
<1>4. CASE task[r].pc = "ground"
  <2>1. InGround(task[r], clock)
    BY <1>1, <1>4 DEF Reader
  <2>2. c \notin Cell /\ (Kind[task[r].key] = "area" => c # "river")
    BY <2>1 DEF InGround, InFlightNow
  <2> QED
    BY <1>1, <1>2, <1>4, <2>2 DEF CallId
<1> QED
  BY <1>2, <1>3, <1>4

\* The levels are fitted but the file cannot be written.
LEMMA UnwritableStep ==
    ASSUME IInv, NEW r \in Request, Unwritable(r)
    PROVE  IInv'
<1>1. "river" \in CallId /\ task[r].call["river"].pc \in InFlightNow
  BY DEF Unwritable, CallId, InFlightNow
<1>2. task[r].pc \in {"rain", "ground"}
  BY <1>1, OnlyReadersCall
<1>3. task[r].key \in Key /\ queue[task[r].key] # <<>> /\ Head(queue[task[r].key]) = r /\ Leave(r)
      /\ clock' = clock /\ body' = body /\ height' = height
  BY <1>2, InTurn DEF Unwritable
<1>4. height' \subseteq Cell /\ DOMAIN body' = Key /\ \A k \in Key : body'[k] # None => Kept(body'[k], k)
  BY <1>3 DEF IInv, ScreenType
<1> QED
  BY <1>3, <1>4, FirstLeaves

\* What is put together says no more than was read.
LEMMA FindingType ==
    ASSUME IInv, NEW r \in Request, NEW c \in Cell, NEW history \in HistoryRead, NEW reports \in ReportsRead
    PROVE  Known(r, c, history, reports) \in Finding /\ Known(r, c, history, reports).rain = task[r].rain[c]
<1>1. task[r] \in TaskState
  BY DEF IInv, ScreenType
<1>2. task[r].rain[c] \in Readings(Rains) /\ task[r].river \in Readings(Rivers)
  BY <1>1 DEF TaskState
<1>3. PICK e : e = IF c \in height /\ ~Missed(r) THEN {Height[c]} ELSE Unread
  OBVIOUS
<1>4. e \in Readings(Int)
  BY <1>3, ScreenAssumption DEF Readings
<1>5. Known(r, c, history, reports) = [rain |-> task[r].rain[c], river |-> task[r].river, elevation |-> e,
                                       history |-> history, reports |-> reports]
  BY <1>3 DEF Known
<1> QED
  BY <1>2, <1>4, <1>5 DEF Finding

\* How long a body is kept is how long it serves by the rain it is without.
LEMMA TtlServes ==
    ASSUME NEW k \in Key, NEW rain \in [Cell -> Readings(Rains)], NEW b, \A c \in CellsOf(k) : b.known[c].rain = rain[c]
    PROVE  LET ttl == Ttl(Kind[k], Cardinality({c \in CellsOf(k) : rain[c] # Unread}), Len(Cells[k]))
           IN  ttl \in Nat /\ ttl = Served(b, k)
<1> DEFINE there == {c \in CellsOf(k) : rain[c] # Unread}
           missing == {c \in CellsOf(k) : b.known[c].rain = Unread}
<1>1. IsFiniteSet(CellsOf(k)) /\ Cardinality(CellsOf(k)) = Len(Cells[k]) /\ Kind[k] \in {"grid", "area", "point"}
  BY Lists
<1>2. IsFiniteSet(there) /\ Cardinality(there) \in Nat /\ Cardinality(there) <= Len(Cells[k])
      /\ (Cardinality(there) = Len(Cells[k]) => there = CellsOf(k)) /\ (there = CellsOf(k) => Cardinality(there) = Len(Cells[k]))
  BY <1>1, FS_Subset, FS_CardinalityType
<1>3. Cardinality(there) > 0 <=> there # {}
  BY <1>2, FS_EmptySet
<1>4. (missing = {} <=> there = CellsOf(k)) /\ (missing # CellsOf(k) <=> there # {})
  OBVIOUS
<1>5. FullTtl[Kind[k]] \in Nat /\ PartTtl \in Nat /\ FailTtl \in Nat
  BY <1>1, ScreenAssumption
<1>6. Served(b, k) = IF missing = {} THEN FullTtl[Kind[k]] ELSE IF missing # CellsOf(k) THEN PartTtl ELSE FailTtl
  BY DEF Served
<1> HIDE DEF there, missing
<1> QED
  BY <1>2, <1>3, <1>4, <1>5, <1>6 DEF Ttl, there

\* The body is made of what was read, kept and served.
LEMMA FinishStep ==
    ASSUME IInv, NEW r \in Request, NEW history \in HistoryRead, NEW reports \in ReportsRead, Finish(r, history, reports)
    PROVE  IInv'
<1> DEFINE k == task[r].key
           available == Cardinality({c \in CellsOf(k) : task[r].rain[c] # Unread})
           ttl == Ttl(Kind[k], available, Len(Cells[k]))
<1>1. /\ k \in Key /\ queue[k] # <<>> /\ Head(queue[k]) = r /\ Leave(r) /\ clock' = clock /\ height' = height
      /\ task[r].pc \in {"rain", "ground"} /\ (Kind[k] = "grid" <=> task[r].pc = "rain")
  BY InTurn DEF Finish
<1>2. PICK known : known = [c \in CellsOf(k) |-> Known(r, c, history, reports)]
  OBVIOUS
<1>3. PICK b : b = [retrieved |-> task[r].retrieved, expires |-> clock + ttl, ttl |-> ttl, known |-> known]
  OBVIOUS
<1>4. body' = [body EXCEPT ![k] = b]
  BY <1>2, <1>3 DEF Finish, Expiry
<1>5. task[r] \in TaskState /\ task[r].retrieved \in Nat /\ task[r].rain \in [Cell -> Readings(Rains)]
      /\ Reader(task[r], clock) /\ clock \in Nat /\ AllOver(task[r])
  BY DEF IInv, ScreenType, TaskState, Finish, Over, AllOver
<1>6. \A c \in CellsOf(k) : b.known[c] \in Finding /\ b.known[c].rain = task[r].rain[c]
  <2> SUFFICES ASSUME NEW c \in CellsOf(k) PROVE b.known[c] \in Finding /\ b.known[c].rain = task[r].rain[c]
    OBVIOUS
  <2>1. b.known[c] = Known(r, c, history, reports) /\ c \in Cell
    BY <1>1, <1>2, <1>3, Lists
  <2> QED
    BY <2>1, FindingType
<1>7. ttl \in Nat /\ ttl = Served(b, k)
  BY <1>1, <1>5, <1>6, TtlServes
<1>8. clock <= task[r].retrieved + ReadingTime(k) /\ ReadingTime(k) \in Nat
  BY <1>1, <1>5, ReadingIsOver
<1>9. Kept(b, k)
  <2>1. b.retrieved = task[r].retrieved /\ b.expires = clock + ttl
    BY <1>3
  <2>2. b.retrieved \in Nat /\ b.expires \in Nat /\ b.expires <= b.retrieved + ReadingTime(k) + Served(b, k)
    BY <1>5, <1>7, <1>8, <2>1
  <2> QED
    BY <1>6, <2>2 DEF Kept
<1>10. DOMAIN body' = Key /\ body'[k] = b /\ \A j \in Key \ {k} : body'[j] = body[j]
  BY <1>1, <1>4 DEF IInv, ScreenType
<1>11. height' \subseteq Cell /\ (body'[k] # None => Kept(body'[k], k))
  BY <1>1, <1>9, <1>10 DEF IInv, ScreenType
<1> HIDE DEF k
<1> QED
  BY <1>1, <1>10, <1>11, FirstLeaves DEF k

\* A request reads on: first in line before and after.
LEMMA ReadsOn ==
    ASSUME IInv, NEW r \in Request, NEW y \in TaskState, y.pc \in {"rain", "ground"}, y.key = task[r].key,
           Turn(r) \/ task[r].pc \in {"rain", "ground"}, Reader(y, clock),
           body[y.key] # None => body[y.key].expires <= y.retrieved,
           task' = [task EXCEPT ![r] = y], UNCHANGED <<clock, body, queue>>, height' \subseteq Cell
    PROVE  IInv'
<1>1. task[r].key \in Key /\ queue[task[r].key] # <<>> /\ Head(queue[task[r].key]) = r
  BY InTurn
<1>2. task' \in [Request -> TaskState] /\ task'[r] = y /\ \A q \in Request \ {r} : task'[q] = task[q]
  BY DEF IInv, ScreenType
<1>3. ScreenType' /\ (\A q \in Request : Reader(task'[q], clock')) /\ \A k \in Key : body'[k] # None => Kept(body'[k], k)
  BY <1>2 DEF IInv, ScreenType
<1>4. \A q \in Request : task'[q].key = task[q].key
  BY <1>2
<1>5. \A q \in Request : task'[q].pc \in {"rain", "ground"} =>
          queue'[task'[q].key] # <<>> /\ Head(queue'[task'[q].key]) = q
  BY <1>1, <1>2 DEF IInv, InLine
<1>6. Needed'
  BY <1>2 DEF IInv, Needed
<1> QED
  BY <1>3, <1>4, <1>5, <1>6 DEF IInv, InLine

\* The first in line finds nothing that serves, and reads.
LEMMA BeginStep ==
    ASSUME IInv, NEW r \in Request, Begin(r)
    PROVE  IInv'
<1> DEFINE k == task[r].key
           w == Width(Kind[k])
<1>1. task[r] \in TaskState /\ clock \in Nat /\ k \in Key
  BY InTurn DEF IInv, ScreenType, Begin
<1>2. PICK f : f = [c \in CallId |-> IF c \in CellsOf(k) THEN Queued ELSE Off]
  OBVIOUS
<1>3. Queued = [pc |-> "queued", n |-> 0, due |-> 0] /\ Off = [pc |-> "off", n |-> 0, due |-> 0]
  BY DEF Queued, Off
<1>4. Queued \in CallState /\ Off \in CallState /\ Queued.pc = "queued" /\ Off.pc = "off"
  BY <1>3, AttemptTimes DEF CallState
<1>5. f \in [CallId -> CallState]
  BY <1>2, <1>4
<1>6. PICK y : y = [task[r] EXCEPT !.pc = "rain", !.retrieved = clock, !.call = f]
  OBVIOUS
<1>7. y \in TaskState /\ y.pc = "rain" /\ y.key = k /\ y.retrieved = clock /\ y.call = f
  BY <1>1, <1>5, <1>6 DEF TaskState
<1>8. task' = [task EXCEPT ![r] = y]
  BY <1>1, <1>2, <1>6 DEF Begin, IInv, ScreenType, TaskState
<1>9. /\ Len(Cells[k]) \in Nat \ {0} /\ DOMAIN Cells[k] = 1 .. Len(Cells[k]) /\ w \in {1, 2}
      /\ CellsOf(k) \subseteq CallId /\ CellsOf(k) = {Cells[k][i] : i \in DOMAIN Cells[k]}
  BY <1>1, Lists DEF CellsOf
<1>10. Moving(f) = {} /\ \A c \in CallId : f[c].pc = (IF c \in CellsOf(k) THEN "queued" ELSE "off") /\ InSpan(f[c], clock)
  BY <1>2, <1>4 DEF Moving, InFlightNow, InSpan
<1>11. RainTimes(f, clock, clock, 0, w, Len(Cells[k]))
  <2>1. Begun(0, w) = 0 /\ Gone(0, w) = 0 /\ Time(0) = 0
    BY <1>9, AttemptTimes DEF Begun, Gone, Time
  <2>2. Cardinality(Moving(f)) = 0
    BY <1>10, FS_EmptySet
  <2> QED
    BY <1>1, <1>9, <1>10, <2>1, <2>2 DEF RainTimes
<1>12. InRain(y, clock)
  <2>1. \A i \in DOMAIN Cells[k] : f[Cells[k][i]].pc = "queued" /\ i > 0
    BY <1>9, <1>10
  <2>2. 0 \in 0 .. Len(Cells[k])
    BY <1>9
  <2> QED
    BY <1>7, <1>10, <1>11, <2>1, <2>2 DEF InRain
<1>13. Reader(y, clock)
  BY <1>1, <1>7, <1>10, <1>12, ScreenAssumption DEF Reader
<1>14. body[k] # None => body[k].expires <= clock
  <2>1. body[k] # None => body[k].expires \in Nat
    BY <1>1 DEF IInv, Kept
  <2> QED
    BY <1>1, <2>1 DEF Begin, MustRead, Fresh
<1>15. Turn(r) /\ UNCHANGED <<clock, body, queue>> /\ height' \subseteq Cell
  BY DEF Begin, IInv, ScreenType
<1> QED
  BY <1>7, <1>8, <1>13, <1>14, <1>15, ReadsOn

\* All rain is in, and elevation and river come next.
LEMMA GroundStep ==
    ASSUME IInv, NEW r \in Request, Ground(r)
    PROVE  IInv'
<1> DEFINE k == task[r].key
           x == task[r]
<1>1. /\ x \in TaskState /\ clock \in Nat /\ k \in Key /\ x.pc = "rain" /\ Reader(x, clock) /\ AllOver(x)
      /\ Kind[k] \in {"area", "point"}
  BY InTurn, ScreenAssumption DEF IInv, ScreenType, Ground, AllOver, Over
<1>2. PICK a : a = IF Kind[k] = "point" THEN Asking(1) ELSE Off
  OBVIOUS
<1>3. PICK e : e = IF CellsOf(k) \subseteq height THEN Done ELSE Asking(1)
  OBVIOUS
<1>4. PICK step \in {"levels", "forecast"} : step = IF levels \/ file = "whole" THEN "forecast" ELSE "levels"
  OBVIOUS
<1>5. Asking(1) = [pc |-> "asking", n |-> 1, due |-> clock + Timeout] /\ clock + Timeout \in Nat /\ 1 \in 0 .. Attempts
  BY <1>1, AttemptTimes DEF Asking
<1>6. Done = [pc |-> "done", n |-> 0, due |-> 0] /\ Off = [pc |-> "off", n |-> 0, due |-> 0]
  BY DEF Done, Off
<1>7. Asking(1) \in CallState /\ Done \in CallState /\ Off \in CallState
  BY <1>5, <1>6, AttemptTimes DEF CallState
<1>8. PICK f : f = [x.call EXCEPT !["river"] = a, !["elevation"] = e]
  OBVIOUS
<1>9. /\ f \in [CallId -> CallState] /\ f["river"] = a /\ f["elevation"] = e
      /\ \A c \in CallId \ {"river", "elevation"} : f[c] = x.call[c]
  <2>1. x.call \in [CallId -> CallState]
    BY <1>1 DEF TaskState
  <2>2. a \in CallState /\ e \in CallState
    BY <1>2, <1>3, <1>7
  <2> QED
    BY <1>8, <2>1, <2>2 DEF CallId
<1>10. PICK y : y = [x EXCEPT !.pc = "ground", !.step = step, !.call = f]
  OBVIOUS
<1>11. y \in TaskState /\ y.pc = "ground" /\ y.key = k /\ y.retrieved = x.retrieved /\ y.call = f /\ y.step = step
  BY <1>1, <1>9, <1>10 DEF TaskState
<1>12. task' = [task EXCEPT ![r] = y]
  <2>1. task' = [task EXCEPT ![r].pc = "ground", ![r].step = step, ![r].call["river"] = a, ![r].call["elevation"] = e]
    BY <1>2, <1>3, <1>4 DEF Ground
  <2> QED
    BY <1>1, <1>8, <1>10, <2>1 DEF IInv, ScreenType, TaskState
<1>13. clock <= Base(x) /\ Base(x) \in Nat /\ Base(y) = Base(x) /\ Timeout \in Nat /\ CallTime \in Nat
  BY <1>1, <1>11, RainIsRead, AttemptTimes DEF Base
<1>14. \A c \in CallId : InSpan(f[c], clock)
  <2>1. InSpan(a, clock) /\ InSpan(e, clock)
    BY <1>1, <1>2, <1>3, <1>5, <1>6, AttemptTimes DEF InSpan, InFlightNow
  <2> QED
    BY <1>1, <1>9, <2>1 DEF Reader
<1>15. InGround(y, clock)
  <2>1. \A c \in Cell : f[c].pc \in {"off", "done", "failed"}
    <3>1. \A c \in Cell : c \in CallId \ {"river", "elevation"}
      BY ScreenAssumption DEF CallId
    <3> QED
      BY <1>1, <1>9, <3>1 DEF AllOver
  <2>2. a.pc \in {"off", "asking"} /\ e.pc \in {"done", "asking"}
    BY <1>2, <1>3, <1>5, <1>6
  <2>3. Kind[k] = "area" => a.pc = "off" /\ (e.pc \in InFlightNow => LatestEnd(e) <= Base(x) + CallTime)
    <3>1. ASSUME Kind[k] = "area" PROVE a.pc = "off"
      BY <1>2, <1>6, <3>1
    <3>2. ASSUME e.pc \in InFlightNow PROVE LatestEnd(e) <= Base(x) + CallTime
      <4>1. e.pc = "asking" /\ e.n = 1 /\ e.due = clock + Timeout
        BY <1>3, <1>5, <1>6, <3>2 DEF InFlightNow
      <4>2. Spare(1) \in Nat /\ CallTime = Timeout + Spare(1)
        BY AttemptTimes
      <4> QED
        BY <1>1, <1>13, <4>1, <4>2 DEF LatestEnd
    <3> QED
      BY <3>1, <3>2
  <2>4. (a.pc = "asking" => a.due = clock + Timeout) /\ (e.pc = "asking" => e.due = clock + Timeout)
    BY <1>2, <1>3, <1>5, <1>6
  <2>5. clock + Timeout <= Base(x) + Timeout /\ clock + Timeout <= Base(x) + 2 * Timeout
        /\ clock <= Base(x) + CallTime /\ clock <= Base(x) + 2 * Timeout
    BY <1>1, <1>13
  <2> HIDE DEF k, x
  <2> QED
    BY <1>1, <1>9, <1>11, <1>13, <2>1, <2>2, <2>3, <2>4, <2>5 DEF InGround
<1>16. Reader(y, clock)
  BY <1>1, <1>11, <1>14, <1>15, ScreenAssumption DEF Reader
<1>17. /\ body[y.key] # None => body[y.key].expires <= y.retrieved
       /\ UNCHANGED <<clock, body, queue>> /\ height' \subseteq Cell /\ y.key = task[r].key /\ task[r].pc \in {"rain", "ground"}
  BY <1>1, <1>11 DEF IInv, Needed, Ground, ScreenType
<1> QED
  BY <1>11, <1>12, <1>16, <1>17, ReadsOn

\* The parts of what a request is doing.
LEMMA Parts ==
    ASSUME NEW x, x \in TaskState
    PROVE  /\ x = [pc |-> x.pc, key |-> x.key, retrieved |-> x.retrieved, call |-> x.call,
                   rain |-> x.rain, river |-> x.river, step |-> x.step]
           /\ x.call \in [CallId -> CallState] /\ x.rain \in [Cell -> Readings(Rains)] /\ x.river \in Readings(Rivers)
           /\ x.step \in {"levels", "forecast"}
BY DEF TaskState

\* A call changes, and nothing is read by it.
LEMMA OnlyCallGoes ==
    ASSUME IInv, NEW r, NEW c, NEW a, r \in Request, c \in CallId, a \in CallState, InSpan(a, clock),
           MayChange(task[r], c, a, task[r].step, clock),
           task' = [task EXCEPT ![r] = [task[r] EXCEPT !.call = [task[r].call EXCEPT ![c] = a]]],
           UNCHANGED <<clock, body, queue>>, height' \subseteq Cell
    PROVE  IInv'
<1>1. task[r] \in TaskState
  BY DEF IInv, ScreenType
<1>2. PICK f : f = [task[r].call EXCEPT ![c] = a]
  OBVIOUS
<1>3. [task[r] EXCEPT !.call = f] = [task[r] EXCEPT !.call = f, !.rain = task[r].rain, !.river = task[r].river,
                                                    !.step = task[r].step]
  BY <1>1, Parts
<1>4. [task[r] EXCEPT !.call = [task[r].call EXCEPT ![c] = a]]
      = Changed(task[r], c, a, task[r].rain, task[r].river, task[r].step)
  BY <1>2, <1>3 DEF Changed
<1>5. Fits(task[r], c, a, task[r].rain, task[r].river, task[r].step, clock)
  BY <1>1, Parts DEF Fits
<1>6. task' = [task EXCEPT ![r] = Changed(task[r], c, a, task[r].rain, task[r].river, task[r].step)]
  BY <1>4
<1> QED
  BY <1>5, <1>6, ReadingGoes

\* A call that is over.
LEMMA OverCalls ==
    /\ Done \in CallState /\ Failed \in CallState /\ Done.pc = "done" /\ Failed.pc = "failed"
    /\ \A now : InSpan(Done, now) /\ InSpan(Failed, now)
<1>1. Done = [pc |-> "done", n |-> 0, due |-> 0] /\ Failed = [pc |-> "failed", n |-> 0, due |-> 0]
  BY DEF Done, Failed, Off
<1> QED
  BY <1>1, AttemptTimes DEF CallState, InSpan, InFlightNow

\* A call just made.
LEMMA NewCalls ==
    ASSUME clock \in Nat, NEW n \in 1 .. Attempts
    PROVE  /\ Asking(n) \in CallState /\ Asking(n).pc = "asking" /\ Asking(n).n = n /\ Asking(n).due = clock + Timeout
           /\ InSpan(Asking(n), clock) /\ (n = 1 => LatestEnd(Asking(n)) = clock + CallTime)
<1>1. Asking(n) = [pc |-> "asking", n |-> n, due |-> clock + Timeout] /\ clock + Timeout \in Nat /\ Timeout \in Nat
  BY AttemptTimes DEF Asking
<1>2. Asking(n) \in CallState
  BY <1>1, AttemptTimes DEF CallState
<1>3. /\ Asking(n).pc = "asking" /\ Asking(n).n = n /\ Asking(n).due = clock + Timeout
  BY <1>1
<1>4. InSpan(Asking(n), clock)
  BY <1>1, <1>3 DEF InSpan
<1>5. n = 1 => LatestEnd(Asking(n)) = clock + CallTime
  BY <1>1, <1>3, AttemptTimes DEF LatestEnd
<1> QED
  BY <1>2, <1>3, <1>4, <1>5

\* The next cell's rain is asked for while there is room.
LEMMA StartStep ==
    ASSUME IInv, NEW r \in Request, Start(r)
    PROVE  IInv'
<1> DEFINE k == task[r].key
           x == task[r]
<1>1. k \in Key /\ x.pc = "rain" /\ clock \in Nat /\ UNCHANGED <<clock, body, queue>> /\ height' \subseteq Cell
  BY InTurn DEF Start, IInv, ScreenType
<1>2. PICK i \in Left(r) : /\ \A j \in Left(r) : i <= j
                          /\ task' = [task EXCEPT ![r].call[Cells[k][i]] = Asking(1)]
  BY DEF Start
<1>3. PICK c \in CallId : c = Cells[k][i]
  BY <1>1, <1>2, Lists DEF Left, CellsOf
<1>4. Asking(1) \in CallState /\ Asking(1).pc = "asking" /\ InSpan(Asking(1), clock) /\ LatestEnd(Asking(1)) = clock + CallTime
  BY <1>1, NewCalls, AttemptTimes
<1>5. FirstStarts(x, c, Asking(1), clock)
  <2>1. Cardinality(Moving(x.call)) < Width(Kind[k])
    BY DEF Start, Moving, InFlight, InFlightNow
  <2> QED
    BY <1>2, <1>3, <1>4, <2>1 DEF FirstStarts, Left
<1>6. task' = [task EXCEPT ![r] = [x EXCEPT !.call = [x.call EXCEPT ![c] = Asking(1)]]]
  BY <1>2, <1>3 DEF IInv, ScreenType, TaskState
<1>7. MayChange(x, c, Asking(1), x.step, clock)
  BY <1>1, <1>5 DEF MayChange
<1> QED
  BY <1>1, <1>4, <1>6, <1>7, OnlyCallGoes

\* The rain of a cell is read.
LEMMA RainStep ==
    ASSUME IInv, NEW r \in Request, NEW c \in CallId, NEW reading \in parse_rain, Rain(r, c, reading)
    PROVE  IInv'
<1>1. /\ c \in Cell /\ task[r].call[c].pc = "asking" /\ task[r] \in TaskState
      /\ UNCHANGED <<clock, body, queue>> /\ height' \subseteq Cell
  BY DEF Rain, IInv, ScreenType
<1>2. task[r].pc = "rain" /\ c \in Moving(task[r].call)
  BY <1>1, OnlyReadersCall, ScreenAssumption DEF InFlightNow
<1>3. PICK a \in {Done, Failed} : a = IF reading = Unread THEN Failed ELSE Done
  OBVIOUS
<1>4. PICK rain \in [Cell -> Readings(Rains)] : rain = [task[r].rain EXCEPT ![c] = reading]
  <2>1. reading \in Readings(Rains) /\ task[r].rain \in [Cell -> Readings(Rains)]
    BY <1>1 DEF parse_rain, Readings, TaskState
  <2> QED
    BY <1>1, <2>1
<1>5. task' = [task EXCEPT ![r] = Changed(task[r], c, a, rain, task[r].river, task[r].step)]
  <2>1. PICK f : f = [task[r].call EXCEPT ![c] = a]
    OBVIOUS
  <2>2. task' = [task EXCEPT ![r].call[c] = a, ![r].rain[c] = reading]
    BY <1>3 DEF Rain
  <2>3. task' = [task EXCEPT ![r] = [task[r] EXCEPT !.call = f, !.rain = rain]]
    BY <1>1, <1>4, <2>1, <2>2 DEF IInv, ScreenType, TaskState
  <2>4. [task[r] EXCEPT !.call = f, !.rain = rain]
        = [task[r] EXCEPT !.call = f, !.rain = rain, !.river = task[r].river, !.step = task[r].step]
    BY <1>1, Parts
  <2> QED
    BY <2>1, <2>3, <2>4 DEF Changed
<1>6. a \in CallState /\ InSpan(a, clock) /\ a.pc \in {"done", "failed"}
  BY <1>3, OverCalls
<1>7. MayChange(task[r], c, a, task[r].step, clock)
  BY <1>2, <1>6 DEF MayChange, CallEnds
<1>8. Fits(task[r], c, a, rain, task[r].river, task[r].step, clock)
  BY <1>1, <1>4, <1>6, <1>7, Parts DEF Fits
<1> QED
  BY <1>1, <1>5, <1>8, ReadingGoes

\* The heights are read.
LEMMA ElevationStep ==
    ASSUME IInv, NEW r \in Request, Elevation(r)
    PROVE  IInv'
<1>1. /\ "elevation" \in CallId /\ task[r].call["elevation"].pc = "asking"
      /\ UNCHANGED <<clock, body, queue>> /\ height' = height \cup CellsOf(task[r].key)
      /\ "elevation" \notin Cell
  BY ScreenAssumption DEF Elevation, CallId
<1>2. task[r].pc = "ground" /\ "elevation" \in Moving(task[r].call)
  BY <1>1, OnlyReadersCall DEF InFlightNow
<1>3. height' \subseteq Cell
  <2>1. task[r].key \in Key
    BY <1>2, InTurn
  <2> QED
    BY <1>1, <2>1, Lists DEF IInv, ScreenType
<1>4. MayChange(task[r], "elevation", Done, task[r].step, clock)
  BY <1>2, OverCalls DEF MayChange, CallEnds
<1>5. task' = [task EXCEPT ![r] = [task[r] EXCEPT !.call = [task[r].call EXCEPT !["elevation"] = Done]]]
  BY DEF Elevation, IInv, ScreenType, TaskState
<1> QED
  BY <1>1, <1>3, <1>4, <1>5, OverCalls, OnlyCallGoes

\* The river's levels are had, from memory, file or fit.
LEMMA RiverLevelsStep ==
    ASSUME IInv, NEW r \in Request, RiverLevels(r)
    PROVE  IInv'
<1>1. /\ "river" \in CallId /\ task[r].call["river"].pc = "asking" /\ task[r].step = "levels" /\ task[r] \in TaskState
      /\ UNCHANGED <<clock, body, queue>> /\ height' \subseteq Cell /\ "river" \notin Cell /\ clock \in Nat
  BY ScreenAssumption DEF RiverLevels, CallId, IInv, ScreenType
<1>2. task[r].pc = "ground"
  BY <1>1, OnlyReadersCall DEF InFlightNow
<1>3. Asking(1) \in CallState /\ Asking(1).pc = "asking" /\ InSpan(Asking(1), clock) /\ Asking(1).due = clock + Timeout
  BY <1>1, NewCalls, AttemptTimes
<1>4. MayChange(task[r], "river", Asking(1), "forecast", clock)
  BY <1>1, <1>2, <1>3 DEF MayChange
<1>5. task' = [task EXCEPT ![r] = Changed(task[r], "river", Asking(1), task[r].rain, task[r].river, "forecast")]
  <2>1. PICK f : f = [task[r].call EXCEPT !["river"] = Asking(1)]
    OBVIOUS
  <2>2. task' = [task EXCEPT ![r].call["river"] = Asking(1), ![r].step = "forecast"]
    BY DEF RiverLevels
  <2>3. task' = [task EXCEPT ![r] = [task[r] EXCEPT !.call = f, !.step = "forecast"]]
    BY <1>1, <2>1, <2>2 DEF IInv, ScreenType, TaskState
  <2>4. [task[r] EXCEPT !.call = f, !.step = "forecast"]
        = [task[r] EXCEPT !.call = f, !.rain = task[r].rain, !.river = task[r].river, !.step = "forecast"]
    BY <1>1, Parts
  <2> QED
    BY <2>1, <2>3, <2>4 DEF Changed
<1>6. Fits(task[r], "river", Asking(1), task[r].rain, task[r].river, "forecast", clock)
  BY <1>1, <1>3, <1>4, Parts DEF Fits
<1> QED
  BY <1>1, <1>5, <1>6, ReadingGoes

\* The river's flow is read.
LEMMA RiverFlowStep ==
    ASSUME IInv, NEW r \in Request, NEW flow \in Rivers, RiverFlow(r, flow)
    PROVE  IInv'
<1>1. /\ "river" \in CallId /\ task[r].call["river"].pc = "asking" /\ task[r] \in TaskState
      /\ UNCHANGED <<clock, body, queue>> /\ height' \subseteq Cell /\ "river" \notin Cell
  BY ScreenAssumption DEF RiverFlow, CallId, IInv, ScreenType
<1>2. task[r].pc = "ground" /\ "river" \in Moving(task[r].call)
  BY <1>1, OnlyReadersCall DEF InFlightNow
<1>3. MayChange(task[r], "river", Done, task[r].step, clock)
  BY <1>2, OverCalls DEF MayChange, CallEnds
<1>4. PICK river \in Readings(Rivers) : river = {flow}
  BY DEF Readings
<1>5. task' = [task EXCEPT ![r] = Changed(task[r], "river", Done, task[r].rain, river, task[r].step)]
  <2>1. PICK f : f = [task[r].call EXCEPT !["river"] = Done]
    OBVIOUS
  <2>2. task' = [task EXCEPT ![r].call["river"] = Done, ![r].river = river]
    BY <1>4 DEF RiverFlow
  <2>3. task' = [task EXCEPT ![r] = [task[r] EXCEPT !.call = f, !.river = river]]
    BY <1>1, <2>1, <2>2 DEF IInv, ScreenType, TaskState
  <2>4. [task[r] EXCEPT !.call = f, !.river = river]
        = [task[r] EXCEPT !.call = f, !.rain = task[r].rain, !.river = river, !.step = task[r].step]
    BY <1>1, Parts
  <2> QED
    BY <2>1, <2>3, <2>4 DEF Changed
<1>6. Fits(task[r], "river", Done, task[r].rain, river, task[r].step, clock)
  BY <1>1, <1>3, <1>4, OverCalls, Parts DEF Fits
<1> QED
  BY <1>1, <1>5, <1>6, ReadingGoes

\* An attempt fails: a pause, or no more attempts.
LEMMA FailStep ==
    ASSUME IInv, NEW r \in Request, NEW c \in CallId, NEW passing \in BOOLEAN, Fail(r, c, passing)
    PROVE  IInv'
<1> DEFINE x == task[r]
<1>1. /\ x.call[c].pc = "asking" /\ x \in TaskState /\ Reader(x, clock) /\ clock \in Nat
      /\ UNCHANGED <<clock, body, queue>> /\ height' \subseteq Cell
  BY DEF Fail, IInv, ScreenType
<1>2. /\ x.pc \in {"rain", "ground"} /\ c \in Moving(x.call) /\ x.call[c] \in CallState
      /\ (x.pc = "ground" => c \in {"river", "elevation"})
  BY <1>1, OnlyReadersCall DEF InFlightNow
<1>3. CASE ~Again(r, c, passing)
  <2>1. MayChange(x, c, Failed, x.step, clock)
    BY <1>2, OverCalls DEF MayChange, CallEnds
  <2>2. task' = [task EXCEPT ![r] = [x EXCEPT !.call = [x.call EXCEPT ![c] = Failed]]]
    BY <1>3 DEF Fail, IInv, ScreenType, TaskState
  <2> QED
    BY <1>1, <2>1, <2>2, OverCalls, OnlyCallGoes
<1>4. CASE Again(r, c, passing)
  <2>1. PICK w \in Waits : task' = [task EXCEPT ![r].call[c].pc = "sleeping", ![r].call[c].due = clock + w]
    BY <1>4 DEF Fail
  <2>2. PICK a : a = [x.call[c] EXCEPT !.pc = "sleeping", !.due = clock + w]
    OBVIOUS
  <2>3. a \in CallState /\ a.pc = "sleeping" /\ a.n = x.call[c].n /\ a.due = clock + w
    <3>1. clock + w \in Nat
      BY <1>1, AttemptTimes
    <3> QED
      BY <1>2, <2>2, <3>1 DEF CallState
  <2>4. x.call[c].n < Attempts /\ (c \in Cell \/ (c = "elevation" /\ Kind[x.key] = "area"))
    BY <1>4 DEF Again, Patient
  <2>5. CallGoesOn(x, c, a) /\ InSpan(a, clock)
    BY <1>1, <2>3, <2>4, PauseAndAgain
  <2>6. MayChange(x, c, a, x.step, clock)
    BY <1>2, <2>4, <2>5, ScreenAssumption DEF MayChange
  <2>7. task' = [task EXCEPT ![r] = [x EXCEPT !.call = [x.call EXCEPT ![c] = a]]]
    <3>1. PICK h : h = [x.call[c] EXCEPT !.pc = "sleeping"]
      OBVIOUS
    <3>2. a = [h EXCEPT !.due = clock + w]
      BY <1>2, <2>2, <3>1 DEF CallState
    <3>3. PICK f : f = [x.call EXCEPT ![c] = h]
      OBVIOUS
    <3>4. x.call \in [CallId -> CallState] /\ f[c] = h /\ [f EXCEPT ![c] = a] = [x.call EXCEPT ![c] = a]
      BY <1>1, <3>3, Parts
    <3>5. PICK y : y = [x EXCEPT !.call = f]
      OBVIOUS
    <3>6. y.call = f /\ [y EXCEPT !.call = [f EXCEPT ![c] = a]] = [x EXCEPT !.call = [x.call EXCEPT ![c] = a]]
      <4>1. PICK g : g = [x.call EXCEPT ![c] = a]
        OBVIOUS
      <4>2. y.call = f
        BY <1>1, <3>5 DEF TaskState
      <4>3. [y EXCEPT !.call = g] = [x EXCEPT !.call = g]
        BY <1>1, <3>5 DEF TaskState
      <4> QED
        BY <3>4, <4>1, <4>2, <4>3
    <3>7. PICK t : t = [task EXCEPT ![r] = y]
      OBVIOUS
    <3>8. t[r] = y /\ \A z : [t EXCEPT ![r] = z] = [task EXCEPT ![r] = z]
      BY <3>7 DEF IInv, ScreenType
    <3>9. task' = [t EXCEPT ![r].call[c].due = clock + w]
      BY <2>1, <3>1, <3>3, <3>5, <3>7
    <3>10. task' = [t EXCEPT ![r] = [y EXCEPT !.call = [f EXCEPT ![c] = a]]]
      BY <3>2, <3>4, <3>6, <3>8, <3>9
    <3> QED
      BY <3>6, <3>8, <3>10
  <2> QED
    BY <1>1, <2>3, <2>5, <2>6, <2>7, OnlyCallGoes
<1> QED
  BY <1>3, <1>4

\* The pause is over, and the call is made again.
LEMMA WakeStep ==
    ASSUME IInv, NEW r \in Request, NEW c \in CallId, Wake(r, c)
    PROVE  IInv'
<1> DEFINE x == task[r]
           a == Asking(x.call[c].n + 1)
<1>1. /\ x.call[c].pc = "sleeping" /\ x.call[c].due = clock /\ x \in TaskState /\ Reader(x, clock) /\ clock \in Nat
      /\ UNCHANGED <<clock, body, queue>> /\ height' \subseteq Cell
  BY DEF Wake, IInv, ScreenType
<1>2. /\ x.pc \in {"rain", "ground"} /\ c \in Moving(x.call) /\ x.call[c] \in CallState
      /\ (x.pc = "ground" => c \in {"river", "elevation"} /\ (Kind[x.key] = "area" => c = "elevation"))
  BY <1>1, OnlyReadersCall DEF InFlightNow
<1>3. x.call[c].n + 1 \in 1 .. Attempts
  BY <1>1, <1>2, AttemptTimes DEF Reader, InSpan, InFlightNow, CallState
<1>4. a \in CallState /\ a.pc = "asking" /\ a.n = x.call[c].n + 1 /\ a.due = clock + Timeout
  BY <1>1, <1>3, NewCalls
<1>5. CallGoesOn(x, c, a) /\ InSpan(a, clock)
  BY <1>1, <1>4, PauseAndAgain
<1>6. x.pc = "ground" => c = "elevation" /\ Kind[x.key] = "area"
  BY <1>1, <1>2 DEF Reader, InGround
<1>7. MayChange(x, c, a, x.step, clock)
  BY <1>2, <1>5, <1>6 DEF MayChange
<1>8. task' = [task EXCEPT ![r] = [x EXCEPT !.call = [x.call EXCEPT ![c] = a]]]
  <2>1. x.call \in [CallId -> CallState]
    BY <1>1 DEF TaskState
  <2>2. task' = [task EXCEPT ![r].call[c] = Asking(task[r].call[c].n + 1)]
    BY DEF Wake
  <2> QED
    BY <1>1, <2>1, <2>2 DEF IInv, ScreenType, TaskState
<1> QED
  BY <1>1, <1>4, <1>5, <1>7, <1>8, OnlyCallGoes

\* Time passes only when nobody has something to do at once.
LEMMA TickStep ==
    ASSUME IInv, Tick
    PROVE  IInv'
<1>1. clock \in Nat /\ clock' = clock + 1 /\ UNCHANGED <<body, queue, task, height>>
  BY DEF IInv, ScreenType, Tick
<1>2. ASSUME NEW r \in Request PROVE Settled(task[r], clock)
  <2>1. /\ \A c \in InFlight(r) : task[r].call[c].due > clock
        /\ task[r].pc \in {"rain", "ground"} => ~Over(r)
        /\ task[r].pc = "rain" /\ Left(r) # {} => Cardinality(InFlight(r)) >= Width(Kind[task[r].key])
    BY DEF Tick, Prompt
  <2>2. InFlight(r) = Moving(task[r].call)
    BY DEF InFlight, Moving, InFlightNow
  <2>3. ASSUME task[r].pc = "rain" PROVE Cardinality(Moving(task[r].call)) \in Nat /\ Width(Kind[task[r].key]) \in Nat
    <3>1. task[r].key \in Key /\ IsFiniteSet(Moving(task[r].call))
      BY <1>1, <2>3, MovingIsFinite DEF IInv
    <3> QED
      BY <3>1, Lists, FS_CardinalityType
  <2>4. ASSUME task[r].pc = "rain", NEW i \in DOMAIN Cells[task[r].key], task[r].call[Cells[task[r].key][i]].pc = "queued"
        PROVE  ~(Cardinality(Moving(task[r].call)) < Width(Kind[task[r].key]))
    <3>1. Left(r) # {}
      BY <2>4 DEF Left
    <3> QED
      BY <2>1, <2>2, <2>3, <2>4, <3>1
  <2> QED
    BY <2>1, <2>2, <2>4 DEF Settled, Over
<1>3. \A r \in Request : Reader(task[r], clock + 1)
  BY <1>1, <1>2, TimePasses DEF IInv
<1> QED
  BY <1>1, <1>3 DEF IInv, ScreenType, InLine, Needed

\* Nobody asks, nobody is in line, and nothing is kept.
LEMMA FromNothing ==
    ASSUME clock' \in Nat, body' = [k \in Key |-> None], queue' = [k \in Key |-> <<>>],
           task' = [r \in Request |-> Idle], height' = {}
    PROVE  IInv'
<1>1. /\ \A r \in Request : task'[r] = Idle /\ task'[r].pc = "idle" /\ task'[r].key = None
      /\ \A k \in Key : body'[k] = None /\ queue'[k] = <<>> /\ None # k
  BY AtRest, ScreenAssumption
<1>2. ScreenType'
  BY AtRest DEF ScreenType
<1>3. InLine'
  BY <1>1 DEF InLine
<1> QED
  BY <1>1, <1>2, <1>3, AtRest DEF IInv, Needed

\* It begins with nothing.
LEMMA InitInv == Init => IInv
<1> SUFFICES ASSUME Init PROVE IInv
  OBVIOUS
<1>1. /\ \A r \in Request : task[r] = Idle /\ task[r].pc = "idle" /\ task[r].key = None
      /\ \A k \in Key : body[k] = None /\ queue[k] = <<>> /\ None # k
  BY AtRest, ScreenAssumption DEF Init
<1>2. ScreenType
  BY AtRest DEF ScreenType, Init
<1>3. InLine
  BY <1>1 DEF InLine
<1> QED
  BY <1>1, <1>2, <1>3, AtRest DEF IInv, Needed

\* Each action keeps the invariant, in whatever order the calls end.
LEMMA InvStep == IInv /\ [Next]_screenVars => IInv'
<1> SUFFICES ASSUME IInv, [Next]_screenVars PROVE IInv'
  OBVIOUS
<1>1. CASE UNCHANGED screenVars
  BY <1>1 DEF screenVars, IInv, ScreenType, InLine, Needed
<1>2. CASE Tick
  BY <1>2, TickStep
<1>3. CASE Restart
  BY <1>3, FromNothing DEF Restart, IInv, ScreenType
<1>4. CASE \E r \in Request, k \in Key : Ask(r, k)
  BY <1>4, AskStep
<1>5. ASSUME NEW r \in Request,
             \/ Cached(r) \/ Begin(r) \/ Start(r) \/ Ground(r) \/ Elevation(r) \/ RiverLevels(r) \/ Unwritable(r)
             \/ \E v \in Rivers : RiverFlow(r, v)
      PROVE  IInv'
  BY <1>5, CachedStep, BeginStep, StartStep, GroundStep, ElevationStep, RiverLevelsStep, UnwritableStep, RiverFlowStep
<1>6. ASSUME NEW r \in Request, NEW c \in CallId,
             \/ Wake(r, c) \/ \E passing \in BOOLEAN : Fail(r, c, passing)
             \/ \E reading \in parse_rain : Rain(r, c, reading)
      PROVE  IInv'
  BY <1>6, WakeStep, FailStep, RainStep
<1>7. ASSUME NEW r \in Request, NEW history \in HistoryRead, NEW reports \in ReportsRead, Finish(r, history, reports)
      PROVE  IInv'
  BY <1>7, FinishStep
<1> QED
  BY <1>1, <1>2, <1>3, <1>4, <1>5, <1>6, <1>7 DEF Next

\* The line of each key, the calls of its reader and the bodies kept hold together
\* whatever fails and however often the process starts again.
THEOREM Invariant == Spec => []IInv
BY InitInv, InvStep, PTL DEF Spec

-----------------------------------------------------------------------------
\* What is kept does not outlive its promise.
LEMMA InTime == IInv => ServedInTime
<1> SUFFICES ASSUME IInv, NEW k \in Key, body[k] # None, body[k].expires > clock
             PROVE  clock < body[k].retrieved + ReadingTime(k) +
                        (IF Unrained(k) = {} THEN FullTtl[Kind[k]]
                         ELSE IF Unrained(k) # CellsOf(k) THEN PartTtl ELSE FailTtl)
  BY DEF ServedInTime
<1>1. Kept(body[k], k) /\ clock \in Nat
  BY DEF IInv, ScreenType
<1>2. Served(body[k], k) = IF Unrained(k) = {} THEN FullTtl[Kind[k]]
                           ELSE IF Unrained(k) # CellsOf(k) THEN PartTtl ELSE FailTtl
  BY DEF Served, Unrained
<1>3. ReadingTime(k) \in Nat /\ Served(body[k], k) \in Nat
  <2>1. Kind[k] \in {"grid", "area", "point"} /\ Rounds(k) \in Nat
    BY Lists
  <2>2. Time(Rounds(k)) \in Nat /\ CallTime \in Nat /\ Timeout \in Nat
    BY <2>1, RoundTimes, AttemptTimes
  <2>3. ReadingTime(k) \in Nat
    BY <2>1, <2>2 DEF ReadingTime, Time
  <2>4. FullTtl[Kind[k]] \in Nat /\ PartTtl \in Nat /\ FailTtl \in Nat
    BY <2>1, ScreenAssumption
  <2> QED
    BY <2>3, <2>4 DEF Served
<1> QED
  BY <1>1, <1>2, <1>3 DEF Kept

\* A body is given for no longer than the time its reading may take and the time to
\* live that its rain deserves.
THEOREM ServesInTime == Spec => []ServedInTime
BY Invariant, InTime, PTL

\* Who reads is alone, and what it asks is bounded.
LEMMA Spares == IInv => ProviderSpared
<1> SUFFICES ASSUME IInv, NEW r \in Request, task[r].pc \in {"rain", "ground"}
             PROVE  /\ \A q \in Request \ {r} : task[q].key = task[r].key => task[q].pc = "waiting"
                    /\ body[task[r].key] # None => body[task[r].key].expires <= task[r].retrieved
                    /\ Cardinality({c \in InFlight(r) : c \in Cell}) <= (IF Kind[task[r].key] = "grid" THEN 2 ELSE 1)
                    /\ \A c \in CallId : task[r].call[c].n <= Attempts
  BY DEF ProviderSpared
<1>1. Reader(task[r], clock) /\ clock \in Nat /\ task[r] \in TaskState /\ task[r].key \in Key
  BY InTurn DEF IInv, ScreenType
<1>2. ASSUME NEW q \in Request \ {r}, task[q].key = task[r].key PROVE task[q].pc = "waiting"
  <2>1. task[q].pc \notin {"rain", "ground"}
    BY <1>2 DEF IInv, InLine
  <2>2. task[q].pc # "idle" /\ task[q] \in TaskState
    <3>1. task[q] \in TaskState /\ Reader(task[q], clock)
      BY DEF IInv, ScreenType
    <3> QED
      BY <1>1, <1>2, <3>1, ScreenAssumption DEF Reader
  <2> QED
    BY <2>1, <2>2 DEF TaskState
<1>3. body[task[r].key] # None => body[task[r].key].expires <= task[r].retrieved
  BY DEF IInv, Needed
<1>4. \A c \in CallId : task[r].call[c].n <= Attempts
  BY <1>1, AttemptTimes DEF TaskState, CallState
<1>5. {c \in InFlight(r) : c \in Cell} = {c \in Moving(task[r].call) : c \in Cell}
  BY DEF InFlight, Moving, InFlightNow
<1>6. Cardinality({c \in Moving(task[r].call) : c \in Cell}) <= Width(Kind[task[r].key])
  <2>1. Width(Kind[task[r].key]) \in {1, 2}
    BY <1>1, Lists
  <2>2. CASE task[r].pc = "rain"
    <3>1. IsFiniteSet(Moving(task[r].call)) /\ Cardinality(Moving(task[r].call)) <= Width(Kind[task[r].key])
      BY <1>1, <2>2, MovingIsFinite DEF Reader, InRain, RainTimes
    <3>2. {c \in Moving(task[r].call) : c \in Cell} \subseteq Moving(task[r].call)
      OBVIOUS
    <3>3. Cardinality({c \in Moving(task[r].call) : c \in Cell}) <= Cardinality(Moving(task[r].call))
          /\ Cardinality({c \in Moving(task[r].call) : c \in Cell}) \in Nat /\ Cardinality(Moving(task[r].call)) \in Nat
      BY <3>1, <3>2, FS_Subset, FS_CardinalityType
    <3> QED
      BY <2>1, <3>1, <3>3
  <2>3. CASE task[r].pc = "ground"
    <3>1. {c \in Moving(task[r].call) : c \in Cell} = {}
      BY <1>1, <2>3 DEF Reader, InGround, Moving, InFlightNow
    <3> QED
      BY <2>1, <3>1, FS_EmptySet
  <2> QED
    BY <2>2, <2>3
<1> QED
  BY <1>2, <1>3, <1>4, <1>5, <1>6 DEF Width

\* One request for a key reads it, and only when nothing cached still serves, with
\* no more calls and attempts than the provider bears.
THEOREM SparesProvider == Spec => []ProviderSpared
BY Invariant, Spares, PTL

-----------------------------------------------------------------------------
(* The scores.                                                             *)

\* A value reaches a threshold of each table.
LEMMA Levels == \A v \in Nat : level(v) # "unavailable"
<1> SUFFICES ASSUME NEW v \in Nat PROVE level(v) # "unavailable"
  OBVIOUS
<1>1. /\ LEVELS[1] = <<6, "severe">> /\ LEVELS[2] = <<4, "high">> /\ LEVELS[3] = <<2, "moderate">> /\ LEVELS[4] = <<0, "low">>
      /\ DOMAIN LEVELS = 1 .. 4
  BY DEF LEVELS
<1>2. \E i \in DOMAIN LEVELS : v >= LEVELS[i][1] /\ \A j \in 1 .. i - 1 : v < LEVELS[j][1]
  <2>1. CASE v >= 6
    BY <1>1, <2>1
  <2>2. CASE v < 6 /\ v >= 4
    <3>1. \A j \in 1 .. 2 - 1 : v < LEVELS[j][1]
      BY <1>1, <2>2
    <3> QED
      BY <1>1, <2>2, <3>1
  <2>3. CASE v < 4 /\ v >= 2
    <3>1. \A j \in 1 .. 3 - 1 : v < LEVELS[j][1]
      BY <1>1, <2>3
    <3> QED
      BY <1>1, <2>3, <3>1
  <2>4. CASE v < 2
    <3>1. \A j \in 1 .. 4 - 1 : v < LEVELS[j][1]
      BY <1>1, <2>4
    <3> QED
      BY <1>1, <2>4, <3>1
  <2> QED
    BY <2>1, <2>2, <2>3, <2>4
<1>3. PICK i \in DOMAIN LEVELS : Reached(v, LEVELS) = LEVELS[i][2]
  BY <1>2 DEF Reached
<1> QED
  BY <1>1, <1>3 DEF level

\* The points that rain, a river, the ground and its history score.
LEMMA Points ==
    /\ \A v \in Nat : Reached(v, IMD) \in Nat /\ Reached(v, Past5d) \in Nat
    /\ \A r \in [peak : Nat, rl2 : Nat, rl5 : Nat] : river_points(r) \in Nat
<1>1. ASSUME NEW v \in Nat PROVE Reached(v, IMD) \in Nat
  <2>1. /\ IMD[1] = <<2045, 4>> /\ IMD[2] = <<1156, 3>> /\ IMD[3] = <<645, 2>> /\ IMD[4] = <<156, 1>> /\ IMD[5] = <<0, 0>>
        /\ DOMAIN IMD = 1 .. 5
    BY DEF IMD
  <2>2. \E i \in DOMAIN IMD : v >= IMD[i][1] /\ \A j \in 1 .. i - 1 : v < IMD[j][1]
    <3>1. CASE v >= 2045
      BY <2>1, <3>1
    <3>2. CASE v < 2045 /\ v >= 1156
      <4>1. \A j \in 1 .. 2 - 1 : v < IMD[j][1]
        BY <2>1, <3>2
      <4> QED
        BY <2>1, <3>2, <4>1
    <3>3. CASE v < 1156 /\ v >= 645
      <4>1. \A j \in 1 .. 3 - 1 : v < IMD[j][1]
        BY <2>1, <3>3
      <4> QED
        BY <2>1, <3>3, <4>1
    <3>4. CASE v < 645 /\ v >= 156
      <4>1. \A j \in 1 .. 4 - 1 : v < IMD[j][1]
        BY <2>1, <3>4
      <4> QED
        BY <2>1, <3>4, <4>1
    <3>5. CASE v < 156
      <4>1. \A j \in 1 .. 5 - 1 : v < IMD[j][1]
        BY <2>1, <3>5
      <4> QED
        BY <2>1, <3>5, <4>1
    <3> QED
      BY <3>1, <3>2, <3>3, <3>4, <3>5
  <2>3. PICK i \in DOMAIN IMD : Reached(v, IMD) = IMD[i][2]
    BY <2>2 DEF Reached
  <2> QED
    BY <2>1, <2>3
<1>2. \A a, b \in Nat, p, q \in Nat, v \in Nat : Reached(v, <<<<a, p>>, <<b, q>>, <<0, 0>>>>) \in Nat
  <2> SUFFICES ASSUME NEW a \in Nat, NEW b \in Nat, NEW p \in Nat, NEW q \in Nat, NEW v \in Nat
               PROVE  Reached(v, <<<<a, p>>, <<b, q>>, <<0, 0>>>>) \in Nat
    OBVIOUS
  <2> DEFINE steps == <<<<a, p>>, <<b, q>>, <<0, 0>>>>
  <2>1. steps[1] = <<a, p>> /\ steps[2] = <<b, q>> /\ steps[3] = <<0, 0>> /\ DOMAIN steps = 1 .. 3
    OBVIOUS
  <2> HIDE DEF steps
  <2>2. \E i \in DOMAIN steps : v >= steps[i][1] /\ \A j \in 1 .. i - 1 : v < steps[j][1]
    <3>1. CASE v >= a
      BY <2>1, <3>1
    <3>2. CASE v < a /\ v >= b
      <4>1. \A j \in 1 .. 2 - 1 : v < steps[j][1]
        BY <2>1, <3>2
      <4> QED
        BY <2>1, <3>2, <4>1
    <3>3. CASE v < a /\ v < b
      <4>1. \A j \in 1 .. 3 - 1 : v < steps[j][1]
        BY <2>1, <3>3
      <4> QED
        BY <2>1, <3>3, <4>1
    <3> QED
      BY <3>1, <3>2, <3>3
  <2>3. PICK i \in DOMAIN steps : Reached(v, steps) = steps[i][2]
    BY <2>2 DEF Reached
  <2>4. Reached(v, steps) \in Nat
    BY <2>1, <2>3
  <2> QED
    BY <2>4 DEF steps
<1>3. \A v \in Nat : Reached(v, Past5d) \in Nat
  BY <1>2 DEF Past5d
<1>4. \A r \in [peak : Nat, rl2 : Nat, rl5 : Nat] : river_points(r) \in Nat
  BY <1>2 DEF river_points
<1> QED
  BY <1>1, <1>3, <1>4

\* The places that points take are finitely many.
PlacesOf(f) == {f.id} \X (1 .. f.points)

\* What a factor says of its reading.
LEMMA Factors ==
    ASSUME NEW id, NEW points, NEW most, NEW absent, points = {} \/ \E p \in Nat : points = {p}
    PROVE  LET f == Factor(id, points, most, absent) IN
           /\ f.id = id /\ f.points \in Nat /\ f.status = (IF points = {} THEN absent ELSE "available")
           /\ IsFiniteSet(PlacesOf(f))
<1>1. PICK f : f = Factor(id, points, most, absent)
  OBVIOUS
<1>2. f.id = id /\ f.points \in Nat /\ f.status = (IF points = {} THEN absent ELSE "available")
  BY <1>1 DEF Factor
<1>3. IsFiniteSet(PlacesOf(f))
  <2>1. IsFiniteSet({f.id}) /\ IsFiniteSet(1 .. f.points)
    <3>1. IsFiniteSet(1 .. f.points)
      BY <1>2, FS_Interval
    <3> QED
      BY <3>1, FS_Singleton
  <2> QED
    BY <2>1, FS_Product DEF PlacesOf
<1> QED
  BY <1>1, <1>2, <1>3

\* More factors have no fewer points.
LEMMA TotalsGrow ==
    ASSUME NEW F, NEW G, F \subseteq G, IsFiniteSet(UNION {PlacesOf(f) : f \in G})
    PROVE  Total(F) \in Nat /\ Total(F) <= Total(G)
<1>1. UNION {PlacesOf(f) : f \in F} \subseteq UNION {PlacesOf(f) : f \in G}
  OBVIOUS
<1> QED
  BY <1>1, FS_Subset, FS_CardinalityType DEF Total, PlacesOf

\* What is missing is admitted, and what is there counts.
LEMMA Admits ==
    ASSUME NEW known \in Finding
    PROVE  /\ \A detail, river \in BOOLEAN :
                 LET shown == assess(known, detail, river) IN
                 /\ (known.rain = Unread) <=> shown.flood.level = "unavailable"
                 /\ known.rain = Unread => shown.drainage.score = Unread
                 /\ shown.flood.partial <=> \/ known.rain = Unread
                                            \/ detail /\ known.elevation = Unread
                                            \/ detail /\ river /\ known.river = Unread
           /\ LET cell == assess(known, FALSE, FALSE).flood
                  place == assess(known, TRUE, FALSE).flood
                  point == assess(known, TRUE, TRUE).flood
              IN \A g \in cell.score, a \in place.score, p \in point.score : g <= a /\ a <= p
<1> DEFINE one == rain24(known.rain)
           five == rain5d(known.rain)
           low == elevation_factor(known.elevation)
           past == history_factor(known.history)
           stream == river_factor(known.river)
<1>1. /\ known.rain \in Readings(Rains) /\ known.river \in Readings(Rivers) /\ known.elevation \in Readings(Int)
      /\ known.history \in HistoryRead
  BY DEF Finding
<1>2. /\ one.id = "rain24" /\ one.points \in Nat /\ IsFiniteSet(PlacesOf(one))
      /\ one.status = (IF known.rain = Unread THEN "unavailable" ELSE "available")
  <2> DEFINE points == {Reached(r.next24, IMD) : r \in known.rain}
  <2>1. (points = {} \/ \E p \in Nat : points = {p}) /\ (points = {} <=> known.rain = Unread)
    <3>1. CASE known.rain = Unread
      BY <3>1 DEF Unread
    <3>2. ASSUME NEW v \in Rains, known.rain = {v} PROVE (\E p \in Nat : points = {p}) /\ known.rain # Unread
      <4>1. points = {Reached(v.next24, IMD)} /\ Reached(v.next24, IMD) \in Nat
        BY <3>2, Points, ScreenAssumption
      <4> QED
        BY <3>2, <4>1 DEF Unread
    <3> QED
      BY <1>1, <3>1, <3>2 DEF Readings
  <2> HIDE DEF points
  <2>2. Factor("rain24", points, 4, "unavailable") = one
    BY DEF rain24, points
  <2> QED
    BY <2>1, <2>2, Factors
<1>3. /\ five.id = "rain5d" /\ five.points \in Nat /\ IsFiniteSet(PlacesOf(five))
      /\ five.status = (IF known.rain = Unread THEN "unavailable" ELSE "available")
  <2> DEFINE points == {Reached(r.past5d, Past5d) : r \in known.rain}
  <2>1. (points = {} \/ \E p \in Nat : points = {p}) /\ (points = {} <=> known.rain = Unread)
    <3>1. CASE known.rain = Unread
      BY <3>1 DEF Unread
    <3>2. ASSUME NEW v \in Rains, known.rain = {v} PROVE (\E p \in Nat : points = {p}) /\ known.rain # Unread
      <4>1. points = {Reached(v.past5d, Past5d)} /\ Reached(v.past5d, Past5d) \in Nat
        BY <3>2, Points, ScreenAssumption
      <4> QED
        BY <3>2, <4>1 DEF Unread
    <3> QED
      BY <1>1, <3>1, <3>2 DEF Readings
  <2> HIDE DEF points
  <2>2. Factor("rain5d", points, 2, "unavailable") = five
    BY DEF rain5d, points
  <2> QED
    BY <2>1, <2>2, Factors
<1>4. /\ low.id = "elevation" /\ low.points \in Nat /\ IsFiniteSet(PlacesOf(low))
      /\ low.status = (IF known.elevation = Unread THEN "unavailable" ELSE "available")
  <2> DEFINE points == {IF m < 10 THEN 1 ELSE 0 : m \in known.elevation}
  <2>1. (points = {} \/ \E p \in Nat : points = {p}) /\ (points = {} <=> known.elevation = Unread)
    BY <1>1 DEF Readings, Unread
  <2> HIDE DEF points
  <2>2. Factor("elevation", points, 1, "unavailable") = low
    BY DEF elevation_factor, points
  <2> QED
    BY <2>1, <2>2, Factors
<1>5. /\ past.id = "history" /\ past.points \in Nat /\ IsFiniteSet(PlacesOf(past)) /\ past.status \in {"no_data", "available"}
  <2> DEFINE points == {IF flooded THEN 1 ELSE 0 : flooded \in known.history}
  <2>1. points = {} \/ \E p \in Nat : points = {p}
    <3>1. CASE known.history = {}
      BY <3>1
    <3>2. CASE known.history = {TRUE}
      <4>1. points = {1}
        BY <3>2
      <4> QED
        BY <4>1
    <3> QED
      BY <1>1, <3>1, <3>2 DEF HistoryRead, Unread
  <2> HIDE DEF points
  <2>2. Factor("history", points, 1, "no_data") = past
    BY DEF history_factor, points
  <2> QED
    BY <2>1, <2>2, Factors
<1>6. /\ stream.id = "river" /\ stream.points \in Nat /\ IsFiniteSet(PlacesOf(stream))
      /\ stream.status = (IF known.river = Unread THEN "unavailable" ELSE "available")
  <2> DEFINE points == {river_points(r) : r \in known.river}
  <2>1. (points = {} \/ \E p \in Nat : points = {p}) /\ (points = {} <=> known.river = Unread)
    <3>1. CASE known.river = Unread
      BY <3>1 DEF Unread
    <3>2. ASSUME NEW v \in Rivers, known.river = {v} PROVE (\E p \in Nat : points = {p}) /\ known.river # Unread
      <4>1. points = {river_points(v)} /\ river_points(v) \in Nat
        BY <3>2, Points, ScreenAssumption
      <4> QED
        BY <3>2, <4>1 DEF Unread
    <3> QED
      BY <1>1, <3>1, <3>2 DEF Readings
  <2> HIDE DEF points
  <2>2. Factor("river", points, 3, "unavailable") = stream
    BY DEF river_factor, points
  <2> QED
    BY <2>1, <2>2, Factors
<1>7. Eased(one).id = "rain24" /\ Eased(one).status = one.status
  BY DEF Eased, rain24, Factor
<1> DEFINE flood(detail, river) == {one, five} \cup (IF detail THEN {low} ELSE {}) \cup (IF detail THEN {past} ELSE {})
                                   \cup (IF detail /\ river THEN {stream} ELSE {})
           all == {one, five, low, past, stream}
<1>8. \A detail, river \in BOOLEAN :
          /\ assess(known, detail, river).flood = summarise(flood(detail, river)) /\ flood(detail, river) \subseteq all
          /\ known.rain = Unread => assess(known, detail, river).drainage.score = Unread
  <2> SUFFICES ASSUME NEW detail \in BOOLEAN, NEW river \in BOOLEAN
               PROVE  /\ assess(known, detail, river).flood = summarise(flood(detail, river))
                      /\ flood(detail, river) \subseteq all
                      /\ known.rain = Unread => assess(known, detail, river).drainage.score = Unread
    OBVIOUS
  <2>1. assess(known, detail, river).flood = summarise(flood(detail, river))
    BY DEF assess
  <2>2. flood(detail, river) \subseteq all
    OBVIOUS
  <2>3. ASSUME known.rain = Unread PROVE assess(known, detail, river).drainage.score = Unread
    <3>1. PICK others : assess(known, detail, river).drainage = summarise({Eased(one)} \cup others)
      <4>1. assess(known, detail, river).drainage
            = summarise({Eased(one), intensity(known.rain)} \cup (IF detail THEN {low} ELSE {})
                        \cup (IF detail THEN {reports_factor(known.reports)} ELSE {}))
        BY DEF assess
      <4>2. {Eased(one), intensity(known.rain)} \cup (IF detail THEN {low} ELSE {})
                        \cup (IF detail THEN {reports_factor(known.reports)} ELSE {})
            = {Eased(one)} \cup ({intensity(known.rain)} \cup (IF detail THEN {low} ELSE {})
                        \cup (IF detail THEN {reports_factor(known.reports)} ELSE {}))
        OBVIOUS
      <4> QED
        BY <4>1, <4>2
    <3>2. Eased(one).status # "available" /\ Eased(one).id = "rain24"
      BY <1>2, <1>7, <2>3
    <3> QED
      BY <3>1, <3>2 DEF summarise
  <2> QED
    BY <2>1, <2>2, <2>3
<1>9. IsFiniteSet(UNION {PlacesOf(f) : f \in all})
  <2>1. {PlacesOf(f) : f \in all} = {PlacesOf(one), PlacesOf(five), PlacesOf(low), PlacesOf(past), PlacesOf(stream)}
    OBVIOUS
  <2>2. IsFiniteSet({PlacesOf(one), PlacesOf(five), PlacesOf(low), PlacesOf(past), PlacesOf(stream)})
    <3>1. IsFiniteSet({PlacesOf(one)}) /\ IsFiniteSet({PlacesOf(five)}) /\ IsFiniteSet({PlacesOf(low)})
          /\ IsFiniteSet({PlacesOf(past)}) /\ IsFiniteSet({PlacesOf(stream)})
      BY FS_Singleton
    <3>2. {PlacesOf(one), PlacesOf(five), PlacesOf(low), PlacesOf(past), PlacesOf(stream)}
          = (((({PlacesOf(one)} \cup {PlacesOf(five)}) \cup {PlacesOf(low)}) \cup {PlacesOf(past)}) \cup {PlacesOf(stream)})
      OBVIOUS
    <3>3. IsFiniteSet({PlacesOf(one)} \cup {PlacesOf(five)})
      BY <3>1, FS_Union
    <3>4. IsFiniteSet(({PlacesOf(one)} \cup {PlacesOf(five)}) \cup {PlacesOf(low)})
      BY <3>1, <3>3, FS_Union
    <3>5. IsFiniteSet((({PlacesOf(one)} \cup {PlacesOf(five)}) \cup {PlacesOf(low)}) \cup {PlacesOf(past)})
      BY <3>1, <3>4, FS_Union
    <3>6. IsFiniteSet(((({PlacesOf(one)} \cup {PlacesOf(five)}) \cup {PlacesOf(low)}) \cup {PlacesOf(past)}) \cup {PlacesOf(stream)})
      BY <3>1, <3>5, FS_Union
    <3> QED
      BY <3>2, <3>6
  <2>3. \A S \in {PlacesOf(one), PlacesOf(five), PlacesOf(low), PlacesOf(past), PlacesOf(stream)} : IsFiniteSet(S)
    BY <1>2, <1>3, <1>4, <1>5, <1>6
  <2> QED
    BY <2>1, <2>2, <2>3, FS_UNION
<1> HIDE DEF one, five, low, past, stream
<1>10. ASSUME NEW detail \in BOOLEAN, NEW river \in BOOLEAN
       PROVE  LET s == summarise(flood(detail, river)) IN
              /\ (known.rain = Unread) <=> s.level = "unavailable"
              /\ s.partial <=> \/ known.rain = Unread
                               \/ detail /\ known.elevation = Unread
                               \/ detail /\ river /\ known.river = Unread
              /\ s.score = IF known.rain = Unread THEN {} ELSE {Total(flood(detail, river))}
  <2>1. (\E f \in flood(detail, river) : f.id = "rain24" /\ f.status # "available") <=> known.rain = Unread
    BY <1>2, <1>3, <1>4, <1>5, <1>6
  <2>2. known.rain # Unread =>
          ((\E f \in flood(detail, river) : f.status = "unavailable")
           <=> (detail /\ known.elevation = Unread) \/ (detail /\ river /\ known.river = Unread))
    BY <1>2, <1>3, <1>4, <1>5, <1>6
  <2>3. level(Total(flood(detail, river))) # "unavailable"
    BY <1>8, <1>9, TotalsGrow, Levels
  <2> HIDE DEF flood
  <2> QED
    BY <2>1, <2>2, <2>3 DEF summarise, Unread
<1>11. /\ Total(flood(FALSE, FALSE)) <= Total(flood(TRUE, FALSE))
       /\ Total(flood(TRUE, FALSE)) <= Total(flood(TRUE, TRUE))
  <2>1. flood(FALSE, FALSE) \subseteq flood(TRUE, FALSE) /\ flood(TRUE, FALSE) \subseteq flood(TRUE, TRUE)
        /\ flood(TRUE, TRUE) = all
    OBVIOUS
  <2>2. IsFiniteSet(UNION {PlacesOf(f) : f \in flood(TRUE, TRUE)})
    BY <1>9, <2>1
  <2>3. UNION {PlacesOf(f) : f \in flood(TRUE, FALSE)} \subseteq UNION {PlacesOf(f) : f \in flood(TRUE, TRUE)}
    BY <2>1
  <2>4. IsFiniteSet(UNION {PlacesOf(f) : f \in flood(TRUE, FALSE)})
    BY <2>2, <2>3, FS_Subset
  <2> HIDE DEF flood, all
  <2> QED
    BY <2>1, <2>2, <2>4, TotalsGrow
<1> HIDE DEF flood, all
<1>12. \A detail, river \in BOOLEAN :
           LET shown == assess(known, detail, river) IN
           /\ (known.rain = Unread) <=> shown.flood.level = "unavailable"
           /\ known.rain = Unread => shown.drainage.score = Unread
           /\ shown.flood.partial <=> \/ known.rain = Unread
                                      \/ detail /\ known.elevation = Unread
                                      \/ detail /\ river /\ known.river = Unread
           /\ shown.flood.score = IF known.rain = Unread THEN {} ELSE {Total(flood(detail, river))}
  BY <1>8, <1>10
<1>13. ASSUME NEW g \in assess(known, FALSE, FALSE).flood.score, NEW a \in assess(known, TRUE, FALSE).flood.score,
              NEW p \in assess(known, TRUE, TRUE).flood.score
       PROVE  g <= a /\ a <= p
  <2>1. g = Total(flood(FALSE, FALSE)) /\ a = Total(flood(TRUE, FALSE)) /\ p = Total(flood(TRUE, TRUE))
    BY <1>12, <1>13
  <2> QED
    BY <1>11, <2>1
<1> QED
  BY <1>12, <1>13

\* What is kept of a cell admits what it lacks.
LEMMA Missing == IInv => MissingAdmitted
<1> SUFFICES ASSUME IInv, NEW k \in Key, body[k] # None, NEW c \in CellsOf(k)
             PROVE  LET known == body[k].known[c]
                        shown == Shown(k, c)
                        cell == assess(known, FALSE, FALSE).flood
                        place == assess(known, TRUE, FALSE).flood
                        point == assess(known, TRUE, TRUE).flood
                    IN  /\ (known.rain = Unread) <=> shown.flood.level = "unavailable"
                        /\ known.rain = Unread => shown.drainage.score = Unread
                        /\ shown.flood.partial <=>
                              \/ known.rain = Unread
                              \/ Kind[k] # "grid" /\ known.elevation = Unread
                              \/ Kind[k] = "point" /\ known.river = Unread
                        /\ \A g \in cell.score, a \in place.score, p \in point.score : g <= a /\ a <= p
  BY DEF MissingAdmitted
<1>1. PICK known \in Finding : known = body[k].known[c]
  BY DEF IInv, Kept
<1>2. PICK detail \in BOOLEAN, river \in BOOLEAN : detail = (Kind[k] # "grid") /\ river = (Kind[k] = "point")
  OBVIOUS
<1>3. Shown(k, c) = assess(known, detail, river)
  BY <1>1, <1>2 DEF Shown
<1>4. detail /\ river <=> Kind[k] = "point"
  BY <1>2
<1>5. LET shown == assess(known, detail, river) IN
      /\ (known.rain = Unread) <=> shown.flood.level = "unavailable"
      /\ known.rain = Unread => shown.drainage.score = Unread
      /\ shown.flood.partial <=> \/ known.rain = Unread
                                 \/ detail /\ known.elevation = Unread
                                 \/ detail /\ river /\ known.river = Unread
  BY Admits
<1>6. \A g \in assess(known, FALSE, FALSE).flood.score, a \in assess(known, TRUE, FALSE).flood.score,
         p \in assess(known, TRUE, TRUE).flood.score : g <= a /\ a <= p
  BY Admits
<1> QED
  BY <1>1, <1>2, <1>3, <1>4, <1>5, <1>6

\* Without its rain a cell has no level; what else is missing is admitted; and more
\* readings never score less.
THEOREM AdmitsWhatIsMissing == Spec => []MissingAdmitted
BY Invariant, Missing, PTL
===============================================================================
