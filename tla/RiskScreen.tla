------------------------------ MODULE RiskScreen ------------------------------
(***************************************************************************)
(* The risk screen: RiskService of backend/app/risk.py.                    *)
(*                                                                         *)
(* A request asks for a key: the statewide grid, the area around a point,  *)
(* or a point.  It waits for the key's lock, is given the cached body if   *)
(* that has not expired, and otherwise reads the sources: first the rain   *)
(* of every cell, then, but for the grid, what is known of the ground.  A  *)
(* call that fails in passing is repeated after a pause.                   *)
(***************************************************************************)
EXTENDS RiskScores, FiniteSets

CONSTANTS
    Request,   \* requests under way
    Key,       \* what may be asked for
    Kind,      \* of a key: "grid", "area" or "point"
    Cells,     \* of a key, in order; the rain of each is one call (a chunk of the code)
    Height,    \* of a cell
    Rains,     \* rain that may be read
    Rivers,    \* river flow that may be read
    FullTtl,   \* of a kind: GRID_TTL, POINT_TTL
    PartTtl,   \* PARTIAL_TTL
    FailTtl,   \* 60 seconds
    Attempts,  \* 1 + Len(RETRY_DELAYS)
    Waits,     \* how long the pause before another attempt may be
    Timeout,   \* of a call
    MaxClock,  \* bound
    None

CellsOf(k) == {Cells[k][i] : i \in DOMAIN Cells[k]}
Cell == UNION {CellsOf(k) : k \in Key}
CallId == Cell \cup {"river", "elevation"}

\* A list names no cell twice; a pause may be long, but there is a longest.
ASSUME ScreenAssumption ==
    /\ Kind \in [Key -> {"grid", "area", "point"}] /\ Cells \in [Key -> Seq(Cell) \ {<<>>}]
    /\ \A k \in Key : \A i, j \in DOMAIN Cells[k] : Cells[k][i] = Cells[k][j] => i = j
    /\ \A k \in Key : Kind[k] = "point" => Len(Cells[k]) = 1
    /\ {"river", "elevation"} \cap Cell = {} /\ Height \in [Cell -> Int]
    /\ Rains \subseteq [next24 : Nat, past5d : Nat, peak : Nat] /\ Rivers \subseteq [peak : Nat, rl2 : Nat, rl5 : Nat]
    /\ Waits \subseteq Nat \ {0} /\ (\E w \in Waits : \A v \in Waits : v <= w) /\ Timeout \in Nat
    /\ {Attempts, FailTtl, PartTtl} \subseteq Nat \ {0} /\ FullTtl \in [{"grid", "area", "point"} -> Nat \ {0}]
    /\ None \notin Request \cup Key

VARIABLES
    clock,
    body,      \* grid_cache, point_cache, area_cache
    queue,     \* the locks: of each key, who holds it and who waits
    task,      \* what each request is doing
    height,    \* elevation_cache: cells whose height is known
    levels,    \* river_history: whether the river's levels are in memory
    file       \* history_file: "none", "whole", or "torn" by a crash

screenVars == <<clock, body, queue, task, height, levels, file>>

-----------------------------------------------------------------------------
Off == [pc |-> "off", n |-> 0, due |-> 0]
Queued == [Off EXCEPT !.pc = "queued"]
Done == [Off EXCEPT !.pc = "done"]
Failed == [Off EXCEPT !.pc = "failed"]
Asking(n) == [pc |-> "asking", n |-> n, due |-> clock + Timeout]

Idle == [pc |-> "idle", key |-> None, retrieved |-> 0, call |-> [c \in CallId |-> Off],
         rain |-> [c \in Cell |-> Unread], river |-> Unread, step |-> "levels"]

Fresh(k) == body[k] # None /\ body[k].expires > clock

\* The lock is held, and what is cached has expired.
MustRead(r) == ~Fresh(task[r].key)

Turn(r) == task[r].pc = "waiting" /\ Head(queue[task[r].key]) = r

InFlight(r) == {c \in CallId : task[r].call[c].pc \in {"asking", "sleeping"}}

\* Rain calls at the same time: GRID_CONCURRENCY, or one after the other.
Width(kind) == IF kind = "grid" THEN 2 ELSE 1

\* Calls that are repeated when they fail in passing.
Patient(r, c) == c \in Cell \/ (c = "elevation" /\ Kind[task[r].key] = "area")

Over(r) == \A c \in CallId : task[r].call[c].pc \in {"off", "done", "failed"}

\* Mutant: a failure is kept as what is partly known.
AsPart(kind, available, all) == IF available = all THEN FullTtl[kind] ELSE PartTtl

\* For how long a body is kept.
Ttl(kind, available, all) ==
    IF available = all THEN FullTtl[kind] ELSE IF available > 0 THEN PartTtl ELSE FailTtl

Init ==
    /\ clock = 0 /\ body = [k \in Key |-> None] /\ queue = [k \in Key |-> <<>>]
    /\ task = [r \in Request |-> Idle] /\ height = {} /\ levels = FALSE /\ file = "none"

-----------------------------------------------------------------------------
Ask(r, k) ==
    /\ task[r].pc = "idle"
    /\ task' = [task EXCEPT ![r].pc = "waiting", ![r].key = k]
    /\ queue' = [queue EXCEPT ![k] = Append(@, r)]
    /\ UNCHANGED <<clock, body, height, levels, file>>

Leave(r) ==
    /\ queue' = [queue EXCEPT ![task[r].key] = Tail(@)]
    /\ task' = [task EXCEPT ![r] = Idle]

\* The cached body is the answer.
Cached(r) ==
    /\ Turn(r) /\ ~MustRead(r)
    /\ Leave(r)
    /\ UNCHANGED <<clock, body, height, levels, file>>

\* The sources are read anew; the reading is dated before it.
Begin(r) ==
    /\ Turn(r) /\ MustRead(r)
    /\ task' = [task EXCEPT ![r].pc = "rain", ![r].retrieved = clock,
           ![r].call = [c \in CallId |-> IF c \in CellsOf(task[r].key) THEN Queued ELSE Off]]
    /\ UNCHANGED <<clock, body, queue, height, levels, file>>

\* The places in the list of the cells whose turn has not come.
Left(r) == {i \in DOMAIN Cells[task[r].key] : task[r].call[Cells[task[r].key][i]].pc = "queued"}

Start(r) ==
    /\ task[r].pc = "rain" /\ Cardinality(InFlight(r)) < Width(Kind[task[r].key])
    /\ \E i \in Left(r) :
          /\ \A j \in Left(r) : i <= j
          /\ task' = [task EXCEPT ![r].call[Cells[task[r].key][i]] = Asking(1)]
    /\ UNCHANGED <<clock, body, queue, height, levels, file>>

\* The rain of a cell, or nothing unless each of the past 120 hours and the next 24
\* is there and valid.
parse_rain == {{rain} : rain \in Rains} \cup {Unread}

\* _rain_many: an answer that is of no use for a cell is not asked for again.
Rain(r, c, reading) ==
    /\ c \in Cell /\ task[r].call[c].pc = "asking"
    /\ task' = [task EXCEPT ![r].call[c] = IF reading = Unread THEN Failed ELSE Done, ![r].rain[c] = reading]
    /\ UNCHANGED <<clock, body, queue, height, levels, file>>

\* elevation, elevation_many: heights are kept for good.
Elevation(r) ==
    /\ task[r].call["elevation"].pc = "asking"
    /\ task' = [task EXCEPT ![r].call["elevation"] = Done]
    /\ height' = height \cup CellsOf(task[r].key)
    /\ UNCHANGED <<clock, body, queue, levels, file>>

\* river_levels, then the flow of the next days.
RiverLevels(r) ==
    /\ task[r].call["river"].pc = "asking" /\ task[r].step = "levels"
    /\ task' = [task EXCEPT ![r].call["river"] = Asking(1), ![r].step = "forecast"]
    /\ levels' = TRUE /\ file' = "whole"
    /\ UNCHANGED <<clock, body, queue, height>>

RiverFlow(r, flow) ==
    /\ task[r].call["river"].pc = "asking" /\ task[r].step = "forecast"
    /\ task' = [task EXCEPT ![r].call["river"] = Done, ![r].river = {flow}]
    /\ UNCHANGED <<clock, body, queue, height, levels, file>>

\* The levels cannot be written to their file: an error nobody catches ends the
\* request, and gives up the lock.
Unwritable(r) ==
    /\ task[r].call["river"].pc = "asking" /\ task[r].step = "levels"
    /\ Leave(r)
    /\ file' \in {file, "torn"}
    /\ UNCHANGED <<clock, body, height, levels>>

Again(r, c, passing) == passing /\ Patient(r, c) /\ task[r].call[c].n < Attempts

\* retrying: a call fails, in passing (TRANSIENT, which a timeout is) or not.
Fail(r, c, passing) ==
    /\ task[r].call[c].pc = "asking"
    /\ IF Again(r, c, passing)
       THEN \E w \in Waits : task' = [task EXCEPT ![r].call[c].pc = "sleeping", ![r].call[c].due = clock + w]
       ELSE task' = [task EXCEPT ![r].call[c] = Failed]
    /\ UNCHANGED <<clock, body, queue, height, levels, file>>

Wake(r, c) ==
    /\ task[r].call[c].pc = "sleeping" /\ task[r].call[c].due = clock
    /\ task' = [task EXCEPT ![r].call[c] = Asking(@.n + 1)]
    /\ UNCHANGED <<clock, body, queue, height, levels, file>>

\* Rain is read.  Levels are looked for in memory, then in the file, which is
\* no use when it is torn; heights only where they are not known.
Ground(r) ==
    LET k == task[r].key
        known == levels \/ file = "whole" IN
    /\ task[r].pc = "rain" /\ Over(r) /\ Kind[k] # "grid"
    /\ task' = [task EXCEPT ![r].pc = "ground",
           ![r].step = IF known THEN "forecast" ELSE "levels",
           ![r].call["river"] = IF Kind[k] = "point" THEN Asking(1) ELSE Off,
           ![r].call["elevation"] = IF CellsOf(k) \subseteq height THEN Done ELSE Asking(1)]
    /\ levels' = (levels \/ (Kind[k] = "point" /\ file = "whole"))
    /\ UNCHANGED <<clock, body, queue, height, file>>

\* elevation has no height when its own call failed; elevation_many looks again.
Missed(r) == Kind[task[r].key] = "point" /\ task[r].call["elevation"].pc = "failed"

\* historical_context_many: none if the maps cannot be read or do not cover the
\* cell.  No time passes while they, and the database, are read.
HistoryRead == {Unread, {TRUE}}

\* approved_report_counts: none if the database is out of reach.
ReportsRead == {Unread, {3}}

\* What a reading found of a cell.
Known(r, c, history, reports) ==
    [rain |-> task[r].rain[c], river |-> task[r].river,
     elevation |-> IF c \in height /\ ~Missed(r) THEN {Height[c]} ELSE Unread,
     history |-> history, reports |-> reports]

\* Kept from the end of the reading, not from its date.
Expiry(r, ttl) == clock + ttl

\* grid, area, point: the body is put together, kept and given.
Finish(r, history, reports) ==
    LET k == task[r].key
        available == Cardinality({c \in CellsOf(k) : task[r].rain[c] # Unread})
        ttl == Ttl(Kind[k], available, Len(Cells[k])) IN
    /\ task[r].pc \in {"rain", "ground"} /\ Over(r)
    /\ Kind[k] = "grid" <=> task[r].pc = "rain"
    /\ body' = [body EXCEPT ![k] =
           [retrieved |-> task[r].retrieved, expires |-> Expiry(r, ttl), ttl |-> ttl,
            known |-> [c \in CellsOf(k) |-> Known(r, c, history, reports)]]]
    /\ Leave(r)
    /\ UNCHANGED <<clock, height, levels, file>>

\* Nothing waits that could go on without time passing.
Prompt ==
    \A r \in Request :
        /\ \A c \in InFlight(r) : task[r].call[c].due > clock
        /\ task[r].pc \in {"rain", "ground"} => ~Over(r)
        /\ ~Turn(r)
        /\ task[r].pc = "rain" /\ Left(r) # {} => Cardinality(InFlight(r)) >= Width(Kind[task[r].key])

Tick ==
    /\ clock < MaxClock /\ Prompt /\ clock' = clock + 1
    /\ UNCHANGED <<body, queue, task, height, levels, file>>

\* The process ends, maybe while it writes the levels, and starts again.
Restart ==
    /\ body' = [k \in Key |-> None] /\ queue' = [k \in Key |-> <<>>]
    /\ task' = [r \in Request |-> Idle] /\ height' = {} /\ levels' = FALSE
    /\ \/ file' = file
       \/ /\ \E r \in Request : task[r].call["river"].pc = "asking" /\ task[r].step = "levels"
          /\ file' = "torn"
    /\ UNCHANGED clock

\* What is shown of a cell of a kept body.
Shown(k, c) == assess(body[k].known[c], Kind[k] # "grid", Kind[k] = "point")

Next ==
    \/ \E r \in Request :
          \/ \E k \in Key : Ask(r, k)
          \/ Cached(r) \/ Begin(r) \/ Start(r) \/ Ground(r)
          \/ Elevation(r) \/ RiverLevels(r) \/ Unwritable(r)
          \/ \E v \in Rivers : RiverFlow(r, v)
          \/ \E c \in CallId :
                \/ Wake(r, c)
                \/ \E passing \in BOOLEAN : Fail(r, c, passing)
                \/ \E reading \in parse_rain : Rain(r, c, reading)
          \/ \E history \in HistoryRead, reports \in ReportsRead : Finish(r, history, reports)
    \/ Tick \/ Restart

Spec == Init /\ [][Next]_screenVars

-----------------------------------------------------------------------------
(* Properties.                                                             *)

\* The time that calls may take: the attempts and the pauses between them.
CallTime == Attempts * Timeout + (Attempts - 1) * (CHOOSE w \in Waits : \A v \in Waits : v <= w)
Rounds(k) == IF Kind[k] = "grid" THEN (Len(Cells[k]) + 1) \div 2 ELSE Len(Cells[k])
ReadingTime(k) == Rounds(k) * CallTime + (CASE Kind[k] = "grid" -> 0
                                            [] Kind[k] = "area" -> CallTime
                                            [] Kind[k] = "point" -> 2 * Timeout)

Unrained(k) == {c \in CellsOf(k) : body[k].known[c].rain = Unread}

\* A body is given for no longer than it says of itself that it is fresh, and the
\* time its reading may take: less than PARTIAL_TTL if rain is missing somewhere,
\* a minute if it is missing everywhere ("retried soon instead of being served
\* for three hours", risk.py:37).
ServedInTime ==
    \A k \in Key : body[k] # None /\ body[k].expires > clock =>
        clock < body[k].retrieved + ReadingTime(k) +
            (IF Unrained(k) = {} THEN FullTtl[Kind[k]]
             ELSE IF Unrained(k) # CellsOf(k) THEN PartTtl ELSE FailTtl)

\* However many requests come for the same thing, one of them reads, none while
\* a body that still serves is there, with no more calls at once and no more
\* attempts than the provider bears (risk.py:35, 38).
ProviderSpared ==
    \A r \in Request : task[r].pc \in {"rain", "ground"} =>
        /\ \A q \in Request \ {r} : task[q].key = task[r].key => task[q].pc = "waiting"
        /\ body[task[r].key] # None => body[task[r].key].expires <= task[r].retrieved
        /\ Cardinality({c \in InFlight(r) : c \in Cell}) <= (IF Kind[task[r].key] = "grid" THEN 2 ELSE 1)
        /\ \A c \in CallId : task[r].call[c].n <= Attempts

\* "Missing inputs are reported as unavailable and never scored as zero risk"
\* (risk.py:6): without its rain a cell has no level and no score; what else
\* is missing is admitted; and the grid never shows more than the area, nor
\* the area more than the point, would for the same readings.
MissingAdmitted ==
    \A k \in Key : body[k] # None => \A c \in CellsOf(k) :
        LET known == body[k].known[c]
            shown == Shown(k, c)
            cell == assess(known, FALSE, FALSE).flood
            place == assess(known, TRUE, FALSE).flood
            point == assess(known, TRUE, TRUE).flood
        IN  /\ (known.rain = Unread) <=> shown.flood.level = "unavailable"
            /\ known.rain = Unread => shown.drainage.score = Unread
            /\ shown.flood.partial <=>
                  \/ known.rain = Unread
                  \/ Kind[k] # "grid" /\ known.elevation = Unread
                  \/ Kind[k] = "point" /\ known.river = Unread
            /\ \A g \in cell.score, a \in place.score, p \in point.score : g <= a /\ a <= p
===============================================================================
