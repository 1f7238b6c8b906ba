---------------------------- MODULE ReverseGeocoding ----------------------------
(***************************************************************************)
(* The name of the place around a location, from MapTiler: ReverseGeocoder *)
(* of backend/app/home_geocoding.py, when it is enabled.                   *)
(*                                                                         *)
(* One request at a time: what is in the cache is the answer; otherwise    *)
(* two calls are reserved in the hourly budget, for the place and for its  *)
(* outline, and the answer to both is checked and kept.                    *)
(***************************************************************************)
EXTENDS Integers, Sequences, FiniteSets

CONSTANTS
    Request, Point,
    Quota,       \* MAPTILER_GEOCODING_HOURLY_BUDGET
    Hour,
    Gap,         \* seconds between jobs, not none: no two of them begin at once
    CacheSize, CacheSeconds,
    Pauses,      \* how long a failing provider may ask to be left alone, a minute at least
    Timeout,     \* of both calls together
    MaxClock,    \* bound
    None

VARIABLES
    clock,
    names,   \* cache
    calls,   \* when jobs of the last hour began: two calls are reserved for each
    cooldown_until,
    namers,  \* lock: who holds it and who waits
    naming,  \* what each request is doing
    made     \* history: when jobs began |-> when they asked for an outline, and failures

nameVars == <<clock, names, calls, cooldown_until, namers, naming, made>>

-----------------------------------------------------------------------------
Idle == [pc |-> "idle", point |-> None, began |-> 0]

Current == SelectSeq(names, LAMBDA e : e.expires > clock)
Cached(p) == \E i \in DOMAIN Current : Current[i].point = p
ThisHour == {t \in calls : t > clock - Hour}

\* Room for two calls, a while after the last, and no failure lately.
Budget == /\ clock >= cooldown_until /\ 2 * Cardinality(ThisHour) + 2 <= Quota
          /\ \A t \in ThisHour : clock - t >= Gap

Init ==
    /\ clock = 0 /\ names = <<>> /\ calls = {} /\ cooldown_until = 0 /\ namers = <<>>
    /\ naming = [r \in Request |-> Idle] /\ made = [jobs |-> <<>>, failures |-> {}]

-----------------------------------------------------------------------------
Ask(r, p) ==
    /\ naming[r].pc = "idle"
    /\ naming' = [naming EXCEPT ![r] = [pc |-> "waiting", point |-> p, began |-> 0]]
    /\ namers' = Append(namers, r)
    /\ UNCHANGED <<clock, names, calls, cooldown_until, made>>

Turn(r) == naming[r].pc = "waiting" /\ Head(namers) = r
Leave(r) == naming' = [naming EXCEPT ![r] = Idle] /\ namers' = Tail(namers)

Known(r) ==
    /\ Turn(r) /\ Cached(naming[r].point)
    /\ names' = Current /\ Leave(r)
    /\ UNCHANGED <<clock, calls, cooldown_until, made>>

\* Told to select a town; this answer is not kept.
OverBudget(r) ==
    /\ Turn(r) /\ ~Cached(naming[r].point) /\ ~Budget
    /\ names' = Current /\ calls' = ThisHour /\ Leave(r)
    /\ UNCHANGED <<clock, cooldown_until, made>>

Begin(r) ==
    /\ Turn(r) /\ ~Cached(naming[r].point) /\ Budget
    /\ names' = Current /\ calls' = ThisHour \cup {clock}
    /\ naming' = [naming EXCEPT ![r].pc = "place", ![r].began = clock]
    /\ made' = [made EXCEPT !.jobs = [t \in DOMAIN made.jobs \cup {clock} |-> IF t = clock THEN None ELSE made.jobs[t]]]
    /\ UNCHANGED <<clock, cooldown_until, namers>>

\* One locality with an identifier: its outline is asked for.
Locality(r) ==
    /\ naming[r].pc = "place"
    /\ naming' = [naming EXCEPT ![r].pc = "outline"]
    /\ made' = [made EXCEPT !.jobs = [made.jobs EXCEPT ![naming[r].began] = clock]]
    /\ UNCHANGED <<clock, names, calls, cooldown_until, namers>>

Keep(r, status) ==
    LET e == [point |-> naming[r].point, expires |-> clock + CacheSeconds, status |-> status]
        all == Append(names, e) IN
    /\ names' = IF Len(all) > CacheSize THEN Tail(all) ELSE all
    /\ Leave(r)

\* validate_name: a place of the state whose outline covers the whole circle.
Named(r) ==
    /\ naming[r].pc = "outline"
    /\ Keep(r, "available")
    /\ UNCHANGED <<clock, calls, cooldown_until, made>>

\* No single locality, an answer that does not hold, or no time left.
Unverified(r) ==
    /\ naming[r].pc \in {"place", "outline"}
    /\ Keep(r, "unavailable")
    /\ UNCHANGED <<clock, calls, cooldown_until, made>>

SourceFailure(r, pause) ==
    /\ naming[r].pc \in {"place", "outline"}
    /\ cooldown_until' = clock + pause
    /\ Keep(r, "unavailable")
    /\ made' = [made EXCEPT !.failures = @ \cup {[at |-> clock, pause |-> pause]}]
    /\ UNCHANGED <<clock, calls>>

Tick ==
    /\ clock < MaxClock /\ (\A r \in Request : naming[r].pc \in {"place", "outline"} => naming[r].began + Timeout > clock)
    /\ clock' = clock + 1
    /\ UNCHANGED <<names, calls, cooldown_until, namers, naming, made>>

Next ==
    \/ \E r \in Request :
          \/ \E p \in Point : Ask(r, p)
          \/ Known(r) \/ OverBudget(r) \/ Begin(r) \/ Locality(r) \/ Named(r) \/ Unverified(r)
          \/ \E pause \in Pauses : SourceFailure(r, pause)
    \/ Tick

Spec == Init /\ [][Next]_nameVars

-----------------------------------------------------------------------------
(* Properties.                                                             *)

\* What the provider really gets: in an hour no more calls than the budget and
\* one, the outline of a job that was reserved before it ("Reserve two calls,
\* at most one job every 2s", home_geocoding.py:79); jobs apart; and none while it
\* has asked to be left alone, whoever was waiting when it did.
MapTilerSpared ==
    LET jobs == made.jobs
        placed == {t \in DOMAIN jobs : t > clock - Hour}
        outlined == {t \in DOMAIN jobs : jobs[t] # None /\ jobs[t] > clock - Hour} IN
    /\ Cardinality(placed) + Cardinality(outlined) <= Quota + 1
    /\ \A t, u \in DOMAIN jobs : t < u => u - t >= Gap
    /\ \A f \in made.failures, t \in DOMAIN jobs : ~(f.at < t /\ t < f.at + f.pause)
===============================================================================
