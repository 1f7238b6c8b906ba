---------------------------- MODULE RiverForecast ----------------------------
(***************************************************************************)
(* The river flood forecast of backend/app/river_forecast.py, with the     *)
(* trained model of river_flood_model.py beside it.                        *)
(*                                                                         *)
(* One cached forecast of all checked river points, under one lock: the    *)
(* ensemble of GloFAS is read, then the rain for the trained model.  Of a  *)
(* day of the ensemble remains the share of its runs, in percent, above    *)
(* each flood level, and the median flow.                                  *)
(***************************************************************************)
EXTENDS Integers, Sequences, FiniteSets

CONSTANTS
    Request,        \* requests under way
    River,          \* checked river points
    Trained,        \* rivers of the trained model
    Used,           \* those where it beat the rain rule; a subset of Trained
    Ensembles,      \* what GloFAS may say: for each river, a sequence of days
    CacheSeconds,   \* CACHE_SECONDS
    FailureSeconds, \* FAILURE_SECONDS
    MaxClock,       \* bound
    None

VARIABLES
    clock,
    forecast,  \* cache: the last body, or None
    line,      \* the lock: who holds it and who waits
    reader,    \* what each request is doing
    ensemble   \* what was read of GloFAS for the body under way

riverVars == <<clock, forecast, line, reader, ensemble>>

-----------------------------------------------------------------------------
\* The day with the most runs above the 5-year level; then the 2-year level,
\* then the median decides, then the earlier day.
Peak(days) ==
    LET Above(d, e) == \/ d.five > e.five
                       \/ d.five = e.five /\ d.two > e.two
                       \/ d.five = e.five /\ d.two = e.two /\ d.median > e.median
        i == CHOOSE i \in DOMAIN days :
                 /\ \A j \in DOMAIN days : ~Above(days[j], days[i])
                 /\ \A j \in 1 .. i - 1 : Above(days[i], days[j])
    IN  days[i]

\* LEVEL_RULES, applied to the peak.
Level(day) ==
    IF day.five >= 50 THEN "severe" ELSE IF day.two >= 50 THEN "high"
    ELSE IF day.two >= 20 THEN "moderate" ELSE "low"

assess_point(days) == [level |-> Level(Peak(days)), peak |-> Peak(days), days |-> days]

\* What the trained model says of a river, for the rain of its catchment:
\* complete with a flood flagged or not, incomplete, or not to be had.
Ai(river, rain) ==
    IF river \notin Trained THEN "not_trained" ELSE IF river \notin Used THEN "not_used"
    ELSE IF rain \in {"likely", "unlikely"} THEN rain ELSE "unavailable"

Init ==
    /\ clock = 0 /\ forecast = None /\ line = <<>>
    /\ reader = [r \in Request |-> "idle"] /\ ensemble = <<>>

-----------------------------------------------------------------------------
Ask(r) ==
    /\ reader[r] = "idle"
    /\ reader' = [reader EXCEPT ![r] = "waiting"] /\ line' = Append(line, r)
    /\ UNCHANGED <<clock, forecast, ensemble>>

Turn(r) == reader[r] = "waiting" /\ Head(line) = r
Current == forecast # None /\ forecast.expires > clock

Leave(r) == reader' = [reader EXCEPT ![r] = "idle"] /\ line' = Tail(line)

Cached(r) ==
    /\ Turn(r) /\ Current /\ Leave(r)
    /\ UNCHANGED <<clock, forecast, ensemble>>

Begin(r) ==
    /\ Turn(r) /\ ~Current
    /\ reader' = [reader EXCEPT ![r] = "glofas"]
    /\ UNCHANGED <<clock, forecast, line, ensemble>>

\* A body without a forecast names no points.
Keep(seconds, points, ai, rain) ==
    forecast' = [expires |-> clock + seconds, points |-> points, ai |-> ai, rain |-> rain]

\* The ensemble is valid for every point, and the trained model is asked.
Glofas(r, days) ==
    /\ reader[r] = "glofas"
    /\ ensemble' = days
    /\ reader' = [reader EXCEPT ![r] = "ai"]
    /\ UNCHANGED <<clock, forecast, line>>

\* No answer, another cell, too few members, or too few days.
GlofasFails(r) ==
    /\ reader[r] = "glofas"
    /\ Keep(FailureSeconds, <<>>, <<>>, <<>>)
    /\ Leave(r)
    /\ UNCHANGED <<clock, ensemble>>

\* Whatever the rain for the trained model is, GloFAS is shown.  The rain is read
\* for all rivers at once; it may be incomplete for one of them.
Served(r, rain) ==
    /\ reader[r] = "ai"
    /\ Keep(CacheSeconds, [i \in River |-> assess_point(ensemble[i])],
            [i \in River |-> Ai(i, rain[i])], rain)
    /\ Leave(r) /\ ensemble' = <<>>
    /\ UNCHANGED clock

\* An answer that is no list of objects raises what neither the model nor the
\* forecast catches (AttributeError): the request fails and nothing is kept.
Malformed(r) ==
    /\ \/ reader[r] = "glofas"
       \/ reader[r] = "ai" /\ Used \cap River # {}
    /\ Leave(r) /\ ensemble' = <<>>
    /\ UNCHANGED <<clock, forecast>>

Tick ==
    /\ clock < MaxClock /\ clock' = clock + 1
    /\ UNCHANGED <<forecast, line, reader, ensemble>>

\* The rain that may be read: complete or not for each river, or none at all.
Rain == [River -> {"likely", "unlikely", "incomplete"}] \cup {[i \in River |-> "none"]}

Next ==
    \/ \E r \in Request :
          \/ Ask(r) \/ Cached(r) \/ Begin(r) \/ GlofasFails(r) \/ Malformed(r)
          \/ \E days \in Ensembles : Glofas(r, days)
          \/ \E rain \in Rain : Served(r, rain)
    \/ Tick

Spec == Init /\ [][Next]_riverVars

-----------------------------------------------------------------------------
(* Properties.                                                             *)

Rank == [low |-> 0, moderate |-> 1, high |-> 2, severe |-> 3]

\* The warning of the whole week is not lost in the choice of its peak: it is
\* severe if any day is, it is never higher than the worst day, and it is the
\* worst day's while no run of the ensemble is above the 5-year level.  (With some
\* runs above it on another day it may be less than the worst day's.)  Without the
\* ensemble nothing is said of any river, and without the rain of its catchment
\* the trained model says nothing: "failures are 'unavailable', never 'not
\* likely'" (river_flood_model.py:49).
ForecastStands ==
    forecast # None /\ forecast.points # <<>> => \A i \in River :
        LET shown == forecast.points[i]
            Days == {shown.days[n] : n \in DOMAIN shown.days} IN
        /\ shown.level = "severe" <=> \E day \in Days : day.five >= 50
        /\ \E day \in Days : Rank[Level(day)] >= Rank[shown.level]
        /\ (\A day \in Days : day.five = 0) =>
               \A day \in Days : Rank[Level(day)] <= Rank[shown.level]
        /\ forecast.ai[i] \in {"likely", "unlikely"} => i \in Used /\ forecast.ai[i] = forecast.rain[i]
===============================================================================
