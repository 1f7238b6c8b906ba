------------------------------ MODULE WeatherFeeds ------------------------------
(***************************************************************************)
(* The weather of a place (backend/app/weather.py, location_weather.py)    *)
(* and the outlook of the trained rainfall model (rainfall_outlook.py,     *)
(* rainfall_features.py).                                                  *)
(*                                                                         *)
(* Each request is one call of the provider, which answers for its own     *)
(* hour; the answer is judged by the clock when it is read.  The hour, and *)
(* with it the day or the week, may change in between.  Nothing is kept.   *)
(*                                                                         *)
(* Time is in hours, a day has Day of them and the week Week days.         *)
(***************************************************************************)
EXTENDS Integers, FiniteSets

CONSTANTS
    Day, Week,
    Window,    \* hours of rain the outlook needs
    Past,      \* past_hours it asks for; more than Window
    MaxClock,  \* bound
    None

VARIABLES
    clock,
    asking,   \* of each endpoint: the hour its call was made, or None
    weather,  \* the answers given last
    outlook

feedVars == <<clock, asking, weather, outlook>>

-----------------------------------------------------------------------------
Dates(hour) == hour \div Day .. hour \div Day + Week - 1

\* The days a forecast must be for: seven from the day it is read.
Expected(payload, retrieved) == Dates(retrieved)

Worth == {"all", "some", "none"}

\* The provider may leave the last day out, and values of the current hour and of
\* any day.  What is not even well formed (units, order, ranges) is a failure.
Payload(hour) ==
    UNION {[hour : {hour}, at : {hour - 2, hour}, now : Worth,
            days : [days -> Worth], hourly : {"whole", "bad", "absent"}] :
           days \in {Dates(hour), Dates(hour) \ {hour \div Day + Week - 1}}}

Unavailable == [status |-> "unavailable"]

\* A series that is bad or absent is given as such, and takes nothing else away.
parse_hourly(payload) ==
    CASE payload.hourly = "whole" -> "available" [] payload.hourly = "bad" -> "invalid" [] OTHER -> "missing"

\* Values that are missing stay so.
parse_weather(payload, retrieved) ==
    LET days == DOMAIN payload.days
        expected == Expected(payload, retrieved)
        valid == {d \in days : payload.days[d] # "none"}
        whole == /\ expected \subseteq valid /\ payload.now = "all"
                 /\ \A d \in days : payload.days[d] = "all" IN
    IF ~(days \subseteq expected) \/ (valid = {} /\ payload.now = "none")
    THEN Unavailable
    ELSE [status |-> IF whole THEN "available" ELSE "partial",
          retrieved |-> retrieved, forecast |-> payload.days, missing |-> expected \ valid,
          now |-> payload.now, stale |-> retrieved - payload.at > 1, at |-> payload.at,
          hourly |-> parse_hourly(payload)]

\* parse_hourly of the rainfall model: hours that follow one another, each with its
\* values or without some of them; if an hour is left out there are none.
Rows(series) ==
    IF \E first, last \in DOMAIN series : DOMAIN series = first .. last THEN {h \in DOMAIN series : series[h]} ELSE {}

\* past_features: every hour of the window, whole.
Complete(rows, hours) == hours \subseteq rows

\* rainfall_outlook: the horizon begins at the next full hour, the window ends with
\* the last one; rows are the hours the provider has all values of.
predict(rows, retrieved) ==
    LET cutoff == retrieved + 1
        hours == cutoff - Window .. cutoff - 1 IN
    IF ~Complete(rows, hours) THEN Unavailable
    ELSE [status |-> "available", from |-> cutoff, rows |-> rows \cap hours]

Init == clock = 0 /\ asking = [e \in {"weather", "outlook"} |-> None] /\ weather = Unavailable /\ outlook = Unavailable

-----------------------------------------------------------------------------
\* Both coordinates, or none, and for the outlook a point the model was trained for;
\* there is no answer yet.
Ask(e) ==
    /\ asking[e] = None /\ asking' = [asking EXCEPT ![e] = clock]
    /\ weather' = (IF e = "weather" THEN Unavailable ELSE weather)
    /\ outlook' = (IF e = "outlook" THEN Unavailable ELSE outlook)
    /\ UNCHANGED clock

Asked(e) == asking[e] # None /\ asking' = [asking EXCEPT ![e] = None]

\* The provider's hour is one between the call and the reading of its answer.
Weather ==
    /\ Asked("weather")
    /\ \E hour \in asking["weather"] .. clock : \E payload \in Payload(hour) : weather' = parse_weather(payload, clock)
    /\ UNCHANGED <<clock, outlook>>

Rainfall ==
    /\ Asked("outlook")
    /\ \E hour \in asking["outlook"] .. clock : \E lost, short \in {{}} \cup {{h} : h \in hour - Past .. hour} :
          outlook' = predict(Rows([h \in (hour - Past .. hour) \ lost |-> h \notin short]), clock)
    /\ UNCHANGED <<clock, weather>>

\* Too many requests, another refusal, no answer in ten seconds, no network, or an
\* answer that is not well formed.
WeatherFails == Asked("weather") /\ weather' = Unavailable /\ UNCHANGED <<clock, outlook>>
OutlookFails == Asked("outlook") /\ outlook' = Unavailable /\ UNCHANGED <<clock, weather>>

\* A call takes ten seconds at most: one change of the hour.
Tick ==
    /\ clock < MaxClock /\ (\A e \in DOMAIN asking : asking[e] \in {None, clock})
    /\ clock' = clock + 1
    /\ UNCHANGED <<asking, weather, outlook>>

Next == Weather \/ Rainfall \/ WeatherFails \/ OutlookFails \/ Tick \/ \E e \in DOMAIN asking : Ask(e)

Spec == Init /\ [][Next]_feedVars

-----------------------------------------------------------------------------
(* Properties.                                                             *)

\* A forecast is for the days from the one it is read on, though it may have been
\* asked for and made the day before; a day it does not know is missing and makes
\* it partial, and an old reading is called stale.  The outlook rests on each hour
\* of its window, all of them before its horizon begins; else there is none
\* ("Missing values are never filled", rainfall_features.py:1).
FeedsCurrent ==
    /\ weather.status # "unavailable" =>
           LET today == weather.retrieved \div Day
               known == {d \in DOMAIN weather.forecast : weather.forecast[d] # "none"} IN
           /\ known \cup weather.missing = today .. today + Week - 1 /\ known \cap weather.missing = {}
           /\ weather.status = "available" <=> /\ weather.now = "all"
                                               /\ {d \in known : weather.forecast[d] = "all"} = today .. today + Week - 1
           /\ weather.stale <=> weather.at < weather.retrieved - 1
    /\ outlook.status = "available" =>
           Cardinality(outlook.rows) = Window /\ \A h \in outlook.rows : h < outlook.from /\ h >= outlook.from - Window
===============================================================================
