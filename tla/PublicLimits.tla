----------------------------- MODULE PublicLimits -----------------------------
(***************************************************************************)
(* The request limits of the public endpoints (backend/app/rate_limit.py)  *)
(* and the daily allowance of the route endpoint behind them (routing.py). *)
(*                                                                         *)
(* Requests of an address are counted in a sliding window, for expensive   *)
(* endpoints and for the rest apart.  So many keys are tracked and no      *)
(* more: the one unused for longest is forgotten with its count.           *)
(***************************************************************************)
EXTENDS Integers, Sequences, FiniteSets

CONSTANTS
    Address,
    Path,        \* path |-> "expensive", "public", or "none": not counted
    Limit,       \* rules: requests of a kind in a window
    Window,      \* seconds
    MaxTracked,  \* MAX_TRACKED
    DailyLimit,  \* FLOODPULSE_ROUTE_DAILY_LIMIT
    Day,         \* length of a UTC day
    MaxClock,    \* bound
    MaxAsked     \* bound: requests in all

VARIABLES
    clock,
    hits,     \* tracked keys, the one unused for longest first
    quota,    \* DailyQuota: day and used
    routing,  \* route requests past the limit that have not asked for a route yet
    asked,    \* history of the counted requests; wait is 0 for one let through
    routes    \* history: when routes were asked for

limitVars == <<clock, hits, quota, routing, asked, routes>>

-----------------------------------------------------------------------------
group(path) == Path[path]

Tracked(key) == {i \in DOMAIN hits : hits[i].key = key}

\* Mutant: a used key keeps its place.
KeepPlace(key) ==
    IF Tracked(key) # {} THEN hits
    ELSE Append(IF Len(hits) >= MaxTracked THEN Tail(hits) ELSE hits, [key |-> key, at |-> <<>>])

\* The key is moved or added to the end, at the cost of the first.
Touch(key) ==
    LET i == CHOOSE i \in Tracked(key) : TRUE
        all == Append(hits, [key |-> key, at |-> <<>>])
    IN  IF Tracked(key) # {} THEN Append(SubSeq(hits, 1, i - 1) \o SubSeq(hits, i + 1, Len(hits)), hits[i])
        ELSE IF Len(all) > MaxTracked THEN Tail(all) ELSE all

\* Hits leave from the front until the first is in the window.
Old(times, n) == times[n] <= clock - Window
Recent(times) ==
    LET gone == CHOOSE n \in 0 .. Len(times) : (\A i \in 1 .. n : Old(times, i)) /\ (n < Len(times) => ~Old(times, n + 1))
    IN  SubSeq(times, gone + 1, Len(times))

Init ==
    /\ clock = 0 /\ hits = <<>> /\ quota = [day |-> -1, used |-> 0]
    /\ routing = 0 /\ asked = <<>> /\ routes = <<>>

-----------------------------------------------------------------------------
\* RateLimiter.check, called by the middleware before the endpoint.
Check(path, address) ==
    LET key == <<group(path), address>>
        table == Touch(key)
        i == CHOOSE i \in DOMAIN table : table[i].key = key
        recent == Recent(table[i].at)
        admitted == Len(recent) < Limit[group(path)]
        wait == IF admitted THEN 0 ELSE recent[1] + Window - clock
    IN
    /\ group(path) # "none" /\ Len(asked) < MaxAsked
    /\ hits' = [table EXCEPT ![i].at = IF admitted THEN Append(recent, clock) ELSE recent]
    /\ asked' = Append(asked, [key |-> key, at |-> clock, wait |-> wait])
    /\ routing' = IF admitted /\ path = "/api/route" THEN routing + 1 ELSE routing
    /\ UNCHANGED <<clock, quota, routes>>

\* No key for the provider, origin outside the state, or a shelter that is not
\* available or has no room: the request ends before the allowance is touched.
Refused == routing > 0 /\ routing' = routing - 1 /\ UNCHANGED <<clock, hits, quota, asked, routes>>

\* DailyQuota.take, then the provider is asked.
Take ==
    LET today == clock \div Day
        used == IF quota.day = today THEN quota.used ELSE 0
        allowed == used < DailyLimit IN
    /\ routing > 0 /\ routing' = routing - 1
    /\ quota' = [day |-> today, used |-> IF allowed THEN used + 1 ELSE used]
    /\ routes' = IF allowed THEN Append(routes, clock) ELSE routes
    /\ UNCHANGED <<clock, hits, asked>>

Tick == clock < MaxClock /\ clock' = clock + 1 /\ UNCHANGED <<hits, quota, routing, asked, routes>>

Next ==
    \/ \E path \in DOMAIN Path, address \in Address : Check(path, address)
    \/ Refused \/ Take \/ Tick

Spec == Init /\ [][Next]_limitVars

-----------------------------------------------------------------------------
(* Properties.                                                             *)

Of(key) == {i \in DOMAIN asked : asked[i].key = key}
Let(key, from) == {i \in Of(key) : asked[i].wait = 0 /\ asked[i].at > from}

\* As many other keys came between two requests of this one as are tracked.
Forgotten(key, i, j) == Cardinality({asked[n].key : n \in i .. j} \ {key}) >= MaxTracked

\* More than the limit is let through in a window only to an address that was
\* forgotten in between, which takes MAX_TRACKED others; who waits for as long as
\* it is told is let through; and the provider is asked for no more routes in a
\* day than allowed, whatever day the requests came.
LimitKept ==
    /\ \A key \in {asked[n].key : n \in DOMAIN asked} :
        /\ Cardinality(Let(key, clock - Window)) > Limit[key[1]] =>
               \E i, j \in Of(key) : i < j /\ asked[i].at > clock - Window /\ Forgotten(key, i, j)
        /\ \A i, j \in Of(key) :
               i < j /\ asked[i].wait > 0 /\ asked[j].at >= asked[i].at + asked[i].wait
                     /\ (\A n \in i .. j - 1 : n \in Of(key) => asked[n].wait > 0)
               => asked[j].wait = 0
    /\ \A n \in DOMAIN routes :
        Cardinality({m \in DOMAIN routes : routes[m] \div Day = routes[n] \div Day}) <= DailyLimit
===============================================================================
