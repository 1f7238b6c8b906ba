------------------------------ MODULE PlaceLookup ------------------------------
(***************************************************************************)
(* Place names and addresses from Nominatim: PlaceLookup and the endpoint  *)
(* of the administrator (backend/app/admin_place.py), and the address      *)
(* button of citizens (location_address.py), which share one lookup.       *)
(*                                                                         *)
(* An answer is cached; requests without one wait for one lock, and start  *)
(* at least MIN_INTERVAL apart.  Citizens are turned away while too many   *)
(* wait, administrators never.  A request may need a second lookup.        *)
(***************************************************************************)
EXTENDS Integers, Sequences, FiniteSets

CONSTANTS
    Request,
    Accuracy,     \* radius of a location in metres, or None for a tap on the map
    Bodies,       \* answers: parts of the address, whether a named building is at the
                  \* point, whether it is within STREET_M, and whether it is in India
    CacheSize, CacheSeconds, MinInterval, MaxWaiting,
    MaxClock,     \* bound
    None

VARIABLES
    clock,
    places,   \* cache, the entry unused for longest first
    lookers,  \* lock: who holds it and who waits
    waiting,  \* requests that have gone past the cache
    last,     \* start of the last request
    look,     \* what each request is doing
    starts    \* history: when Nominatim was asked

placeVars == <<clock, places, lookers, waiting, last, look, starts>>

-----------------------------------------------------------------------------
Locality == {"village", "town"}

\* precision: the zoom to ask for, and the parts of the answer not to show.
precision(accuracy) ==
    IF accuracy = None \/ accuracy <= 20 THEN [zoom |-> 18, drop |-> {}]
    ELSE IF accuracy <= 250 THEN [zoom |-> 17, drop |-> {"house_number"}]
    ELSE [zoom |-> 14, drop |-> {"house_number", "road"}]

\* fill_place: what only the answer for the village names is added.
fill_place(parts, place) ==
    IF ~place.india THEN parts
    ELSE parts \cup (IF parts \cap Locality = {} THEN place.parts \cap Locality ELSE {})
               \cup (place.parts \cap {"pin"})

\* What a citizen is shown of the parts known, from the first answer.
Shown(accuracy, first, parts) ==
    LET drop == IF first.near THEN precision(accuracy).drop ELSE {"house_number", "road"} IN
    [parts |-> parts \ drop,
     precision |-> IF "road" \in first.parts \ drop THEN "street" ELSE "area"]

Kept(key) == {i \in DOMAIN places : places[i].key = key}
Current(i) == clock - places[i].at < CacheSeconds

\* A key keeps its place when its answer is replaced; the first goes if there are too many.
Put(e) ==
    LET all == IF Kept(e.key) # {} THEN [i \in DOMAIN places |-> IF places[i].key = e.key THEN e ELSE places[i]]
               ELSE Append(places, e)
    IN  IF Len(all) > CacheSize THEN Tail(all) ELSE all

\* PlaceLookup.nominatim until it waits or returns.
Enter(r, request) ==
    LET key == request.key
        hit == {i \in Kept(key) : Current(i)} IN
    IF hit # {} THEN
        LET i == CHOOSE i \in hit : TRUE IN
        /\ places' = Append(SubSeq(places, 1, i - 1) \o SubSeq(places, i + 1, Len(places)), places[i])
        /\ look' = [look EXCEPT ![r] = [request EXCEPT !.pc = "answered", !.body = places[i].body]]
        /\ UNCHANGED <<lookers, waiting>>
    ELSE IF request.who = "citizen" /\ waiting >= MaxWaiting THEN
        /\ look' = [look EXCEPT ![r] = [request EXCEPT !.pc = "failed"]]
        /\ UNCHANGED <<places, lookers, waiting>>
    ELSE
        /\ look' = [look EXCEPT ![r] = [request EXCEPT !.pc = "waiting", !.came = clock]]
        /\ lookers' = Append(lookers, r) /\ waiting' = waiting + 1
        /\ UNCHANGED places

Idle == [pc |-> "idle", who |-> None, accuracy |-> None, key |-> <<>>, came |-> 0,
         body |-> None, first |-> None, result |-> None]

Init ==
    /\ clock = 0 /\ places = <<>> /\ lookers = <<>> /\ waiting = 0 /\ last = None
    /\ look = [r \in Request |-> Idle] /\ starts = {}

-----------------------------------------------------------------------------
\* admin_place, inside the state: the nearest named place first.
Admin(r) ==
    /\ look[r].pc = "idle"
    /\ Enter(r, [Idle EXCEPT !.who = "administrator", !.key = <<"poi", 18>>])
    /\ UNCHANGED <<clock, last, starts>>

\* location_address, switched on and inside the state.  A location too rough for
\* an address is not looked up.
Citizen(r, accuracy) ==
    /\ look[r].pc = "idle" /\ (accuracy # None => accuracy <= 1000)
    /\ Enter(r, [Idle EXCEPT !.who = "citizen", !.accuracy = accuracy,
                             !.key = <<"address", precision(accuracy).zoom>>])
    /\ UNCHANGED <<clock, last, starts>>

\* Mutant: only the lock keeps requests apart.
Free(r) == Head(lookers) = r

\* The lock is held, and the pause since the last start is over.
MayStart(r) == Head(lookers) = r /\ (last # None => clock - last >= MinInterval)

Start(r) ==
    /\ look[r].pc = "waiting" /\ MayStart(r)
    /\ look' = [look EXCEPT ![r].pc = "asking"] /\ last' = clock /\ starts' = starts \cup {<<clock, r, look[r].key>>}
    /\ UNCHANGED <<clock, places, lookers, waiting>>

Release == lookers' = Tail(lookers) /\ waiting' = waiting - 1

Answer(r, body) ==
    /\ look[r].pc = "asking"
    /\ Release
    /\ places' = Put([key |-> look[r].key, at |-> clock, body |-> body])
    /\ look' = [look EXCEPT ![r].pc = "answered", ![r].body = body]
    /\ UNCHANGED <<clock, last, starts>>

\* No answer in time, one that cannot be read, or no place.
Fail(r) ==
    /\ look[r].pc = "asking"
    /\ Release
    /\ look' = [look EXCEPT ![r].pc = "failed"]
    /\ UNCHANGED <<clock, places, last, starts>>

End(r, result) ==
    /\ look' = [look EXCEPT ![r] = [Idle EXCEPT !.pc = "done", !.who = look[r].who,
                                               !.accuracy = look[r].accuracy, !.result = result]]
    /\ UNCHANGED <<places, lookers, waiting>>

Second(r, key) == Enter(r, [look[r] EXCEPT !.key = key, !.first = look[r].body])

\* The handler goes on with an answer.
Continue(r) ==
    LET body == look[r].body
        first == look[r].first
        lacking == body.parts \cap Locality = {} \/ "pin" \notin body.parts IN
    /\ look[r].pc = "answered"
    /\ \/ look[r].who = "administrator" /\ first = None /\ ~body.named /\ Second(r, <<"address", 18>>)
       \/ look[r].who = "administrator" /\ (first # None \/ body.named) /\ End(r, None)
       \/ /\ look[r].who = "citizen" /\ first = None
          /\ IF look[r].key[2] # 14 /\ lacking THEN Second(r, <<"address", 14>>)
             ELSE End(r, IF body.india THEN Shown(look[r].accuracy, body, body.parts) ELSE None)
       \/ /\ look[r].who = "citizen" /\ first # None
          /\ End(r, IF first.india THEN Shown(look[r].accuracy, first, fill_place(first.parts, body)) ELSE None)
    /\ UNCHANGED <<clock, last, starts>>

\* Without a first answer there is nothing to show; without the second one, the
\* first is.
GiveUp(r) ==
    LET first == look[r].first IN
    /\ look[r].pc = "failed"
    /\ End(r, IF look[r].who = "citizen" /\ first # None /\ first.india
              THEN Shown(look[r].accuracy, first, first.parts) ELSE None)
    /\ UNCHANGED <<clock, last, starts>>

Tick == clock < MaxClock /\ clock' = clock + 1 /\ UNCHANGED <<places, lookers, waiting, last, look, starts>>

Next ==
    \/ \E r \in Request :
          \/ Admin(r) \/ Start(r) \/ Fail(r) \/ Continue(r) \/ GiveUp(r)
          \/ \E accuracy \in Accuracy : Citizen(r, accuracy)
          \/ \E body \in Bodies : Answer(r, body)
    \/ Tick

Spec == Init /\ [][Next]_placeVars

-----------------------------------------------------------------------------
(* Properties.                                                             *)

\* "At most one request per second for the whole application" (admin_place.py:5),
\* one at a time, whoever asks; no citizen waits behind more than MAX_WAITING, and
\* nobody counts as waiting who does not; and what is cached is asked for again
\* only for a request that came before the answer did.
NominatimSpared ==
    /\ \A s, t \in starts : s # t => s[1] - t[1] >= MinInterval \/ t[1] - s[1] >= MinInterval
    /\ Cardinality({r \in Request : look[r].pc = "asking"}) <= 1
    /\ waiting = Cardinality({r \in Request : look[r].pc \in {"waiting", "asking"}})
    /\ \A i \in DOMAIN lookers : look[lookers[i]].who = "citizen" => i <= MaxWaiting
    /\ \A r \in Request, i \in DOMAIN places :
           look[r].pc = "asking" /\ places[i].key = look[r].key /\ Current(i)
           => look[r].came <= places[i].at

\* "The address is only as precise as the location: no house number unless the fix
\* is within 20 m, and only the area (no street) when it is within 1 km"
\* (location_address.py:6), however it was put together and cached; and it is
\* called a street's only if it names one.
AddressAsPrecise ==
    \A r \in Request :
        LET result == look[r].result
            accuracy == look[r].accuracy IN
        result # None =>
            /\ "house_number" \in result.parts => accuracy = None \/ accuracy <= 20
            /\ "road" \in result.parts => accuracy = None \/ accuracy <= 250
            /\ result.precision = "street" <=> "road" \in result.parts
===============================================================================
