------------------------------- MODULE MCServices -------------------------------
(***************************************************************************)
(* Services for TLC: small values for the constants of every service.      *)
(***************************************************************************)
EXTENDS Services, TLC

CONSTANTS r1, r2, r3, g1, g2, g3, a1, a2, p1, p2

Two == {r1, r2}
Three == {r1, r2, r3}

\* Time enough for a body to be read as slowly as may be, to be kept, and to expire;
\* and for two windows, days, or lives of a cached answer.
Horizons == [grid |-> 5, area |-> 6, point |-> 4, river |-> 4, public |-> 2, places |-> 3, geocoding |-> 5,
             accounts |-> 2, feeds |-> 2, bulletin |-> 8, pool |-> 7]

(* The risk screen. *)
Kinds == {"grid", "area", "point"}
KindOf == [k \in Kinds |-> k]
Lattice == [grid |-> <<g1, g2, g3>>, area |-> <<a1, a2>>, point |-> <<a1>>]
HeightOf == [c \in {g1, g2, g3, a1, a2} |-> IF c = a1 THEN 5 ELSE 50]
SomeRain == {[next24 |-> 1156, past5d |-> 499, peak |-> 200]}
SomeFlow == {[peak |-> 9, rl2 |-> 5, rl5 |-> 9]}
Ttls == [k \in Kinds |-> 3]
OneWait == {1}

(* The river forecast: five weeks for a river of the trained model. *)
OfRuns(two, five) == [two |-> two, five |-> five, median |-> two]
Quiet == <<OfRuns(4, 0), OfRuns(10, 0)>>
SomeEnsembles == {[Hemavathi |-> week, Kali |-> Quiet] : week \in
    {Quiet, <<OfRuns(20, 0), OfRuns(50, 0)>>, <<OfRuns(18, 2), OfRuns(60, 0)>>,
     <<OfRuns(60, 10), OfRuns(50, 50)>>, <<OfRuns(50, 0), OfRuns(48, 0)>>}}

TwoRivers == {"Hemavathi", "Kali"}
OneRiver == {"Hemavathi"}

(* The public limits. *)
Paths == ("/api/route" :> "expensive") @@ ("/api/weather" :> "public") @@ ("/api/health" :> "none")
TwoLimits == [expensive |-> 1, public |-> 2]

(* Place names: a building's number in a street, and a named building with its town. *)
Accuracies == {None, 250, 1000}
SomeBodies == {[parts |-> {"house_number", "road"}, named |-> FALSE, near |-> TRUE, india |-> TRUE],
               [parts |-> {"house_number", "road", "town", "pin"}, named |-> TRUE, near |-> FALSE, india |-> TRUE]}
TwoPoints == {p1, p2}
OnePoint == {p1}
TwoPauses == {1, 2}

Maxima == [peer |-> 2, account |-> 1, total |-> 1, address |-> 2]

(* Two directories of one version, one of the next, and one with a locality outside its district. *)
Locality(id, point, selectable) ==
    [id |-> id, aliases |-> {}, district |-> "Udupi", point |-> point, selectable |-> selectable]
Version(n, localities, coverage) ==
    [version |-> n, districts |-> [Udupi |-> {p1}], localities |-> localities, coverage |-> coverage]

Contents == {"one", "other", "next", "broken"}
Held == [one |-> Version(1, {Locality("town", p1, TRUE)}, 1), other |-> Version(1, {Locality("town", None, FALSE)}, 0),
         next |-> Version(2, {Locality("town", p1, TRUE), Locality("village", None, FALSE)}, 1),
         broken |-> Version(2, {Locality("town", p2, TRUE)}, 1)]

(* A bulletin of three days: a colour without a level, a code that means nothing, no warning. *)
Says(colour, codes) == [colour |-> colour, codes |-> codes]
Forecasts == {<<Says(4, {"none"}), Says(2, {"rain"}), Says(1, {"rain", "odd"})>>,
              <<Says(1, {"rain"}), Says(4, {"none"}), Says(2, {"none"})>>, <<Says(7, {"rain"}), Says(1, {"odd"})>>}

Colours == <<"red", "orange", "yellow", "green">>
Codes == {"none", "rain"}

\* Requests are alike.
Alike == Permutations(Two)
===============================================================================
