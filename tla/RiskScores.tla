------------------------------ MODULE RiskScores ------------------------------
(***************************************************************************)
(* The rule-based flood and drainage index: the pure scoring of            *)
(* backend/app/risk.py.                                                    *)
(*                                                                         *)
(* A reading is a set: empty when its source could not be read, otherwise  *)
(* holding the one value that was read.  Rain is in tenths of a            *)
(* millimetre, so that the thresholds are whole numbers.                   *)
(***************************************************************************)
EXTENDS Integers, Sequences, FiniteSets

Unread == {}

\* Thresholds, highest first, and what reaching each of them means.
LEVELS == <<<<6, "severe">>, <<4, "high">>, <<2, "moderate">>, <<0, "low">>>>
IMD == <<<<2045, 4>>, <<1156, 3>>, <<645, 2>>, <<156, 1>>, <<0, 0>>>>
Past5d == <<<<1500, 2>>, <<500, 1>>, <<0, 0>>>>
PeakHour == <<<<200, 2>>, <<100, 1>>, <<0, 0>>>>
ReportCount == <<<<3, 2>>, <<1, 1>>, <<0, 0>>>>

\* What the highest threshold that a value reaches stands for.
Reached(value, steps) ==
    LET i == CHOOSE i \in DOMAIN steps :
                 /\ value >= steps[i][1]
                 /\ \A j \in 1 .. i - 1 : value < steps[j][1]
    IN  steps[i][2]

level(score) == Reached(score, LEVELS)

\* A factor scores the points of its reading, and nothing without one.
Factor(id, points, most, absent) ==
    IF points = {} THEN [id |-> id, status |-> absent, points |-> 0, max |-> most]
    ELSE [id |-> id, status |-> "available", points |-> CHOOSE n \in points : TRUE, max |-> most]

rain24(rain) == Factor("rain24", {Reached(r.next24, IMD) : r \in rain}, 4, "unavailable")
rain5d(rain) == Factor("rain5d", {Reached(r.past5d, Past5d) : r \in rain}, 2, "unavailable")
intensity(rain) == Factor("intensity", {Reached(r.peak, PeakHour) : r \in rain}, 2, "unavailable")

\* A model cell without a significant river scores nothing.
river_points(r) == IF r.rl2 < 1 THEN 0 ELSE Reached(r.peak, <<<<r.rl5, 3>>, <<r.rl2, 2>>, <<0, 0>>>>)
river_factor(river) == Factor("river", {river_points(r) : r \in river}, 3, "unavailable")
elevation_factor(metres) == Factor("elevation", {IF m < 10 THEN 1 ELSE 0 : m \in metres}, 1, "unavailable")

\* Outside the mapped district there is no data, which is not a failure.
history_factor(history) == Factor("history", {IF flooded THEN 1 ELSE 0 : flooded \in history}, 1, "no_data")
reports_factor(count) == Factor("reports", {Reached(n, ReportCount) : n \in count}, 2, "unavailable")

\* The sum of all points, counted one by one.
Total(factors) == Cardinality(UNION {{f.id} \X (1 .. f.points) : f \in factors})

\* Without rain there is no score at all; otherwise the points are added and
\* what could not be read is admitted.
summarise(factors) ==
    LET total == Total(factors) IN
    IF \E f \in factors : f.id = "rain24" /\ f.status # "available"
    THEN [level |-> "unavailable", score |-> Unread, partial |-> TRUE, factors |-> factors]
    ELSE [level |-> level(total), score |-> {total},
          partial |-> \E f \in factors : f.status = "unavailable", factors |-> factors]

\* The rain of the next day counts at most 2 for drainage.
Eased(f) == [f EXCEPT !.points = IF @ > 2 THEN 2 ELSE @, !.max = 2]

\* What is known of a place: grid cells have rain only (detail is FALSE), cells
\* of an area no river.
assess(known, detail, include_river) ==
    LET place == IF detail THEN {elevation_factor(known.elevation)} ELSE {}
        flood == {rain24(known.rain), rain5d(known.rain)} \cup place
                 \cup (IF detail THEN {history_factor(known.history)} ELSE {})
                 \cup (IF detail /\ include_river THEN {river_factor(known.river)} ELSE {})
        drainage == {Eased(rain24(known.rain)), intensity(known.rain)} \cup place
                    \cup (IF detail THEN {reports_factor(known.reports)} ELSE {})
    IN  [flood |-> summarise(flood), drainage |-> summarise(drainage)]
===============================================================================
