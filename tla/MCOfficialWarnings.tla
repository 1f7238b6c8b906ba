-------------------------- MODULE MCOfficialWarnings --------------------------
(* Requests; an alert and its cancellation, which is not Actual itself, an   *)
(* alert without an expiry and one whose expiry lacks its zone.              *)
EXTENDS OfficialWarnings, TLC

CONSTANTS r1, r2, alert, cancel, undated, zoneless

OneTask == {r1}
TwoTasks == {r1, r2}
Messages == {alert, cancel, undated, zoneless}
ActualOnes == Messages \ {cancel}
CancelOf == [m \in Messages |-> IF m = cancel THEN alert ELSE None]
ExpiryOf == [m \in Messages |-> CASE m = alert -> 1 [] m = undated -> None [] OTHER -> 4]
ZonelessOne == {zoneless}
OneBulletin == {"imd"}
LifeOf == [b \in OneBulletin |-> 1]
TtlOf == [s \in OneBulletin \cup {"sachet"} |-> IF s = "imd" THEN 1 ELSE 2]
Interchangeable == Permutations(TwoTasks)
=============================================================================
