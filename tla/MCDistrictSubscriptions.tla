---------------------- MODULE MCDistrictSubscriptions ----------------------
(* Instances of DistrictSubscriptions for TLC. *)
EXTENDS DistrictSubscriptions, TLC

CONSTANTS ana, bob, udupi, mysore, t1, t2

OneKey == {ana}
TwoKeys == {ana, bob}
TwoDistricts == {udupi, mysore}
OneDistrict == {udupi}
TwoThreads == {t1, t2}
OneThread == {t1}
Nobody == {}

(* Threads and districts are interchangeable. *)
Interchangeable == Permutations(TwoThreads) \cup Permutations(TwoDistricts)
=============================================================================
