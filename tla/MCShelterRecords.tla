--------------------------- MODULE MCShelterRecords ---------------------------
(* Instances of ShelterRecords for TLC. *)
EXTENDS ShelterRecords, TLC

CONSTANTS s1, s2, adm1, adm2, th1, th2, roomy, crowded

OneShelter == {s1}
TwoShelters == {s1, s2}
OneAdmin == {adm1}
TwoAdmins == {adm1, adm2}
TwoThreads == {th1, th2}
Roomy == {roomy}
BothFacts == {roomy, crowded}

(* Administrators and threads are interchangeable. *)
Interchangeable == Permutations(TwoAdmins) \cup Permutations(TwoThreads)
=============================================================================
