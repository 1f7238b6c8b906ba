--------------------------- MODULE MCCitizenReports ---------------------------
(* Instances of CitizenReports for TLC. *)
EXTENDS CitizenReports, TLC

CONSTANTS r1, r2, plain, snap, th1, th2

OneReport == {r1}
TwoReports == {r1, r2}
BothContents == {plain, snap}
Snap == {snap}
TwoThreads == {th1, th2}

(* Threads are interchangeable. *)
Interchangeable == Permutations(TwoThreads)
=============================================================================
