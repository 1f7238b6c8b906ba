--------------------------- MODULE MCNotifications ---------------------------
(* Instances of Notifications for TLC. *)
EXTENDS Notifications, TLC

CONSTANTS adm1, adm2, req1, req2, req3, k1, k2, op, s1, c1, c2, th1, th2

OneAdmin == {adm1}
TwoAdmins == {adm1, adm2}
OneRequest == {req1}
TwoRequests == {req1, req2}
ThreeRequests == {req1, req2, req3}
TwoKeys == {k1, k2}
NoKeys == {}
OneThread == {th1}
TwoThreads == {th1, th2}
OneShelter == {s1}
NoShelter == {}
OneConfig == {c1}
TwoConfigs == {c1, c2}

WithShelter == {[target |-> "district", shelter |-> TRUE]}
Direct == {[target |-> "direct", shelter |-> FALSE]}
Both == WithShelter \cup Direct

(* Threads, and requests, are interchangeable. *)
ThreadsInterchangeable == Permutations(TwoThreads)
RequestsInterchangeable == Permutations(ThreeRequests)
=============================================================================
