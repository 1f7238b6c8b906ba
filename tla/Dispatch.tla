------------------------------ MODULE Dispatch ------------------------------
(***************************************************************************)
(* What an approved message promises: it is composed, approved once, then  *)
(* handed to each recipient at most once, and never again once settled.    *)
(***************************************************************************)
EXTENDS Naturals

CONSTANTS Id, Recipient
VARIABLES phase,  \* none, draft, sending or settled, for each message
          handed  \* how often each message was handed out for each recipient

Init ==
    /\ phase = [id \in Id |-> "none"]
    /\ handed = [id \in Id |-> [r \in Recipient |-> 0]]

Move(id, from, to) ==
    /\ phase[id] = from /\ phase' = [phase EXCEPT ![id] = to]
    /\ UNCHANGED handed

Hand(id, r) ==
    /\ phase[id] = "sending" /\ handed[id][r] = 0
    /\ handed' = [handed EXCEPT ![id][r] = 1]
    /\ UNCHANGED phase

Next == \E id \in Id :
    \/ Move(id, "none", "draft") \/ Move(id, "draft", "sending")
    \/ Move(id, "sending", "settled")
    \/ \E r \in Recipient : Hand(id, r)

Spec == Init /\ [][Next]_<<phase, handed>>
=============================================================================
