---------------------------- MODULE ShelterOffer ----------------------------
(***************************************************************************)
(* What the public is promised about a shelter: it is offered with facts   *)
(* that somebody confirmed, for a limited time, by the latest decision     *)
(* taken about it; no earlier decision ever comes back.                    *)
(***************************************************************************)
EXTENDS Integers

CONSTANTS Shelter, Facts, Valid, None
VARIABLES clock,
          decided, \* when the latest decision about each shelter was taken
          offer    \* the facts offered, or None

Init == clock = 0 /\ decided = [s \in Shelter |-> 0] /\ offer = [s \in Shelter |-> None]

\* A shelter is offered, or no longer.
Decide(s) ==
    /\ decided'[s] \in decided[s]..clock
    /\ offer'[s] \in Facts \cup {None}
    /\ offer'[s] # None => clock < decided'[s] + Valid
    /\ \A o \in Shelter \ {s} : decided'[o] = decided[o] /\ offer'[o] = offer[o]
    /\ clock' = clock

\* Time passes, and what was confirmed too long ago is not offered any more.
Pass ==
    /\ clock' = clock + 1 /\ decided' = decided
    /\ offer' = [s \in Shelter |-> IF clock' < decided[s] + Valid THEN offer[s] ELSE None]

Next == Pass \/ \E s \in Shelter : Decide(s)

Spec == Init /\ [][Next]_<<clock, decided, offer>>
=============================================================================
