---------------------------- MODULE ConsentLedger ----------------------------
(***************************************************************************)
(* What a consent store promises: the consent of a key is moved only by a  *)
(* command that was sent after every command applied to that key before,   *)
(* or is revoked when the key turns out to be unreachable.                 *)
(***************************************************************************)
EXTENDS Naturals

CONSTANTS Key, Off
VARIABLES consent, \* the consent of each key
          latest   \* the position of the last command applied, 0 for none

Init == consent = [k \in Key |-> Off] /\ latest = [k \in Key |-> 0]

OthersKeep(k) == \A j \in Key \ {k} : consent'[j] = consent[j] /\ latest'[j] = latest[j]

Decide(k) == latest'[k] > latest[k] /\ OthersKeep(k)

Revoke(k) == consent'[k] = Off /\ latest'[k] = latest[k] /\ OthersKeep(k)

Next == \E k \in Key : Decide(k) \/ Revoke(k)

Spec == Init /\ [][Next]_<<consent, latest>>
=============================================================================
